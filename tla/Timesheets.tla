----------------------------- MODULE Timesheets -----------------------------
(***************************************************************************)
(* Time tracking: the timer, the time entries and the timesheets of one    *)
(* user, and the minutes that are booked on tasks.  Every request reads,   *)
(* checks and then writes by id, and what it has checked may have changed: *)
(* the owner edits entries while a manager approves or rejects the sheet.  *)
(*                                                                         *)
(* A change of a sheet's status writes the sheet and its entries in one    *)
(* transaction.  The row of the sheet is its first statement, and stays    *)
(* locked, so that two such transactions on a sheet follow one another.    *)
(* Who may send a request, the period of a sheet and the texts are left    *)
(* out: periods may overlap, so that an entry fits any sheet.  A total of  *)
(* minutes is kept as the set of its summands.                             *)
(***************************************************************************)
EXTENDS Integers, FiniteSets

CONSTANTS
    Request,    \* requests that may be under way at a time
    Entry,      \* bound: rows of time entries
    Sheet,      \* bound: rows of timesheets
    Task,       \* tasks with a total of their minutes
    Minutes,    \* what an entry may book
    MaxTimers,  \* bound: timers started
    Nil         \* no sheet, no task

ASSUME BoundAssumption ==
    Minutes \subseteq Nat \ {0} /\ MaxTimers \in Nat /\ Nil \notin Sheet \cup Task

VARIABLES
    sheet,      \* status of the rows of sheets
    entry,      \* rows of entries
    timer,      \* the timer that runs, 0: none
    started,    \* timers started so far
    discarded,  \* history: timers that were discarded
    actual,     \* summands of a task's actualMins
    req,        \* requests
    torn,       \* history: entries written under a sheet that was locked meanwhile
    blurred     \* history: tasks whose total no request has computed undisturbed

vars == <<sheet, entry, timer, started, discarded, actual, req, torn, blurred>>
timers == <<timer, started, discarded>>

Unread == Nil
Summands == SUBSET (Entry \X (Minutes \cup {0}))

\* A total that a request has to compute: an update owes that of the task it
\* has read and that of the task it has written, often the same one, at once.
Sync == Task \X {"before", "after"}
SheetStatus == {"none", "DRAFT", "SUBMITTED", "APPROVED", "REJECTED", "CANCELLED"}
EntryState == [st : {"none", "DRAFT", "SUBMITTED", "APPROVED", "REJECTED", "gone"},
               sheet : Sheet \cup {Nil}, task : Task \cup {Nil}, mins : Minutes \cup {0},
               timer : 0..MaxTimers]
SheetOp == {"submit", "approve", "reject", "reopen", "cancel"}
EntryOp == {"update", "delete", "add", "remove"}
ReqState == [pc : {"idle", "write", "sync"},
             op : SheetOp \cup EntryOp \cup {"none", "start", "stop", "discard"},
             sheet : Sheet \cup {Nil}, entry : Entry \cup {Nil}, redo : BOOLEAN,
             task : Task \cup {Nil}, timer : 0..MaxTimers, todo : SUBSET Sync,
             got : [Sync -> Summands \cup {Unread}]]

Idle == [pc |-> "idle", op |-> "none", sheet |-> Nil, entry |-> Nil, redo |-> FALSE,
         task |-> Nil, timer |-> 0, todo |-> {}, got |-> [x \in Sync |-> Unread]]
NoEntry == [st |-> "none", sheet |-> Nil, task |-> Nil, mins |-> 0, timer |-> 0]

Init ==
    /\ sheet = [s \in Sheet |-> "none"]
    /\ entry = [e \in Entry |-> NoEntry]
    /\ timer = 0 /\ started = 0 /\ discarded = {}
    /\ actual = [t \in Task |-> {}]
    /\ req = [r \in Request |-> Idle]
    /\ torn = {} /\ blurred = {}

-----------------------------------------------------------------------------

Exists(e) == entry[e].st \notin {"none", "gone"}
Attached(s) == {e \in Entry : Exists(e) /\ entry[e].sheet = s}
Editable(s) == sheet[s] \in {"DRAFT", "REJECTED"}

\* assertEntryEditable.
EntryEditable(e) ==
    /\ Exists(e) /\ entry[e].st # "APPROVED"
    /\ entry[e].sheet # Nil => sheet[entry[e].sheet] \notin {"SUBMITTED", "APPROVED", "CANCELLED"}

Counts(row, t) == row.task = t /\ row.st \notin {"none", "gone", "REJECTED"}
Total(t) == {<<e, entry[e].mins>> : e \in {d \in Entry : Counts(entry[d], t)}}

\* A request has written an entry and owes some tasks their totals.  While
\* another one owes a task as well, the two may be written in any order; and
\* it misses a task that the entry was moved to since it was read.
Owed(todo) == {x[1] : x \in todo}
OthersOwe(r) == UNION {Owed(req[q].todo) : q \in Request \ {r}}
Owe(r, syncs, missed) ==
    LET todo == syncs \cap Sync IN
    /\ req' = [req EXCEPT ![r] = IF todo = {} THEN Idle
                                 ELSE [Idle EXCEPT !.pc = "sync", !.todo = todo]]
    /\ blurred' = blurred \cup (Owed(todo) \cap OthersOwe(r))
                          \cup (missed \ (Owed(todo) \cup {Nil}))

Ask(r, asked) ==
    /\ req[r].pc = "idle"
    /\ req' = [req EXCEPT ![r] = asked]
    /\ UNCHANGED <<sheet, entry, timers, actual, torn, blurred>>
AskEntry(r, op, e) ==
    Ask(r, [Idle EXCEPT !.pc = "write", !.op = op, !.entry = e, !.task = entry[e].task,
                        !.redo = entry[e].st = "REJECTED"])
AskMove(r, op, s, e) == Ask(r, [Idle EXCEPT !.pc = "write", !.op = op, !.sheet = s, !.entry = e])
AskSheet(r, op, s) == Ask(r, [Idle EXCEPT !.pc = "write", !.op = op, !.sheet = s])
AskTimer(r, op) == Ask(r, [Idle EXCEPT !.pc = "write", !.op = op, !.timer = timer])

\* Not found, a unique key, or a row that is gone: the request fails.
Fail(r) ==
    /\ req' = [req EXCEPT ![r] = Idle]
    /\ UNCHANGED <<sheet, entry, timers, actual, torn, blurred>>

Doing(r, op) == req[r].pc = "write" /\ req[r].op = op

-----------------------------------------------------------------------------
(***************************************************************************)
(* Entries.                                                                *)
(***************************************************************************)
NewEntry(e, t, m, n) ==
    /\ entry[e].st = "none"
    /\ entry' = [entry EXCEPT ![e] = [st |-> "DRAFT", sheet |-> Nil, task |-> t,
                                      mins |-> m, timer |-> n]]

CreateTimeEntry(r, e, t, m) ==
    /\ req[r].pc = "idle"
    /\ NewEntry(e, t, m, 0)
    /\ Owe(r, {<<t, "after">>}, {})
    /\ UNCHANGED <<sheet, timers, actual, torn>>

UpdateRead(r, e) ==
    /\ EntryEditable(e)
    /\ AskEntry(r, "update", e)

\* A rejected entry becomes a draft, whatever it is by now.  The totals of
\* the task as it was read and of the new one are computed.
Reset(r) == IF req[r].redo THEN "DRAFT" ELSE entry[req[r].entry].st
Locked(s) == s # Nil /\ ~Editable(s)

UpdateWrite(r, t, m) ==
    LET e == req[r].entry IN
    /\ Doing(r, "update")
    /\ \/ ~Exists(e) /\ Fail(r)
       \/ /\ Exists(e) /\ (t = Nil => entry[e].task = Nil)
          /\ entry' = [entry EXCEPT ![e].st = Reset(r), ![e].task = t, ![e].mins = m]
          /\ torn' = IF req[r].redo /\ Locked(entry[e].sheet) THEN torn \cup {e} ELSE torn
          /\ Owe(r, {<<req[r].task, "before">>, <<t, "after">>}, {entry[e].task} \ {req[r].task})
          /\ UNCHANGED <<sheet, timers, actual>>

DeleteRead(r, e) ==
    /\ EntryEditable(e)
    /\ AskEntry(r, "delete", e)

\* Mutant: deleting an entry computes no total.
NoneOwed(r) == {}
DeleteOwes(r) == {<<req[r].task, "before">>}

DeleteWrite(r) ==
    LET e == req[r].entry IN
    /\ Doing(r, "delete")
    /\ \/ ~Exists(e) /\ Fail(r)
       \/ /\ Exists(e)
          /\ entry' = [entry EXCEPT ![e].st = "gone", ![e].sheet = Nil]
          /\ torn' = torn \ {e}
          /\ Owe(r, DeleteOwes(r), {entry[e].task} \ {req[r].task})
          /\ UNCHANGED <<sheet, timers, actual>>

\* syncTaskActualMinutes: the sum is read, and written by the next await.
Alone(r, x) == x[1] \notin OthersOwe(r) \cup Owed(req[r].todo \ {x})

SyncRead(r, x) ==
    /\ x \in req[r].todo /\ req[r].got[x] = Unread
    /\ req' = [req EXCEPT ![r].got[x] = Total(x[1])]
    /\ blurred' = IF Alone(r, x) THEN blurred \ {x[1]} ELSE blurred
    /\ UNCHANGED <<sheet, entry, timers, actual, torn>>

SyncWrite(r, x) ==
    /\ x \in req[r].todo /\ req[r].got[x] # Unread
    /\ actual' = [actual EXCEPT ![x[1]] = req[r].got[x]]
    /\ req' = [req EXCEPT ![r] = IF req[r].todo = {x} THEN Idle
                                 ELSE [req[r] EXCEPT !.todo = @ \ {x}, !.got[x] = Unread]]
    /\ UNCHANGED <<sheet, entry, timers, torn, blurred>>

\* The instance dies, or the database fails the request.
Die(r) ==
    /\ req[r].pc # "idle"
    /\ blurred' = blurred \cup Owed(req[r].todo)
    /\ req' = [req EXCEPT ![r] = Idle]
    /\ UNCHANGED <<sheet, entry, timers, actual, torn>>

-----------------------------------------------------------------------------
(***************************************************************************)
(* The timer: one row per user, by a unique key.                           *)
(***************************************************************************)
StartRead(r) == timer = 0 /\ AskTimer(r, "start")

StartWrite(r) ==
    /\ Doing(r, "start")
    /\ \/ timer # 0 /\ Fail(r)
       \/ /\ timer = 0 /\ started < MaxTimers
          /\ timer' = started + 1 /\ started' = started + 1
          /\ req' = [req EXCEPT ![r] = Idle]
          /\ UNCHANGED <<sheet, entry, discarded, actual, torn, blurred>>

StopRead(r) == timer # 0 /\ AskTimer(r, "stop")

\* One transaction: the entry is inserted and the timer deleted by its id.
\* Mutant: the timer is deleted by its user, and none need be found.
StopAny(r) == TRUE
StopFinds(r) == timer = req[r].timer

StopWrite(r, e, t, m) ==
    /\ Doing(r, "stop")
    /\ \/ ~StopFinds(r) /\ Fail(r)
       \/ /\ StopFinds(r)
          /\ NewEntry(e, t, m, req[r].timer)
          /\ timer' = 0
          /\ Owe(r, {<<t, "after">>}, {})
          /\ UNCHANGED <<sheet, started, discarded, actual, torn>>

DiscardRead(r) == timer # 0 /\ AskTimer(r, "discard")

DiscardWrite(r) ==
    /\ Doing(r, "discard")
    /\ \/ timer # req[r].timer /\ Fail(r)
       \/ /\ timer = req[r].timer
          /\ timer' = 0 /\ discarded' = discarded \cup {timer}
          /\ req' = [req EXCEPT ![r] = Idle]
          /\ UNCHANGED <<sheet, entry, started, actual, torn, blurred>>

-----------------------------------------------------------------------------
(***************************************************************************)
(* Timesheets.                                                             *)
(***************************************************************************)
\* Entries change their status, and with it the totals that nobody computes.
Recount(old, new) ==
    {t \in Task : \E e \in Entry : /\ old[e].task = t
                                   /\ (old[e].st = "REJECTED") # (new[e].st = "REJECTED")}

\* One transaction: the sheet, and the user's drafts that are on none.
CreateTimesheet(s, include) ==
    LET free == {e \in Entry : /\ include /\ entry[e].sheet = Nil
                               /\ entry[e].st \in {"DRAFT", "REJECTED"}}
        new == [e \in Entry |-> IF e \in free THEN [entry[e] EXCEPT !.sheet = s, !.st = "DRAFT"]
                                ELSE entry[e]]
    IN /\ sheet[s] = "none"
       /\ sheet' = [sheet EXCEPT ![s] = "DRAFT"]
       /\ entry' = new
       /\ blurred' = blurred \cup Recount(entry, new)
       /\ UNCHANGED <<timers, actual, req, torn>>

\* addTimesheetEntries and removeTimesheetEntry, with one entry at a time.  Each
\* reads the sheet and then the entry, here in one step: a sheet that is locked
\* between the two is locked when MoveWrite comes (torn), as one that is locked after.
AddRead(r, s, e) ==
    /\ Editable(s)
    /\ entry[e].sheet \in {Nil, s} /\ entry[e].st \in {"DRAFT", "REJECTED"}
    /\ AskMove(r, "add", s, e)

RemoveRead(r, s, e) ==
    /\ Editable(s) /\ e \in Attached(s)
    /\ AskMove(r, "remove", s, e)

MoveWrite(r, to) ==
    LET e == req[r].entry
        new == [entry EXCEPT ![e].sheet = to, ![e].st = "DRAFT"]
    IN /\ entry' = new
       /\ torn' = IF Locked(to) THEN torn \cup {e} ELSE torn \ {e}
       /\ blurred' = blurred \cup Recount(entry, new)
       /\ req' = [req EXCEPT ![r] = Idle]
       /\ UNCHANGED <<sheet, timers, actual>>

\* updateMany does not mind that the entry is gone, update does.
AddWrite(r) ==
    /\ Doing(r, "add")
    /\ IF Exists(req[r].entry) THEN MoveWrite(r, req[r].sheet) ELSE Fail(r)

RemoveWrite(r) ==
    /\ Doing(r, "remove")
    /\ IF Exists(req[r].entry) THEN MoveWrite(r, Nil) ELSE Fail(r)

\* The status checks of submit, approve, reject, reopen and cancel.
Allowed(op, s) ==
    CASE op = "submit" -> Editable(s) /\ Attached(s) # {}
      [] op \in {"approve", "reject"} -> sheet[s] = "SUBMITTED"
      [] op = "reopen" -> sheet[s] \in {"REJECTED", "SUBMITTED", "APPROVED"}
      [] op = "cancel" -> sheet[s] # "none"

Becomes(op) ==
    CASE op = "submit" -> "SUBMITTED" [] op = "approve" -> "APPROVED"
      [] op = "reject" -> "REJECTED" [] op = "reopen" -> "DRAFT" [] op = "cancel" -> "CANCELLED"

SheetRead(r, op, s) == Allowed(op, s) /\ AskSheet(r, op, s)

\* The entries of the sheet take its status; cancelling lets go of those
\* that are not approved.
\* Mutants: the entries of a cancelled sheet are cancelled; cancelling leaves
\* the entries on the sheet.
SameStatus(op, row) == [row EXCEPT !.st = Becomes(op)]
CancelKeeps(op, row) ==
    IF op # "cancel" THEN [row EXCEPT !.st = Becomes(op)]
    ELSE IF row.st = "APPROVED" THEN row ELSE [row EXCEPT !.st = "DRAFT"]
EntryAfter(op, row) ==
    IF op # "cancel" THEN [row EXCEPT !.st = Becomes(op)]
    ELSE IF row.st = "APPROVED" THEN row ELSE [row EXCEPT !.st = "DRAFT", !.sheet = Nil]

SheetWrite(r) ==
    LET s == req[r].sheet
        new == [e \in Entry |-> IF e \in Attached(s) THEN EntryAfter(req[r].op, entry[e])
                                ELSE entry[e]]
    IN /\ req[r].pc = "write" /\ req[r].op \in SheetOp
       /\ sheet' = [sheet EXCEPT ![s] = Becomes(req[r].op)]
       /\ entry' = new
       /\ torn' = torn \ Attached(s)
       /\ blurred' = blurred \cup Recount(entry, new)
       /\ req' = [req EXCEPT ![r] = Idle]
       /\ UNCHANGED <<timers, actual>>

-----------------------------------------------------------------------------

EntryStep(r) ==
    \/ \E e \in Entry, t \in Task \cup {Nil}, m \in Minutes :
          CreateTimeEntry(r, e, t, m) \/ StopWrite(r, e, t, m)
    \/ \E t \in Task \cup {Nil}, m \in Minutes : UpdateWrite(r, t, m)
    \/ \E e \in Entry : UpdateRead(r, e) \/ DeleteRead(r, e)
    \/ DeleteWrite(r)
    \/ \E x \in req[r].todo : SyncRead(r, x) \/ SyncWrite(r, x)

TimerStep(r) ==
    \/ StartRead(r) \/ StartWrite(r)
    \/ StopRead(r)
    \/ DiscardRead(r) \/ DiscardWrite(r)

SheetStep(r) ==
    \/ \E s \in Sheet, e \in Entry : AddRead(r, s, e) \/ RemoveRead(r, s, e)
    \/ AddWrite(r) \/ RemoveWrite(r)
    \/ \E s \in Sheet, op \in SheetOp : SheetRead(r, op, s)
    \/ SheetWrite(r)

Next ==
    \/ \E r \in Request : EntryStep(r) \/ TimerStep(r) \/ SheetStep(r) \/ Die(r)
    \/ \E s \in Sheet, include \in BOOLEAN : CreateTimesheet(s, include)

Spec == Init /\ [][Next]_vars

-----------------------------------------------------------------------------

TypeOK ==
    /\ sheet \in [Sheet -> SheetStatus]
    /\ entry \in [Entry -> EntryState]
    /\ timer \in 0..started /\ started \in 0..MaxTimers /\ discarded \subseteq 1..started
    /\ actual \in [Task -> Summands]
    /\ req \in [Request -> ReqState]
    /\ torn \subseteq Entry /\ blurred \subseteq Task

(***************************************************************************)
(* However submit, approve, reject, reopen and cancel overlap, an entry    *)
(* has the status that its sheet's status demands.  Only an edit or an     *)
(* attachment that was checked before the sheet was locked and written     *)
(* after it breaks this, and the next change of the sheet mends it.        *)
(***************************************************************************)
Fits(st, s) ==
    CASE sheet[s] = "none" -> FALSE
      [] sheet[s] = "CANCELLED" -> st = "APPROVED"
      [] sheet[s] = "REJECTED" -> st \in {"REJECTED", "DRAFT"}
      [] OTHER -> st = sheet[s]
SheetsAgree ==
    \A e \in Entry : Exists(e) /\ entry[e].sheet # Nil /\ e \notin torn
                        => Fits(entry[e].st, entry[e].sheet)

(***************************************************************************)
(* However starts, stops and discards overlap, a timer that was started    *)
(* runs, or was discarded, or has become exactly one entry.                *)
(***************************************************************************)
From(n) == {e \in Entry : entry[e].timer = n}
TimersEndOnce ==
    \A n \in 1..started :
        /\ \A d, e \in From(n) : d = e
        /\ n \in discarded => n # timer /\ From(n) = {}
        /\ n = timer <=> n \notin discarded /\ From(n) = {}

(***************************************************************************)
(* Once the requests that owe a task its total are through, actualMins is  *)
(* the sum of its entries that are not rejected: unless two of them        *)
(* overlapped, one of them died, or a sheet was rejected, reopened or      *)
(* edited and nobody has computed the total since.                         *)
(***************************************************************************)
ActualMinutes ==
    \A t \in Task \ blurred :
        (\A r \in Request : t \notin Owed(req[r].todo)) => actual[t] = Total(t)
=============================================================================
