-------------------------- MODULE TimesheetsProofs --------------------------
(***************************************************************************)
(* Proofs about Timesheets, for every set of requests, entries, sheets and *)
(* tasks, all minutes and any number of timers.                            *)
(***************************************************************************)
EXTENDS Timesheets, TLAPS

Fit(y, n) ==
    /\ y.pc # "sync" => y.todo = {}
    /\ y.pc = "write" /\ y.op \in SheetOp \cup {"add"} => y.sheet \in Sheet
    /\ y.pc = "write" /\ y.op \in EntryOp => y.entry \in Entry
    /\ y.pc = "write" /\ y.op \in {"stop", "discard"} => y.timer \in 1..n
Asked == \A r \in Request : Fit(req[r], started)

Blank == \A e \in Entry : /\ entry[e].st = "none" => entry[e].timer = 0
                          /\ entry[e].timer <= started

(***************************************************************************)
(* A task that is not blurred is owed by one request at most; what that    *)
(* request has read is the total, and when none owes it, so is actualMins. *)
(***************************************************************************)
Owes(r, t) == t \in Owed(req[r].todo)
Settled == \A t \in Task \ blurred :
    /\ \A q, r \in Request : Owes(q, t) /\ Owes(r, t) => q = r
    /\ \A r \in Request : \A x \in req[r].todo :
          x[1] = t /\ req[r].got[x] # Unread => req[r].got[x] = Total(t)
    /\ (\A r \in Request : ~Owes(r, t)) => actual[t] = Total(t)

Inv == TypeOK /\ Asked /\ Blank /\ SheetsAgree /\ TimersEndOnce /\ Settled

-----------------------------------------------------------------------------

LEMMA IdleType == Idle \in ReqState /\ Fit(Idle, started) /\ NoEntry \in EntryState
  <1>1. Idle \in ReqState
    BY BoundAssumption DEF Idle, ReqState, SheetOp, EntryOp
  <1>2. NoEntry \in EntryState
    BY BoundAssumption DEF NoEntry, EntryState
  <1> QED BY <1>1, <1>2 DEF Fit, Idle

LEMMA OwedNone == Owed({}) = {}
  BY DEF Owed

LEMMA InitInv == Init => Inv
  <1> SUFFICES ASSUME Init PROVE Inv
    OBVIOUS
  <1>1. TypeOK
    <2>1. sheet \in [Sheet -> SheetStatus] /\ actual \in [Task -> Summands]
      BY DEF Init, SheetStatus, Summands
    <2>2. entry \in [Entry -> EntryState] /\ req \in [Request -> ReqState]
      BY IdleType DEF Init
    <2>3. timer \in 0..started /\ started \in 0..MaxTimers /\ discarded \subseteq 1..started
      BY BoundAssumption DEF Init
    <2> QED BY <2>1, <2>2, <2>3 DEF TypeOK, Init
  <1>2. Asked /\ Blank
    BY DEF Init, Asked, Blank, Fit, Idle, NoEntry
  <1>3. SheetsAgree /\ TimersEndOnce
    BY DEF Init, SheetsAgree, TimersEndOnce, Exists, NoEntry
  <1>4. Settled
    <2>1. \A t \in Task : Total(t) = {}
      BY DEF Init, Total, Counts, NoEntry
    <2>2. \A t \in Task, r \in Request : ~Owes(r, t)
      BY OwedNone DEF Init, Owes, Idle
    <2> QED BY <2>1, <2>2 DEF Init, Settled, Idle
  <1> QED BY <1>1, <1>2, <1>3, <1>4 DEF Inv

-----------------------------------------------------------------------------
\* The totals of the tasks that are not blurred stay what they were.
LEMMA SettledSame ==
  ASSUME Inv, UNCHANGED actual,
         \A t \in Task \ blurred' :
            /\ t \notin blurred /\ Total(t)' = Total(t)
            /\ \A q \in Request :
                  /\ t \in Owed(req'[q].todo) <=> t \in Owed(req[q].todo)
                  /\ \A x \in req'[q].todo :
                        x[1] = t => x \in req[q].todo /\ req'[q].got[x] = req[q].got[x]
  PROVE  Settled'
  <1> SUFFICES ASSUME NEW t \in Task, t \notin blurred'
               PROVE  /\ \A p, q \in Request : Owes(p, t)' /\ Owes(q, t)' => p = q
                      /\ \A q \in Request : \A x \in req'[q].todo :
                            x[1] = t /\ req'[q].got[x] # Unread => req'[q].got[x] = Total(t)'
                      /\ (\A q \in Request : ~Owes(q, t)') => actual'[t] = Total(t)'
    BY DEF Settled
  <1>1. /\ \A p, q \in Request : Owes(p, t) /\ Owes(q, t) => p = q
        /\ \A q \in Request : \A x \in req[q].todo :
              x[1] = t /\ req[q].got[x] # Unread => req[q].got[x] = Total(t)
        /\ (\A q \in Request : ~Owes(q, t)) => actual[t] = Total(t)
    BY DEF Inv, Settled
  <1>2. \A q \in Request : Owes(q, t)' <=> Owes(q, t)
    BY DEF Owes
  <1> QED BY <1>1, <1>2

(***************************************************************************)
(* Requests that owe nothing and write nothing.                            *)
(***************************************************************************)
LEMMA QuietStep ==
  ASSUME Inv, NEW r \in Request, NEW y \in ReqState, req' = [req EXCEPT ![r] = y],
         y.todo = {}, req[r].todo = {}, Fit(y, started),
         UNCHANGED <<sheet, entry, timers, actual, torn, blurred>>
  PROVE  Inv'
  <1>1. \A q \in Request : req'[q] = IF q = r THEN y ELSE req[q]
    BY DEF Inv, TypeOK
  <1>2. TypeOK'
    BY DEF Inv, TypeOK, timers
  <1>3. Asked' /\ Blank'
    BY <1>1 DEF Inv, Asked, Blank, timers
  <1>4. SheetsAgree' /\ TimersEndOnce'
    BY DEF Inv, SheetsAgree, TimersEndOnce, Exists, Fits, From, timers
  <1>5. Settled'
    BY <1>1, SettledSame DEF Total, Counts
  <1> QED BY <1>2, <1>3, <1>4, <1>5 DEF Inv

LEMMA Resting == ASSUME Inv, NEW r \in Request, req[r].pc # "sync" PROVE req[r].todo = {}
  BY DEF Inv, Asked, Fit

LEMMA AskStep ==
  ASSUME Inv, NEW r \in Request, NEW y \in ReqState, Ask(r, y), y.todo = {}, Fit(y, started)
  PROVE  Inv'
  BY QuietStep, Resting DEF Ask

LEMMA FailStep ==
  ASSUME Inv, NEW r \in Request, Fail(r), req[r].pc = "write"
  PROVE  Inv'
  <1>1. Idle.todo = {}
    BY DEF Idle
  <1> QED BY <1>1, QuietStep, Resting, IdleType DEF Fail

LEMMA ReadInv ==
  ASSUME Inv, NEW r \in Request,
         \/ \E e \in Entry : UpdateRead(r, e) \/ DeleteRead(r, e)
         \/ StartRead(r) \/ StopRead(r) \/ DiscardRead(r)
         \/ \E s \in Sheet, e \in Entry : AddRead(r, s, e) \/ RemoveRead(r, s, e)
         \/ \E s \in Sheet, op \in SheetOp : SheetRead(r, op, s)
  PROVE  Inv'
  <1> USE DEF Idle
  <1>1. ASSUME NEW e \in Entry, NEW op \in {"update", "delete"}, AskEntry(r, op, e)
        PROVE  Inv'
    <2> DEFINE y == [Idle EXCEPT !.pc = "write", !.op = op, !.entry = e, !.task = entry[e].task,
                                 !.redo = entry[e].st = "REJECTED"]
    <2>1. y \in ReqState
      BY IdleType, ZenonT(30) DEF ReqState, Inv, TypeOK, EntryState, EntryOp
    <2>2. y.todo = {} /\ Fit(y, started)
      BY DEF Fit, SheetOp
    <2> QED BY <1>1, <2>1, <2>2, AskStep DEF AskEntry
  <1>2. ASSUME NEW s \in Sheet, NEW e \in Entry, NEW op \in {"add", "remove"}, AskMove(r, op, s, e)
        PROVE  Inv'
    <2> DEFINE y == [Idle EXCEPT !.pc = "write", !.op = op, !.sheet = s, !.entry = e]
    <2>1. y \in ReqState
      BY IdleType DEF ReqState, EntryOp
    <2>2. y.todo = {} /\ Fit(y, started)
      BY DEF Fit, SheetOp
    <2> QED BY <1>2, <2>1, <2>2, AskStep DEF AskMove
  <1>3. ASSUME NEW s \in Sheet, NEW op \in SheetOp, AskSheet(r, op, s)
        PROVE  Inv'
    <2> DEFINE y == [Idle EXCEPT !.pc = "write", !.op = op, !.sheet = s]
    <2>1. y \in ReqState
      BY IdleType DEF ReqState
    <2>2. y.todo = {} /\ Fit(y, started)
      BY DEF Fit, SheetOp, EntryOp
    <2> QED BY <1>3, <2>1, <2>2, AskStep DEF AskSheet
  <1>4. ASSUME NEW op \in {"start", "stop", "discard"}, AskTimer(r, op),
               op = "start" \/ timer # 0
        PROVE  Inv'
    <2> DEFINE y == [Idle EXCEPT !.pc = "write", !.op = op, !.timer = timer]
    <2>1. timer \in 0..MaxTimers /\ (timer # 0 => timer \in 1..started)
      BY BoundAssumption DEF Inv, TypeOK
    <2>2. y \in ReqState
      BY <2>1, IdleType DEF ReqState
    <2>3. y.todo = {} /\ Fit(y, started)
      BY <1>4, <2>1 DEF Fit, SheetOp, EntryOp
    <2> QED BY <1>4, <2>2, <2>3, AskStep DEF AskTimer
  <1> QED BY <1>1, <1>2, <1>3, <1>4
      DEF UpdateRead, DeleteRead, StartRead, StopRead, DiscardRead, AddRead, RemoveRead, SheetRead

-----------------------------------------------------------------------------
(***************************************************************************)
(* Totals.                                                                 *)
(***************************************************************************)
LEMMA TotalSame ==
  ASSUME NEW t \in Task,
         \A e \in Entry : /\ Counts(entry'[e], t) <=> Counts(entry[e], t)
                          /\ Counts(entry[e], t) => entry'[e].mins = entry[e].mins
  PROVE  Total(t)' = Total(t)
  BY DEF Total

LEMMA TotalType == TypeOK => \A t \in Task : Total(t) \in Summands
  BY DEF TypeOK, EntryState, Total, Summands

\* A request that owed nothing has written entries of some tasks.
LEMMA OweStep ==
  ASSUME Inv, NEW r \in Request, req[r].todo = {},
         NEW syncs \in SUBSET ((Task \cup {Nil}) \X {"before", "after"}),
         NEW missed \in SUBSET (Task \cup {Nil}),
         Owe(r, syncs, missed), UNCHANGED <<actual, started>>,
         \A t \in Task : t \notin Owed(syncs) /\ t \notin missed => Total(t)' = Total(t)
  PROVE  /\ req' \in [Request -> ReqState] /\ blurred' \subseteq Task
         /\ Asked' /\ Settled'
  <1> DEFINE todo == syncs \cap Sync
             y == IF todo = {} THEN Idle ELSE [Idle EXCEPT !.pc = "sync", !.todo = todo]
  <1>1. todo \subseteq Sync /\ Owed(todo) \subseteq Task /\ missed \ {Nil} \subseteq Task
    BY DEF Owed, Sync
  <1>2. y \in ReqState /\ Fit(y, started)
    BY <1>1, IdleType DEF ReqState, Idle, Fit
  <1>3. y.todo = todo /\ \A x \in Sync : y.got[x] = Unread
    BY DEF Idle
  <1>4. req' = [req EXCEPT ![r] = y]
    BY DEF Owe
  <1>5. \A t \in Task \ blurred' :
          /\ t \notin blurred
          /\ t \in Owed(todo) => \A q \in Request \ {r} : t \notin Owed(req[q].todo)
          /\ t \in missed => t \in Owed(todo)
    BY BoundAssumption DEF Owe, OthersOwe
  <1>6. \A t \in Task : t \in Owed(syncs) => t \in Owed(todo)
    BY DEF Owed, Sync
  <1>7. req' \in [Request -> ReqState] /\ blurred' \subseteq Task
    <2>1. blurred' = blurred \cup (Owed(todo) \cap OthersOwe(r)) \cup (missed \ (Owed(todo) \cup {Nil}))
      BY DEF Owe
    <2> QED BY <1>1, <1>2, <1>4, <2>1 DEF Inv, TypeOK
  <1> HIDE DEF y, todo
  <1>8. \A q \in Request : req'[q] = IF q = r THEN y ELSE req[q]
    BY <1>4 DEF Inv, TypeOK
  <1>9. Asked'
    BY <1>2, <1>8 DEF Inv, Asked
  <1>10. Settled'
    <2> SUFFICES ASSUME NEW t \in Task, t \notin blurred'
                 PROVE  /\ \A p, q \in Request : Owes(p, t)' /\ Owes(q, t)' => p = q
                        /\ \A q \in Request : \A x \in req'[q].todo :
                              x[1] = t /\ req'[q].got[x] # Unread => req'[q].got[x] = Total(t)'
                        /\ (\A q \in Request : ~Owes(q, t)') => actual'[t] = Total(t)'
      BY DEF Settled
    <2>1. /\ Owes(r, t)' <=> t \in Owed(todo)
          /\ \A q \in Request \ {r} : Owes(q, t)' <=> Owes(q, t)
      BY <1>3, <1>8 DEF Owes
    <2>2. \A x \in req'[r].todo : req'[r].got[x] = Unread
      BY <1>1, <1>3, <1>8
    <2>3. CASE t \in Owed(todo)
      <3>1. \A q \in Request \ {r} : ~Owes(q, t)
        BY <1>5, <2>3 DEF Owes
      <3>2. \A q \in Request \ {r} : \A x \in req'[q].todo : x[1] # t
        BY <1>8, <3>1 DEF Owes, Owed
      <3> QED BY <2>1, <2>2, <2>3, <3>1, <3>2
    <2>4. CASE t \notin Owed(todo)
      <3>1. Total(t)' = Total(t) /\ t \notin blurred
        BY <1>5, <1>6, <2>4
      <3>2. ~Owes(r, t)
        BY DEF Owes, Owed
      <3> QED BY <1>8, <2>1, <2>2, <2>4, <3>1, <3>2 DEF Inv, Settled
    <2> QED BY <2>3, <2>4
  <1> QED BY <1>7, <1>9, <1>10

\* Entries have changed their status: the totals that changed are blurred.
LEMMA RecountStep ==
  ASSUME Inv, blurred' = blurred \cup Recount(entry, entry'),
         \A e \in Entry : /\ entry'[e].task = entry[e].task
                          /\ entry'[e].mins = entry[e].mins
                          /\ entry'[e].st \in {"none", "gone"} <=> entry[e].st \in {"none", "gone"},
         UNCHANGED <<actual, req>>
           \/ \E r \in Request : /\ req[r].todo = {} /\ req' = [req EXCEPT ![r] = Idle]
                                 /\ UNCHANGED actual
  PROVE  blurred' \subseteq Task /\ Settled'
  <1>1. blurred' \subseteq Task
    BY DEF Recount, Inv, TypeOK
  <1>2. ASSUME NEW t \in Task, t \notin blurred'
        PROVE  t \notin blurred /\ Total(t)' = Total(t)
    <2>1. \A e \in Entry : entry[e].task = t
                             => (entry[e].st = "REJECTED" <=> entry'[e].st = "REJECTED")
      BY <1>2 DEF Recount
    <2>2. \A e \in Entry : Counts(entry'[e], t) <=> Counts(entry[e], t)
      BY <2>1 DEF Counts
    <2> QED BY <1>2, <2>2, TotalSame
  <1>3. \A r \in Request : /\ req'[r].todo = req[r].todo
                           /\ req[r].todo # {} => req'[r].got = req[r].got
    <2>1. CASE req' = req
      BY <2>1
    <2>2. ASSUME NEW r \in Request, req[r].todo = {}, req' = [req EXCEPT ![r] = Idle]
          PROVE  \A q \in Request : /\ req'[q].todo = req[q].todo
                                    /\ req[q].todo # {} => req'[q].got = req[q].got
      <3>1. \A q \in Request : req'[q] = IF q = r THEN Idle ELSE req[q]
        BY <2>2 DEF Inv, TypeOK
      <3>2. Idle.todo = {}
        BY DEF Idle
      <3> QED BY <2>2, <3>1, <3>2
    <2> QED BY <2>1, <2>2
  <1>4. actual' = actual
    OBVIOUS
  <1>5. Settled'
    BY <1>2, <1>3, <1>4, SettledSame
  <1> QED BY <1>1, <1>5

-----------------------------------------------------------------------------
(***************************************************************************)
(* Entries.                                                                *)
(***************************************************************************)
LEMMA NewEntryStep ==
  ASSUME Inv, NEW e \in Entry, NEW t \in Task \cup {Nil}, NEW m \in Minutes, NEW n \in 0..MaxTimers,
         NewEntry(e, t, m, n)
  PROVE  /\ entry' \in [Entry -> EntryState]
         /\ entry[e].st = "none" /\ entry[e].timer = 0
         /\ \A d \in Entry : /\ d # e => entry'[d] = entry[d]
                             /\ d = e => /\ entry'[d].st = "DRAFT" /\ entry'[d].sheet = Nil
                                         /\ entry'[d].task = t /\ entry'[d].timer = n
         /\ \A u \in Task \ {t} : Total(u)' = Total(u)
  <1> DEFINE y == [st |-> "DRAFT", sheet |-> Nil, task |-> t, mins |-> m, timer |-> n]
  <1>1. y \in EntryState
    BY DEF EntryState
  <1>2. entry' = [entry EXCEPT ![e] = y] /\ entry[e].st = "none" /\ entry[e].timer = 0
    BY DEF NewEntry, Inv, Blank
  <1>3. \A d \in Entry : entry'[d] = IF d = e THEN y ELSE entry[d]
    BY <1>2 DEF Inv, TypeOK
  <1>4. ASSUME NEW u \in Task, u # t
        PROVE  Total(u)' = Total(u)
    <2>1. \A d \in Entry : /\ Counts(entry'[d], u) <=> Counts(entry[d], u)
                           /\ Counts(entry[d], u) => entry'[d].mins = entry[d].mins
      BY <1>2, <1>3, <1>4 DEF Counts
    <2> QED BY <2>1, TotalSame
  <1> QED BY <1>1, <1>2, <1>3, <1>4 DEF Inv, TypeOK

LEMMA CreateInv ==
  ASSUME Inv, NEW r \in Request, NEW e \in Entry, NEW t \in Task \cup {Nil}, NEW m \in Minutes,
         CreateTimeEntry(r, e, t, m)
  PROVE  Inv'
  <1>1. /\ entry' \in [Entry -> EntryState] /\ entry[e].st = "none" /\ entry[e].timer = 0
        /\ \A d \in Entry : /\ d # e => entry'[d] = entry[d]
                            /\ d = e => /\ entry'[d].st = "DRAFT" /\ entry'[d].sheet = Nil
                                        /\ entry'[d].timer = 0
        /\ \A u \in Task \ {t} : Total(u)' = Total(u)
    BY NewEntryStep, BoundAssumption DEF CreateTimeEntry
  <1>2. req' \in [Request -> ReqState] /\ blurred' \subseteq Task /\ Asked' /\ Settled'
    <2>1. req[r].todo = {}
      BY Resting DEF CreateTimeEntry
    <2>2. /\ Owed({<<t, "after">>}) = {t}
          /\ {<<t, "after">>} \in SUBSET ((Task \cup {Nil}) \X {"before", "after"})
      BY DEF Owed
    <2>3. /\ Owe(r, {<<t, "after">>}, {}) /\ UNCHANGED <<actual, started>>
          /\ \A u \in Task : u \notin Owed({<<t, "after">>}) /\ u \notin {} => Total(u)' = Total(u)
      BY <1>1, <2>2 DEF CreateTimeEntry, timers
    <2>4. {} \in SUBSET (Task \cup {Nil})
      OBVIOUS
    <2> HIDE DEF Owe
    <2> QED BY <2>1, <2>2, <2>3, <2>4, OweStep
  <1>3. TypeOK'
    BY <1>1, <1>2 DEF CreateTimeEntry, timers, Inv, TypeOK
  <1>4. Blank'
    BY <1>1 DEF CreateTimeEntry, timers, Inv, Blank, TypeOK
  <1>5. SheetsAgree'
    BY <1>1 DEF CreateTimeEntry, Inv, SheetsAgree, Exists, Fits
  <1>6. TimersEndOnce'
    <2>1. \A n \in 1..started : From(n)' = From(n)
      BY <1>1 DEF From
    <2> QED BY <2>1 DEF CreateTimeEntry, timers, Inv, TimersEndOnce
  <1> QED BY <1>2, <1>3, <1>4, <1>5, <1>6 DEF Inv

LEMMA StopWriteInv ==
  ASSUME Inv, NEW r \in Request, NEW e \in Entry, NEW t \in Task \cup {Nil}, NEW m \in Minutes,
         StopWrite(r, e, t, m)
  PROVE  Inv'
  <1>0. PICK n \in 0..MaxTimers : n = req[r].timer
    BY DEF Inv, TypeOK, ReqState
  <1>1. CASE Fail(r)
    BY <1>1, FailStep DEF StopWrite, Doing
  <1>2. CASE ~Fail(r)
    <2>1. /\ NewEntry(e, t, m, n) /\ timer = n /\ timer' = 0
          /\ Owe(r, {<<t, "after">>}, {}) /\ req[r].pc = "write" /\ req[r].op = "stop"
          /\ UNCHANGED <<sheet, started, discarded, actual, torn>>
      BY <1>0, <1>2 DEF StopWrite, StopFinds, Doing
    <2>2. n \in 1..started /\ n \in 0..MaxTimers
      BY <1>0, <2>1, BoundAssumption DEF Inv, Asked, Fit, TypeOK
    <2>3. /\ entry' \in [Entry -> EntryState] /\ entry[e].st = "none" /\ entry[e].timer = 0
          /\ \A d \in Entry : /\ d # e => entry'[d] = entry[d]
                              /\ d = e => /\ entry'[d].st = "DRAFT" /\ entry'[d].sheet = Nil
                                          /\ entry'[d].timer = n
          /\ \A u \in Task \ {t} : Total(u)' = Total(u)
      BY <2>1, <2>2, NewEntryStep
    <2>4. req' \in [Request -> ReqState] /\ blurred' \subseteq Task /\ Asked' /\ Settled'
      <3>1. /\ Owed({<<t, "after">>}) = {t}
            /\ {<<t, "after">>} \in SUBSET ((Task \cup {Nil}) \X {"before", "after"})
        BY DEF Owed
      <3>2. \A u \in Task : u \notin Owed({<<t, "after">>}) /\ u \notin {} => Total(u)' = Total(u)
        BY <2>3, <3>1
      <3>3. {} \in SUBSET (Task \cup {Nil}) /\ req[r].todo = {} /\ UNCHANGED <<actual, started>>
        BY <2>1, Resting
      <3> QED BY <2>1, <3>1, <3>2, <3>3, OweStep
    <2>5. TypeOK'
      BY <2>1, <2>3, <2>4 DEF Inv, TypeOK
    <2>6. Blank'
      BY <2>1, <2>2, <2>3 DEF Inv, Blank, TypeOK
    <2>7. SheetsAgree'
      BY <2>1, <2>3 DEF Inv, SheetsAgree, Exists, Fits
    <2>8. TimersEndOnce'
      <3>1. /\ From(n) = {} /\ n \notin discarded
        BY <2>1, <2>2 DEF Inv, TimersEndOnce
      <3>2. \A d \in Entry : d \in From(n)' <=> d = e
        BY <2>2, <2>3, <3>1 DEF From
      <3>3. ASSUME NEW k \in 1..started, k # n
            PROVE  From(k)' = From(k)
        BY <2>2, <2>3, <3>3 DEF From
      <3>4. From(n)' \subseteq Entry
        BY DEF From
      <3> SUFFICES ASSUME NEW k \in 1..started
                   PROVE  /\ \A c, d \in From(k)' : c = d
                          /\ k \in discarded' => k # timer' /\ From(k)' = {}
                          /\ k = timer' <=> k \notin discarded' /\ From(k)' = {}
        BY <2>1 DEF TimersEndOnce
      <3>5. CASE k = n
        BY <2>1, <2>2, <3>1, <3>2, <3>4, <3>5
      <3>6. CASE k # n
        BY <2>1, <2>2, <3>3, <3>6 DEF Inv, TimersEndOnce
      <3> QED BY <3>5, <3>6
    <2> QED BY <2>4, <2>5, <2>6, <2>7, <2>8 DEF Inv
  <1> QED BY <1>1, <1>2

LEMMA UpdateInv ==
  ASSUME Inv, NEW r \in Request, NEW t \in Task \cup {Nil}, NEW m \in Minutes, UpdateWrite(r, t, m)
  PROVE  Inv'
  <1>0. PICK e : e = req[r].entry
    OBVIOUS
  <1> DEFINE old == entry[e].task
  <1>1. CASE Fail(r)
    BY <1>1, FailStep DEF UpdateWrite, Doing
  <1>2. CASE ~Fail(r)
    <2>1. /\ Exists(e) /\ req[r].pc = "write" /\ req[r].op = "update"
          /\ (t = Nil => old = Nil)
          /\ entry' = [entry EXCEPT ![e].st = Reset(r), ![e].task = t, ![e].mins = m]
          /\ torn' = IF req[r].redo /\ Locked(entry[e].sheet) THEN torn \cup {e} ELSE torn
          /\ Owe(r, {<<req[r].task, "before">>, <<t, "after">>}, {old} \ {req[r].task})
          /\ UNCHANGED <<sheet, timer, started, discarded, actual>>
      BY <1>0, <1>2 DEF UpdateWrite, Doing, timers
    <2>2. e \in Entry /\ req[r].task \in Task \cup {Nil} /\ old \in Task \cup {Nil}
      BY <1>0, <2>1 DEF Inv, Asked, Fit, EntryOp, TypeOK, ReqState, EntryState
    <2>3. \A d \in Entry :
            /\ d # e => entry'[d] = entry[d]
            /\ d = e => /\ entry'[d].st = Reset(r) /\ entry'[d].sheet = entry[d].sheet
                        /\ entry'[d].task = t /\ entry'[d].mins = m
                        /\ entry'[d].timer = entry[d].timer
      BY <2>1, <2>2 DEF Inv, TypeOK, EntryState
    <2>4. Reset(r) \notin {"none", "gone"}
      BY <1>0, <2>1 DEF Reset, Exists
    <2>5. entry' \in [Entry -> EntryState]
      <3>1. [entry[e] EXCEPT !.st = Reset(r), !.task = t, !.mins = m] \in EntryState
        <4>1. Reset(r) \in {"DRAFT", "SUBMITTED", "APPROVED", "REJECTED"}
          BY <1>0, <2>1, <2>2 DEF Reset, Exists, Inv, TypeOK, EntryState
        <4>2. m \in Minutes \cup {0} /\ entry[e] \in EntryState
          BY <2>2 DEF Inv, TypeOK
        <4> QED BY <4>1, <4>2 DEF EntryState
      <3>2. entry' = [entry EXCEPT ![e] = [entry[e] EXCEPT !.st = Reset(r), !.task = t, !.mins = m]]
        BY <2>1, <2>2 DEF Inv, TypeOK
      <3> QED BY <3>1, <3>2 DEF Inv, TypeOK
    <2>6. req' \in [Request -> ReqState] /\ blurred' \subseteq Task /\ Asked' /\ Settled'
      <3>1. ASSUME NEW u \in Task, u # t, u # old
            PROVE  Total(u)' = Total(u)
        <4>1. \A d \in Entry : /\ Counts(entry'[d], u) <=> Counts(entry[d], u)
                               /\ Counts(entry[d], u) => entry'[d].mins = entry[d].mins
          BY <2>3, <3>1 DEF Counts
        <4> QED BY <4>1, TotalSame
      <3>2. Owed({<<req[r].task, "before">>, <<t, "after">>}) = {req[r].task, t}
        BY DEF Owed
      <3>3. req[r].todo = {} /\ UNCHANGED <<actual, started>>
        BY <2>1, Resting
      <3>4. /\ {<<req[r].task, "before">>, <<t, "after">>}
                  \in SUBSET ((Task \cup {Nil}) \X {"before", "after"})
            /\ {old} \ {req[r].task} \in SUBSET (Task \cup {Nil})
        BY <2>2
      <3> QED BY <2>1, <3>1, <3>2, <3>3, <3>4, OweStep
    <2>7. TypeOK'
      BY <2>1, <2>2, <2>5, <2>6 DEF Inv, TypeOK
    <2>8. Blank'
      BY <2>1, <2>3, <2>4 DEF Inv, Blank
    <2>9. SheetsAgree'
      <3>1. ASSUME NEW d \in Entry, d # e, Exists(d)', entry'[d].sheet # Nil, d \notin torn'
            PROVE  Fits(entry[d].st, entry[d].sheet)'
        <4>1. entry'[d] = entry[d] /\ d \notin torn
          BY <2>1, <2>3, <3>1
        <4> QED BY <2>1, <3>1, <4>1 DEF Inv, SheetsAgree, Exists, Fits
      <3>2. ASSUME entry'[e].sheet # Nil, e \notin torn'
            PROVE  Fits(entry[e].st, entry[e].sheet)'
        <4>1. CASE ~req[r].redo
          <5>1. entry'[e].st = entry[e].st /\ entry'[e].sheet = entry[e].sheet /\ e \notin torn
            BY <1>0, <2>1, <2>2, <2>3, <3>2, <4>1 DEF Reset
          <5>2. Fits(entry[e].st, entry[e].sheet)
            BY <2>1, <2>2, <3>2, <5>1 DEF Inv, SheetsAgree
          <5> QED BY <2>1, <5>1, <5>2 DEF Fits
        <4>2. CASE req[r].redo
          <5>1. Editable(entry[e].sheet) /\ entry'[e].st = "DRAFT"
            BY <2>1, <2>2, <2>3, <3>2, <4>2 DEF Locked, Reset
          <5> QED BY <2>1, <2>2, <2>3, <5>1 DEF Editable, Fits
        <4> QED BY <4>1, <4>2
      <3> QED BY <3>1, <3>2 DEF SheetsAgree
    <2>10. TimersEndOnce'
      <3>1. \A n \in 1..started : From(n)' = From(n)
        BY <2>3 DEF From
      <3> QED BY <2>1, <3>1 DEF Inv, TimersEndOnce
    <2> QED BY <2>6, <2>7, <2>8, <2>9, <2>10 DEF Inv
  <1> QED BY <1>1, <1>2

LEMMA DeleteInv ==
  ASSUME Inv, NEW r \in Request, DeleteWrite(r)
  PROVE  Inv'
  <1>0. PICK e : e = req[r].entry
    OBVIOUS
  <1> DEFINE old == entry[e].task
  <1>1. CASE Fail(r)
    BY <1>1, FailStep DEF DeleteWrite, Doing
  <1>2. CASE ~Fail(r)
    <2>1. /\ Exists(e) /\ req[r].pc = "write" /\ req[r].op = "delete"
          /\ entry' = [entry EXCEPT ![e].st = "gone", ![e].sheet = Nil]
          /\ torn' = torn \ {e}
          /\ Owe(r, {<<req[r].task, "before">>}, {old} \ {req[r].task})
          /\ UNCHANGED <<sheet, timer, started, discarded, actual>>
      BY <1>0, <1>2 DEF DeleteWrite, DeleteOwes, Doing, timers
    <2>2. e \in Entry /\ req[r].task \in Task \cup {Nil} /\ old \in Task \cup {Nil}
      BY <1>0, <2>1 DEF Inv, Asked, Fit, EntryOp, TypeOK, ReqState, EntryState
    <2>3. \A d \in Entry :
            /\ d # e => entry'[d] = entry[d]
            /\ d = e => /\ entry'[d].st = "gone" /\ entry'[d].sheet = Nil
                        /\ entry'[d].task = old /\ entry'[d].timer = entry[d].timer
      BY <2>1, <2>2 DEF Inv, TypeOK, EntryState
    <2>4. entry' \in [Entry -> EntryState]
      <3>1. [entry[e] EXCEPT !.st = "gone", !.sheet = Nil] \in EntryState
        BY <2>2 DEF Inv, TypeOK, EntryState
      <3>2. entry' = [entry EXCEPT ![e] = [entry[e] EXCEPT !.st = "gone", !.sheet = Nil]]
        BY <2>1, <2>2 DEF Inv, TypeOK
      <3> QED BY <3>1, <3>2 DEF Inv, TypeOK
    <2>5. req' \in [Request -> ReqState] /\ blurred' \subseteq Task /\ Asked' /\ Settled'
      <3>1. ASSUME NEW u \in Task, u # old
            PROVE  Total(u)' = Total(u)
        <4>1. \A d \in Entry : /\ Counts(entry'[d], u) <=> Counts(entry[d], u)
                               /\ Counts(entry[d], u) => entry'[d].mins = entry[d].mins
          BY <2>3, <3>1 DEF Counts
        <4> QED BY <4>1, TotalSame
      <3>2. Owed({<<req[r].task, "before">>}) = {req[r].task}
        BY DEF Owed
      <3>3. req[r].todo = {} /\ UNCHANGED <<actual, started>>
        BY <2>1, Resting
      <3>4. /\ {<<req[r].task, "before">>} \in SUBSET ((Task \cup {Nil}) \X {"before", "after"})
            /\ {old} \ {req[r].task} \in SUBSET (Task \cup {Nil})
        BY <2>2
      <3>5. \A u \in Task : u \notin Owed({<<req[r].task, "before">>}) /\ u \notin {old} \ {req[r].task}
                             => Total(u)' = Total(u)
        <4>1. \A u \in Task : u # req[r].task /\ u \notin {old} \ {req[r].task} => u # old
          OBVIOUS
        <4> QED BY <3>1, <3>2, <4>1
      <3>6. Owe(r, {<<req[r].task, "before">>}, {old} \ {req[r].task})
        BY <2>1
      <3> HIDE DEF old
      <3> QED BY <3>3, <3>4, <3>5, <3>6, OweStep
    <2>6. TypeOK'
      BY <2>1, <2>4, <2>5 DEF Inv, TypeOK
    <2>7. Blank'
      BY <2>1, <2>3 DEF Inv, Blank
    <2>8. SheetsAgree'
      <3>1. ASSUME NEW d \in Entry, Exists(d)', entry'[d].sheet # Nil, d \notin torn'
            PROVE  Fits(entry[d].st, entry[d].sheet)'
        <4>1. entry'[d] = entry[d] /\ d \notin torn
          BY <2>1, <2>3, <3>1
        <4> QED BY <2>1, <3>1, <4>1 DEF Inv, SheetsAgree, Exists, Fits
      <3> QED BY <3>1 DEF SheetsAgree
    <2>9. TimersEndOnce'
      <3>1. \A n \in 1..started : From(n)' = From(n)
        BY <2>3 DEF From
      <3> QED BY <2>1, <3>1 DEF Inv, TimersEndOnce
    <2> QED BY <2>5, <2>6, <2>7, <2>8, <2>9 DEF Inv
  <1> QED BY <1>1, <1>2

LEMMA SyncInv ==
  ASSUME Inv, NEW r \in Request, NEW x \in req[r].todo, SyncRead(r, x) \/ SyncWrite(r, x)
  PROVE  Inv'
  <1>1. req[r] \in ReqState /\ req[r].pc = "sync" /\ x \in Sync
    BY DEF Inv, Asked, Fit, TypeOK, ReqState
  <1>0. PICK t \in Task : t = x[1]
    BY <1>1 DEF Sync
  <1>2. Total(t) \in Summands
    BY TotalType DEF Inv
  <1>3. UNCHANGED <<sheet, entry, timer, started, discarded, torn>>
    BY DEF SyncRead, SyncWrite, timers
  <1>4. \A u \in Task : Total(u)' = Total(u)
    BY <1>3 DEF Total, Counts
  <1>5. Blank' /\ SheetsAgree' /\ TimersEndOnce'
    BY <1>3 DEF Inv, Blank, SheetsAgree, TimersEndOnce, Exists, Fits, From
  <1>6. CASE SyncRead(r, x)
    <2> DEFINE y == [req[r] EXCEPT !.got[x] = Total(t)]
    <2>1. req' = [req EXCEPT ![r] = y]
      BY <1>0, <1>6 DEF SyncRead, Inv, TypeOK
    <2>2. y \in ReqState
      BY <1>1, <1>2 DEF ReqState
    <2>3. /\ y.pc = "sync" /\ y.todo = req[r].todo /\ y.todo \subseteq Sync
          /\ \A z \in Sync : y.got[z] = IF z = x THEN Total(t) ELSE req[r].got[z]
      BY <1>1 DEF ReqState
    <2> HIDE DEF y
    <2>4. \A q \in Request : req'[q] = IF q = r THEN y ELSE req[q]
      BY <2>1 DEF Inv, TypeOK
    <2>5. TypeOK' /\ Asked'
      BY <1>3, <1>6, <2>1, <2>2, <2>3, <2>4 DEF SyncRead, Inv, TypeOK, Asked, Fit
    <2>6. Settled'
      <3> SUFFICES ASSUME NEW u \in Task, u \notin blurred'
                   PROVE  /\ \A p, q \in Request : Owes(p, u)' /\ Owes(q, u)' => p = q
                          /\ \A q \in Request : \A z \in req'[q].todo :
                                z[1] = u /\ req'[q].got[z] # Unread => req'[q].got[z] = Total(u)'
                          /\ (\A q \in Request : ~Owes(q, u)') => actual'[u] = Total(u)'
        BY DEF Settled
      <3>1. \A q \in Request : Owes(q, u)' <=> Owes(q, u)
        BY <2>3, <2>4 DEF Owes
      <3>2. CASE u \notin blurred
        <4>1. /\ \A p, q \in Request : Owes(p, u) /\ Owes(q, u) => p = q
              /\ (\A q \in Request : ~Owes(q, u)) => actual[u] = Total(u)
          BY <3>2 DEF Inv, Settled
        <4>2. ASSUME NEW q \in Request, NEW z \in req'[q].todo, z[1] = u, req'[q].got[z] # Unread
              PROVE  req'[q].got[z] = Total(u)
          <5>1. z \in req[q].todo
            BY <2>3, <2>4
          <5>2. CASE q = r /\ z = x
            BY <1>0, <2>3, <2>4, <4>2, <5>1, <5>2
          <5>3. CASE q # r \/ z # x
            <6>1. req'[q].got[z] = req[q].got[z]
              BY <2>3, <2>4, <5>1, <5>3
            <6> QED BY <3>2, <4>2, <5>1, <6>1 DEF Inv, Settled
          <5> QED BY <5>2, <5>3
        <4>3. actual' = actual
          BY <1>6 DEF SyncRead
        <4> QED BY <1>4, <3>1, <4>1, <4>2, <4>3
      <3>3. CASE u \in blurred
        <4>1. Alone(r, x) /\ u = t
          BY <1>0, <1>6, <3>3 DEF SyncRead
        <4>2. /\ \A q \in Request : Owes(q, t) => q = r
              /\ \A z \in req[r].todo : z # x => z[1] # t
          BY <1>0, <4>1 DEF Alone, OthersOwe, Owes, Owed
        <4>3. Owes(r, t)
          BY <1>0 DEF Owes, Owed
        <4>4. \A q \in Request : \A z \in req[q].todo : z[1] = t => q = r
          BY <4>2 DEF Owes, Owed
        <4>5. ASSUME NEW q \in Request, NEW z \in req'[q].todo, z[1] = t
              PROVE  req'[q].got[z] = Total(t)
          <5>1. z \in req[q].todo
            BY <2>3, <2>4
          <5>2. q = r
            BY <4>4, <4>5, <5>1
          <5>3. z = x
            BY <4>2, <4>5, <5>1, <5>2
          <5> QED BY <1>1, <2>3, <2>4, <5>2, <5>3
        <4> QED BY <1>4, <3>1, <4>1, <4>2, <4>3, <4>5
      <3> QED BY <3>2, <3>3
    <2> QED BY <1>5, <2>5, <2>6 DEF Inv
  <1>7. CASE SyncWrite(r, x)
    <2> DEFINE y == IF req[r].todo = {x} THEN Idle
                    ELSE [req[r] EXCEPT !.todo = @ \ {x}, !.got[x] = Unread]
    <2>1. req' = [req EXCEPT ![r] = y] /\ blurred' = blurred
      BY <1>7 DEF SyncWrite
    <2>2. y \in ReqState /\ Fit(y, started)
      <3>1. [req[r] EXCEPT !.todo = @ \ {x}, !.got[x] = Unread] \in ReqState
        BY <1>1 DEF ReqState
      <3>2. [req[r] EXCEPT !.todo = @ \ {x}, !.got[x] = Unread].pc = "sync"
        BY <1>1 DEF ReqState
      <3> QED BY <3>1, <3>2, IdleType DEF Fit
    <2>3. /\ y.todo = req[r].todo \ {x}
          /\ \A z \in Sync \ {x} : y.todo # {} => y.got[z] = req[r].got[z]
      BY <1>1 DEF ReqState, Idle
    <2> HIDE DEF y
    <2>4. \A q \in Request : req'[q] = IF q = r THEN y ELSE req[q]
      BY <2>1 DEF Inv, TypeOK
    <2>5. /\ \A u \in Task : actual'[u] = IF u = t THEN req[r].got[x] ELSE actual[u]
          /\ actual' \in [Task -> Summands]
      BY <1>0, <1>1, <1>7 DEF SyncWrite, Inv, TypeOK, ReqState
    <2>6. TypeOK' /\ Asked'
      BY <1>3, <2>1, <2>2, <2>4, <2>5 DEF Inv, TypeOK, Asked
    <2>7. /\ \A q \in Request : req'[q].todo \subseteq req[q].todo
          /\ \A q \in Request : \A z \in req'[q].todo : req'[q].got[z] = req[q].got[z]
      <3>1. req[r].todo \subseteq Sync
        BY <1>1 DEF ReqState
      <3> QED BY <2>3, <2>4, <3>1
    <2>8. \A q \in Request, u \in Task : Owes(q, u)' => Owes(q, u)
      BY <2>7 DEF Owes, Owed
    <2>9. \A q \in Request, u \in Task : Owes(q, u) /\ u # t => Owes(q, u)'
      BY <1>0, <2>3, <2>4 DEF Owes, Owed
    <2>10. Settled'
      <3> SUFFICES ASSUME NEW u \in Task, u \notin blurred
                   PROVE  /\ \A p, q \in Request : Owes(p, u)' /\ Owes(q, u)' => p = q
                          /\ \A q \in Request : \A z \in req'[q].todo :
                                z[1] = u /\ req'[q].got[z] # Unread => req'[q].got[z] = Total(u)'
                          /\ (\A q \in Request : ~Owes(q, u)') => actual'[u] = Total(u)'
        BY <2>1 DEF Settled
      <3>1. \A p, q \in Request : Owes(p, u)' /\ Owes(q, u)' => p = q
        BY <2>8 DEF Inv, Settled
      <3>2. \A q \in Request : \A z \in req'[q].todo :
                z[1] = u /\ req'[q].got[z] # Unread => req'[q].got[z] = Total(u)'
        BY <1>4, <2>7 DEF Inv, Settled
      <3>3. ASSUME \A q \in Request : ~Owes(q, u)'
            PROVE  actual'[u] = Total(u)'
        <4>1. CASE u # t
          BY <1>4, <2>5, <2>9, <3>3, <4>1 DEF Inv, Settled
        <4>2. CASE u = t
          <5>1. req[r].got[x] = Total(t)
            BY <1>0, <1>7, <4>2 DEF SyncWrite, Inv, Settled
          <5> QED BY <1>4, <2>5, <4>2, <5>1
        <4> QED BY <4>1, <4>2
      <3> QED BY <3>1, <3>2, <3>3
    <2> QED BY <1>5, <2>6, <2>10 DEF Inv
  <1> QED BY <1>6, <1>7

LEMMA DieInv ==
  ASSUME Inv, NEW r \in Request, Die(r)
  PROVE  Inv'
  <1>1. \A q \in Request : req'[q] = IF q = r THEN Idle ELSE req[q]
    BY DEF Die, Inv, TypeOK
  <1>2. TypeOK' /\ Asked'
    <2>1. Owed(req[r].todo) \subseteq Task
      BY DEF Owed, Sync, Inv, TypeOK, ReqState
    <2> QED BY <1>1, <2>1, IdleType DEF Die, timers, Inv, TypeOK, Asked
  <1>3. Blank' /\ SheetsAgree' /\ TimersEndOnce'
    BY DEF Die, timers, Inv, Blank, SheetsAgree, TimersEndOnce, Exists, Fits, From
  <1>4. Settled'
    <2>1. ASSUME NEW t \in Task, t \notin blurred'
          PROVE  /\ t \notin blurred /\ Total(t)' = Total(t)
                 /\ t \notin Owed(req[r].todo) /\ t \notin Owed(req'[r].todo)
      BY <1>1, <2>1, OwedNone DEF Die, Idle, Total, Counts
    <2>2. req'[r].todo = {} /\ actual' = actual
      BY <1>1 DEF Die, Idle
    <2> QED BY <1>1, <2>1, <2>2, SettledSame
  <1> QED BY <1>2, <1>3, <1>4 DEF Inv

-----------------------------------------------------------------------------
(***************************************************************************)
(* The timer.                                                              *)
(***************************************************************************)
LEMMA TimerInv ==
  ASSUME Inv, NEW r \in Request, StartWrite(r) \/ DiscardWrite(r)
  PROVE  Inv'
  <1>1. CASE Fail(r)
    BY <1>1, FailStep DEF StartWrite, DiscardWrite, Doing
  <1>2. CASE ~Fail(r)
    <2>1. /\ req' = [req EXCEPT ![r] = Idle] /\ req[r].todo = {}
          /\ UNCHANGED <<sheet, entry, actual, torn, blurred>>
      BY <1>2, Resting DEF StartWrite, DiscardWrite, Doing
    <2>2. started \in Nat /\ timer \in 0..started /\ MaxTimers \in Nat
      BY BoundAssumption DEF Inv, TypeOK
    <2>3. /\ started <= started' /\ started' \in 0..MaxTimers
          /\ timer' \in 0..started' /\ discarded' \subseteq 1..started'
      <3>1. CASE StartWrite(r)
        <4>1. /\ started < MaxTimers /\ started' = started + 1 /\ timer' = started + 1
              /\ discarded' = discarded
          BY <1>2, <3>1 DEF StartWrite
        <4>2. discarded \subseteq 1..started /\ 1..started \subseteq 1..(started + 1)
          BY <2>2 DEF Inv, TypeOK
        <4> QED BY <2>2, <4>1, <4>2
      <3>2. CASE DiscardWrite(r)
        <4>1. timer \in 1..started
          BY <1>2, <3>2 DEF DiscardWrite, Doing, Inv, Asked, Fit
        <4>2. timer' = 0 /\ discarded' = discarded \cup {timer} /\ started' = started
          BY <1>2, <3>2 DEF DiscardWrite
        <4>3. discarded \subseteq 1..started /\ started \in 0..MaxTimers
          BY DEF Inv, TypeOK
        <4> QED BY <2>2, <4>1, <4>2, <4>3
      <3> QED BY <3>1, <3>2
    <2>4. \A q \in Request : req'[q] = IF q = r THEN Idle ELSE req[q]
      BY <2>1 DEF Inv, TypeOK
    <2>5. TypeOK'
      BY <2>1, <2>3, IdleType DEF Inv, TypeOK
    <2>6. Asked' /\ Blank'
      <3>1. started \in Int /\ started' \in Int /\ \A e \in Entry : entry[e].timer \in Int
        BY <2>2, <2>3 DEF Inv, TypeOK, EntryState
      <3>2. Blank'
        BY <2>1, <2>3, <3>1 DEF Inv, Blank
      <3>3. \A y : Fit(y, started) => Fit(y, started')
        BY <2>3, <3>1 DEF Fit
      <3> QED BY <2>4, <3>2, <3>3, IdleType DEF Inv, Asked
    <2>7. SheetsAgree'
      BY <2>1 DEF Inv, SheetsAgree, Exists, Fits
    <2>8. Settled'
      <3>1. \A t \in Task : Total(t)' = Total(t)
        BY <2>1 DEF Total, Counts
      <3>2. Idle.todo = {}
        BY DEF Idle
      <3> QED BY <2>1, <2>4, <3>1, <3>2, SettledSame
    <2>9. TimersEndOnce'
      <3>1. \A n : From(n)' = From(n)
        BY <2>1 DEF From
      <3>2. CASE StartWrite(r)
        <4>1. started' = started + 1 /\ timer' = started + 1 /\ timer = 0 /\ discarded' = discarded
          BY <1>2, <3>2 DEF StartWrite
        <4>2. From(started + 1) = {}
          BY <2>2 DEF Inv, Blank, From, TypeOK, EntryState
        <4>3. started + 1 \notin discarded
          BY <2>2 DEF Inv, TypeOK
        <4>4. \A n \in 1..started' : n = started + 1 \/ (n \in 1..started /\ n # started + 1)
          BY <2>2, <4>1
        <4> QED BY <2>2, <3>1, <4>1, <4>2, <4>3, <4>4 DEF Inv, TimersEndOnce
      <3>3. CASE DiscardWrite(r)
        <4>1. /\ timer \in 1..started /\ timer' = 0 /\ started' = started
              /\ discarded' = discarded \cup {timer}
          BY <1>2, <3>3 DEF DiscardWrite, Doing, Inv, Asked, Fit
        <4> QED BY <3>1, <4>1 DEF Inv, TimersEndOnce
      <3> QED BY <3>2, <3>3
    <2> QED BY <2>5, <2>6, <2>7, <2>8, <2>9 DEF Inv
  <1> QED BY <1>1, <1>2

-----------------------------------------------------------------------------
(***************************************************************************)
(* Timesheets.                                                             *)
(***************************************************************************)

\* Entries change their status and their sheet, and nothing else of them.
LEMMA AttachStep ==
  ASSUME Inv, entry' \in [Entry -> EntryState],
         \A e \in Entry :
            /\ entry'[e].task = entry[e].task /\ entry'[e].mins = entry[e].mins
            /\ entry'[e].timer = entry[e].timer
            /\ entry'[e].st \in {"none", "gone"} <=> entry[e].st \in {"none", "gone"}
            /\ entry[e].st = "none" <=> entry'[e].st = "none",
         sheet' \in [Sheet -> SheetStatus], torn' \subseteq Entry, SheetsAgree',
         blurred' = blurred \cup Recount(entry, entry'),
         UNCHANGED <<actual, req>>
           \/ \E r \in Request : /\ req[r].todo = {} /\ req' = [req EXCEPT ![r] = Idle]
                                 /\ UNCHANGED actual,
         UNCHANGED timers
  PROVE  Inv'
  <1>1. blurred' \subseteq Task /\ Settled'
    BY RecountStep, Zenon
  <1>2. req' \in [Request -> ReqState] /\ Asked'
    BY IdleType DEF Inv, TypeOK, Asked, timers
  <1>3. TypeOK'
    BY <1>1, <1>2 DEF Inv, TypeOK, timers
  <1>4. Blank'
    BY DEF Inv, Blank, timers
  <1>5. TimersEndOnce'
    <2>1. \A n : From(n)' = From(n)
      BY DEF From
    <2> QED BY <2>1 DEF Inv, TimersEndOnce, timers
  <1> QED BY <1>1, <1>2, <1>3, <1>4, <1>5 DEF Inv

LEMMA CreateSheetInv ==
  ASSUME Inv, NEW s \in Sheet, NEW include \in BOOLEAN, CreateTimesheet(s, include)
  PROVE  Inv'
  <1> DEFINE free(e) == include /\ entry[e].sheet = Nil /\ entry[e].st \in {"DRAFT", "REJECTED"}
  <1>1. /\ sheet[s] = "none" /\ sheet' = [sheet EXCEPT ![s] = "DRAFT"]
        /\ blurred' = blurred \cup Recount(entry, entry')
        /\ UNCHANGED <<timers, actual, req, torn>>
    BY DEF CreateTimesheet
  <1>2. entry' = [e \in Entry |-> IF free(e) THEN [entry[e] EXCEPT !.sheet = s, !.st = "DRAFT"]
                                  ELSE entry[e]]
    BY DEF CreateTimesheet
  <1>3. ASSUME NEW e \in Entry
        PROVE  /\ entry'[e] \in EntryState
               /\ free(e) => /\ entry'[e].st = "DRAFT" /\ entry'[e].sheet = s
                             /\ entry'[e].task = entry[e].task /\ entry'[e].mins = entry[e].mins
                             /\ entry'[e].timer = entry[e].timer
               /\ ~free(e) => entry'[e] = entry[e]
    BY <1>2 DEF Inv, TypeOK, EntryState
  <1>4. entry' \in [Entry -> EntryState]
    BY <1>2, <1>3
  <1>5. \A t \in Sheet : sheet'[t] = IF t = s THEN "DRAFT" ELSE sheet[t]
    BY <1>1 DEF Inv, TypeOK
  <1>6. SheetsAgree'
    <2> SUFFICES ASSUME NEW e \in Entry, Exists(e)', entry'[e].sheet # Nil, e \notin torn
                 PROVE  Fits(entry[e].st, entry[e].sheet)'
      BY <1>1 DEF SheetsAgree
    <2>1. CASE free(e)
      BY <1>3, <1>5, <2>1 DEF Fits
    <2>2. CASE ~free(e)
      <3>1. entry'[e] = entry[e] /\ Fits(entry[e].st, entry[e].sheet) /\ entry[e].sheet \in Sheet
        BY <1>3, <2>2 DEF Inv, SheetsAgree, Exists, TypeOK, EntryState
      <3>2. entry[e].sheet # s
        BY <1>1, <3>1 DEF Fits
      <3> QED BY <1>5, <3>1, <3>2 DEF Fits
    <2> QED BY <2>1, <2>2
  <1>7. sheet' \in [Sheet -> SheetStatus] /\ torn' \subseteq Entry
    BY <1>1 DEF Inv, TypeOK, SheetStatus
  <1> QED BY <1>1, <1>3, <1>4, <1>6, <1>7, AttachStep

LEMMA MoveInv ==
  ASSUME Inv, NEW r \in Request, AddWrite(r) \/ RemoveWrite(r)
  PROVE  Inv'
  <1>0. PICK e : e = req[r].entry
    OBVIOUS
  <1>1. /\ req[r].pc = "write" /\ req[r].todo = {} /\ e \in Entry
        /\ req[r].op = "add" => req[r].sheet \in Sheet
    BY <1>0, Resting DEF AddWrite, RemoveWrite, Doing, Inv, Asked, Fit, EntryOp
  <1>2. CASE Fail(r)
    BY <1>1, <1>2, FailStep
  <1>3. ASSUME Exists(e), NEW to \in Sheet \cup {Nil}, MoveWrite(r, to)
        PROVE  Inv'
    <2>1. /\ entry' = [entry EXCEPT ![e].sheet = to, ![e].st = "DRAFT"]
          /\ torn' = IF Locked(to) THEN torn \cup {e} ELSE torn \ {e}
          /\ blurred' = blurred \cup Recount(entry, entry')
          /\ req' = [req EXCEPT ![r] = Idle]
          /\ UNCHANGED <<sheet, timers, actual>>
      BY <1>0, <1>3 DEF MoveWrite
    <2>2. \A d \in Entry :
            /\ d # e => entry'[d] = entry[d]
            /\ d = e => /\ entry'[d].st = "DRAFT" /\ entry'[d].sheet = to
                        /\ entry'[d].task = entry[d].task /\ entry'[d].mins = entry[d].mins
                        /\ entry'[d].timer = entry[d].timer
      BY <1>1, <2>1 DEF Inv, TypeOK, EntryState
    <2>3. entry' \in [Entry -> EntryState]
      <3>1. [entry[e] EXCEPT !.sheet = to, !.st = "DRAFT"] \in EntryState
        BY <1>1 DEF Inv, TypeOK, EntryState
      <3>2. entry' = [entry EXCEPT ![e] = [entry[e] EXCEPT !.sheet = to, !.st = "DRAFT"]]
        BY <1>1, <2>1 DEF Inv, TypeOK
      <3> QED BY <3>1, <3>2 DEF Inv, TypeOK
    <2>4. SheetsAgree'
      <3> SUFFICES ASSUME NEW d \in Entry, Exists(d)', entry'[d].sheet # Nil, d \notin torn'
                   PROVE  Fits(entry[d].st, entry[d].sheet)'
        BY DEF SheetsAgree
      <3>1. CASE d = e
        BY <1>1, <2>1, <2>2, <3>1 DEF Locked, Editable, Fits
      <3>2. CASE d # e
        <4>1. entry'[d] = entry[d] /\ d \notin torn
          BY <2>1, <2>2, <3>2
        <4> QED BY <2>1, <4>1 DEF Inv, SheetsAgree, Exists, Fits
      <3> QED BY <3>1, <3>2
    <2>5. sheet' \in [Sheet -> SheetStatus] /\ torn' \subseteq Entry
      BY <1>1, <2>1 DEF Inv, TypeOK
    <2> QED BY <1>1, <1>3, <2>1, <2>2, <2>3, <2>4, <2>5, AttachStep DEF Exists
  <1> QED BY <1>0, <1>1, <1>2, <1>3 DEF AddWrite, RemoveWrite, Doing

LEMMA SheetWriteInv ==
  ASSUME Inv, NEW r \in Request, SheetWrite(r)
  PROVE  Inv'
  <1>0. PICK s, op, free : s = req[r].sheet /\ op = req[r].op /\ free = Attached(s)
    OBVIOUS
  <1>1. s \in Sheet /\ op \in SheetOp /\ req[r].todo = {}
    BY <1>0, Resting DEF SheetWrite, Inv, Asked, Fit
  <1>2. /\ sheet' = [sheet EXCEPT ![s] = Becomes(op)] /\ torn' = torn \ free
        /\ entry' = [e \in Entry |-> IF e \in free THEN EntryAfter(op, entry[e]) ELSE entry[e]]
        /\ blurred' = blurred \cup Recount(entry, entry')
        /\ req' = [req EXCEPT ![r] = Idle]
        /\ UNCHANGED <<timers, actual>>
    BY <1>0 DEF SheetWrite
  <1>3. Becomes(op) \in {"DRAFT", "SUBMITTED", "APPROVED", "REJECTED", "CANCELLED"}
    BY <1>1 DEF Becomes, SheetOp
  <1>4. op # "cancel" => Becomes(op) # "CANCELLED"
    BY <1>1 DEF Becomes, SheetOp
  <1>5. op = "cancel" => Becomes(op) = "CANCELLED"
    BY DEF Becomes
  <1>6. ASSUME NEW e \in Entry, e \in free
        PROVE  /\ entry'[e] \in EntryState /\ entry'[e].st \notin {"none", "gone"}
               /\ entry'[e].task = entry[e].task /\ entry'[e].mins = entry[e].mins
               /\ entry'[e].timer = entry[e].timer
               /\ \/ entry'[e].sheet = Nil
                  \/ /\ entry'[e].sheet = s
                     /\ IF op = "cancel" THEN entry'[e].st = "APPROVED"
                        ELSE entry'[e].st = Becomes(op)
    <2>1. entry[e] \in EntryState /\ entry[e].sheet = s /\ Exists(e)
      BY <1>0, <1>6 DEF Attached, Inv, TypeOK
    <2>2. entry'[e] = EntryAfter(op, entry[e])
      BY <1>2, <1>6
    <2>3. CASE op # "cancel"
      BY <1>3, <1>4, <2>1, <2>2, <2>3 DEF EntryAfter, EntryState
    <2>4. CASE op = "cancel" /\ entry[e].st = "APPROVED"
      BY <2>1, <2>2, <2>4 DEF EntryAfter
    <2>5. CASE op = "cancel" /\ entry[e].st # "APPROVED"
      BY <2>1, <2>2, <2>5 DEF EntryAfter, EntryState
    <2> QED BY <2>3, <2>4, <2>5
  <1>7. \A e \in Entry : e \notin free => entry'[e] = entry[e]
    BY <1>2
  <1>8. \A e \in free : e \in Entry /\ entry[e].st \notin {"none", "gone"}
    BY <1>0 DEF Attached, Exists
  <1>9. entry' \in [Entry -> EntryState]
    BY <1>2, <1>6, <1>7 DEF Inv, TypeOK
  <1>10. \A t \in Sheet : sheet'[t] = IF t = s THEN Becomes(op) ELSE sheet[t]
    BY <1>2 DEF Inv, TypeOK
  <1>11. SheetsAgree'
    <2> SUFFICES ASSUME NEW e \in Entry, Exists(e)', entry'[e].sheet # Nil, e \notin torn'
                 PROVE  Fits(entry[e].st, entry[e].sheet)'
      BY DEF SheetsAgree
    <2>1. CASE e \in free
      BY <1>1, <1>3, <1>4, <1>5, <1>6, <1>10, <2>1 DEF Fits
    <2>2. CASE e \notin free
      <3>1. entry'[e] = entry[e] /\ Exists(e) /\ entry[e].sheet \in Sheet /\ e \notin torn
        BY <1>2, <1>7, <2>2 DEF Exists, Inv, TypeOK, EntryState
      <3>2. entry[e].sheet # s
        BY <1>0, <2>2, <3>1 DEF Attached
      <3>3. Fits(entry[e].st, entry[e].sheet)
        BY <3>1, BoundAssumption DEF Inv, SheetsAgree
      <3> QED BY <1>10, <3>1, <3>2, <3>3 DEF Fits
    <2> QED BY <2>1, <2>2
  <1>12. sheet' \in [Sheet -> SheetStatus] /\ torn' \subseteq Entry
    BY <1>2, <1>3 DEF Inv, TypeOK, SheetStatus
  <1> QED BY <1>1, <1>2, <1>6, <1>7, <1>8, <1>9, <1>11, <1>12, AttachStep

-----------------------------------------------------------------------------

LEMMA NextInv == Inv /\ [Next]_vars => Inv'
  <1> SUFFICES ASSUME Inv, [Next]_vars PROVE Inv'
    OBVIOUS
  <1>1. CASE UNCHANGED vars
    BY <1>1
    DEF vars, Inv, TypeOK, Asked, Blank, SheetsAgree, TimersEndOnce, Settled, Owes, Exists, Fits,
        From, Total
  <1>2. ASSUME NEW r \in Request, EntryStep(r)
        PROVE  Inv'
    BY <1>2, CreateInv, StopWriteInv, UpdateInv, ReadInv, DeleteInv, SyncInv DEF EntryStep
  <1>3. ASSUME NEW r \in Request, TimerStep(r)
        PROVE  Inv'
    BY <1>3, TimerInv, ReadInv DEF TimerStep
  <1>4. ASSUME NEW r \in Request, SheetStep(r)
        PROVE  Inv'
    BY <1>4, ReadInv, MoveInv, SheetWriteInv DEF SheetStep
  <1> QED BY <1>1, <1>2, <1>3, <1>4, DieInv, CreateSheetInv DEF Next

LEMMA InvHolds == Spec => []Inv
  BY InitInv, NextInv, PTL DEF Spec

(***************************************************************************)
(* Sheets, entries, the timer and the totals are well typed, and a request *)
(* that would stop a timer has seen one.                                   *)
(***************************************************************************)
THEOREM TimesheetTypes == Spec => []TypeOK
  <1>1. Inv => TypeOK
    BY DEF Inv
  <1> QED BY <1>1, InvHolds, PTL

(***************************************************************************)
(* submit, approve, reject, reopen and cancel leave no entry with another  *)
(* status than its sheet's demands, but one that a stale edit has torn.    *)
(***************************************************************************)
THEOREM SheetsAndEntriesAgree == Spec => []SheetsAgree
  <1>1. Inv => SheetsAgree
    BY DEF Inv
  <1> QED BY <1>1, InvHolds, PTL

(***************************************************************************)
(* startTimer, stopTimer and discardTimer: a timer runs, or was discarded, *)
(* or has become exactly one entry.                                        *)
(***************************************************************************)
THEOREM TimersEnd == Spec => []TimersEndOnce
  <1>1. Inv => TimersEndOnce
    BY DEF Inv
  <1> QED BY <1>1, InvHolds, PTL

(***************************************************************************)
(* syncTaskActualMinutes: the total of a task that is not blurred is that  *)
(* of its entries, once no request owes it.                                *)
(***************************************************************************)
THEOREM TotalsAreRight == Spec => []ActualMinutes
  <1>1. Inv => ActualMinutes
    BY DEF Inv, Settled, Owes, ActualMinutes
  <1> QED BY <1>1, InvHolds, PTL
=============================================================================
