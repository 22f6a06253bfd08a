------------------------------ MODULE Bookings ------------------------------
(***************************************************************************)
(* Public booking: guests book a slot on a page, move their booking or     *)
(* cancel it with the links they were given.  A request looks for a host   *)
(* who is free (first the meetings, then the numbers of bookings) and      *)
(* writes the booking and its meeting in a transaction that looks at       *)
(* nothing again; no lock is held in between.  Hosts change meetings on    *)
(* their own side, which never touches the booking.                        *)
(*                                                                         *)
(* A request may be refused for more than is said here (blackouts, other   *)
(* meetings, the tenant's policy): it may end whenever it likes.           *)
(* CONFIRMED and PENDING_APPROVAL are one status: no code tells them       *)
(* apart once the booking is there, and none approves a booking.           *)
(***************************************************************************)
EXTENDS Integers, FiniteSets

CONSTANTS
    Booking,  \* bound: rows of bookings, each with the meeting it makes
    Request,  \* requests of guests that may be under way at a time
    Host,     \* hosts
    Page,     \* booking pages
    Time,     \* starts of slots
    Hours,    \* of a host: the starts within the hours of availability
    Length, Before, After,  \* of a page: minutes of a slot and around it
    Limit,    \* of a page: bookings of a host in a day and in a week, or 0
    Span,     \* lengths of a day and of a week
    Moves,    \* bound: the hosts and starts that hosts move meetings to
    MaxEdits, \* bound: changes of meetings by their hosts
    Nobody    \* no booking, no host, no holder of a link

Period == {"day", "week"}

ASSUME BookingAssumption ==
    /\ Time \subseteq Int /\ MaxEdits \in Nat /\ Moves \subseteq Host \X Time
    /\ Hours \in [Host -> SUBSET Time]
    /\ Length \in [Page -> Nat \ {0}]
    /\ Before \in [Page -> Nat] /\ After \in [Page -> Nat]
    /\ Limit \in [Page -> [Period -> Nat]] /\ Span \in [Period -> Nat \ {0}]
    /\ IsFiniteSet(Booking)
    /\ Nobody \notin Booking \cup Host

VARIABLES
    booking,  \* BookingRequest rows; held: the guest has the links
    meeting,  \* their meetings: on, or off when cancelled or archived
    request,  \* requests of guests
    edits,    \* changes by hosts so far
    since,    \* history: bookings written since a request read the meetings
    saw,      \* history: pairs, the first written with the second in view
    byHand,   \* history: bookings whose meeting its host changed
    revived   \* history: bookings moved after they had been cancelled

vars == <<booking, meeting, request, edits, since, saw, byHand, revived>>

NoBooking == [st |-> "none", page |-> Nobody, host |-> Nobody, start |-> 0, held |-> FALSE]
NoMeeting == [st |-> "none", host |-> Nobody, start |-> 0, first |-> Nobody]
Idle == [pc |-> "idle", of |-> Nobody, page |-> Nobody, start |-> 0, host |-> Nobody]

BookingState ==
    [st : {"LIVE", "CANCELLED"}, page : Page, host : Host, start : Time, held : BOOLEAN]
MeetingState ==
    [st : {"on", "off"}, host : Host, start : Time, first : Host \cup {Nobody}]
RequestState ==
    [pc : {"seen", "slot"}, of : Booking \cup {Nobody}, page : Page, start : Time,
     host : Host]
    \cup [pc : {"reschedule", "cancel"}, of : Booking, page : {Nobody},
          start : {0}, host : {Nobody}]

Init ==
    /\ booking = [b \in Booking |-> NoBooking]
    /\ meeting = [b \in Booking |-> NoMeeting]
    /\ request = [r \in Request |-> Idle]
    /\ edits = 0 /\ since = [r \in Request |-> {}]
    /\ saw = {} /\ byHand = {} /\ revived = {}

Live(b) == booking[b].st = "LIVE"

-----------------------------------------------------------------------------
(***************************************************************************)
(* What a request looks at.                                                *)
(***************************************************************************)
Overlap(from, to, start, end) == from < end /\ to > start

\* A slot of page p at t, with its buffers, keeps clear of one of page q at u.
Clear(p, t, q, u) ==
    ~Overlap(t - Before[p], t + Length[p] + After[p], u, u + Length[q])

\* The host of a meeting, and the host it was booked with, who stays an
\* attendee when it is moved to another.
Touches(b, h) == h \in {meeting[b].host, meeting[b].first}

BusyWithoutBuffers(h, p, t) ==  \* mutant
    \E b \in Booking : /\ meeting[b].st = "on" /\ Touches(b, h)
                       /\ Overlap(t, t + Length[p], meeting[b].start,
                                  meeting[b].start + Length[booking[b].page])

Busy(h, p, t) ==
    \E b \in Booking : /\ meeting[b].st = "on" /\ Touches(b, h)
                       /\ ~Clear(p, t, booking[b].page, meeting[b].start)

Part(k, t) == t \div Span[k]

\* The bookings of a host on a page in the day or the week of t.
Booked(p, h, k, i) ==
    {b \in Booking : /\ Live(b) /\ booking[b].page = p /\ booking[b].host = h
                     /\ Part(k, booking[b].start) = i}

OverFull(p, h, t) ==  \* mutant
    \E k \in Period : /\ Limit[p][k] > 0
                      /\ Cardinality(Booked(p, h, k, Part(k, t))) > Limit[p][k]

Full(p, h, t) ==
    \E k \in Period : /\ Limit[p][k] > 0
                      /\ Cardinality(Booked(p, h, k, Part(k, t))) >= Limit[p][k]

-----------------------------------------------------------------------------
(***************************************************************************)
(* Requests of guests.                                                     *)
(***************************************************************************)
AnyRow(b) == TRUE  \* mutant

\* The guest holds the links whose tokens the row has, and it is live.
ByToken(b) == booking[b].held /\ Live(b)

Open(r, pc) ==
    /\ request[r].pc = "idle"
    /\ \E b \in Booking :
          ByToken(b) /\ request' = [request EXCEPT ![r] = [@ EXCEPT !.pc = pc, !.of = b]]
    /\ UNCHANGED <<booking, meeting, edits, since, saw, byHand, revived>>

AskToReschedule(r) == Open(r, "reschedule")
AskToCancel(r) == Open(r, "cancel")

\* The meetings of the hosts are read before the numbers of their bookings.
\* The slot goes to one of the hosts who are free and below their limits: who,
\* the load and the routing of the page, or the guest, say.
Looking(r, b, p, t) ==
    \E h \in Host :
        /\ t \in Hours[h] /\ ~Busy(h, p, t)
        /\ request' = [request EXCEPT ![r] =
                          [pc |-> "seen", of |-> b, page |-> p, start |-> t, host |-> h]]
        /\ UNCHANGED <<booking, meeting, edits, since, saw, byHand, revived>>

AskForBooking(r) ==
    /\ request[r].pc = "idle"
    /\ \E p \in Page, t \in Time : Looking(r, Nobody, p, t)

ReadMeetings(r) ==
    LET b == request[r].of IN
    /\ request[r].pc = "reschedule"
    /\ \E t \in Time : Looking(r, b, booking[b].page, t)

ReadCounts(r) ==
    LET q == request[r] IN
    /\ q.pc = "seen" /\ ~Full(q.page, q.host, q.start)
    /\ request' = [request EXCEPT ![r] = [@ EXCEPT !.pc = "slot"]]
    /\ UNCHANGED <<booking, meeting, edits, since, saw, byHand, revived>>

Without(b) == {e \in saw : b \notin {e[1], e[2]}}

\* Request r has written booking b: who else has read goes by what was.
Written(r, b) ==
    /\ request' = [request EXCEPT ![r] = Idle]
    /\ since' = [q \in Request |->
                    IF q = r THEN {}
                    ELSE IF request[q].pc \in {"seen", "slot"} THEN since[q] \cup {b}
                    ELSE since[q]]
    /\ saw' = Without(b) \cup {b} \X (Booking \ (since[r] \cup {b}))

\* A row that is not there yet: which, makes no difference.
NewRow == CHOOSE b \in Booking : booking[b].st = "none"

\* The links reach the guest, or are lost with the answer: an error or a death
\* after the transaction.
Create(r) ==
    LET q == request[r]  b == NewRow IN
    /\ q.pc = "slot" /\ q.of = Nobody
    /\ \E x \in Booking : booking[x].st = "none"
    /\ \E held \in BOOLEAN :
          booking' = [booking EXCEPT ![b] = [st |-> "LIVE", page |-> q.page,
                         host |-> q.host, start |-> q.start, held |-> held]]
    /\ meeting' = [meeting EXCEPT ![b] = [st |-> "on", host |-> q.host,
                                          start |-> q.start, first |-> q.host]]
    /\ Written(r, b)
    /\ UNCHANGED <<edits, byHand, revived>>

MovedInTime(m, q) == [m EXCEPT !.start = q.start]  \* mutant
Moved(m, q) == [m EXCEPT !.host = q.host, !.start = q.start]

\* The status is written as it was read, the meeting keeps its own.
Reschedule(r) ==
    LET q == request[r]  b == q.of IN
    /\ q.pc = "slot" /\ b # Nobody
    /\ \E held \in BOOLEAN :
          booking' = [booking EXCEPT ![b] = [@ EXCEPT !.st = "LIVE", !.host = q.host,
                                             !.start = q.start, !.held = held]]
    /\ meeting' = [meeting EXCEPT ![b] = Moved(@, q)]
    /\ Written(r, b)
    /\ revived' = IF Live(b) THEN revived ELSE revived \cup {b}
    /\ UNCHANGED <<edits, byHand>>

Cancel(r) ==
    LET b == request[r].of IN
    /\ request[r].pc = "cancel"
    /\ booking' = [booking EXCEPT ![b] = [@ EXCEPT !.st = "CANCELLED", !.held = FALSE]]
    /\ meeting' = [meeting EXCEPT ![b] = [@ EXCEPT !.st = "off"]]
    /\ request' = [request EXCEPT ![r] = Idle]
    /\ since' = [q \in Request |-> since[q] \ {b}]
    /\ saw' = Without(b)
    /\ revived' = revived \ {b}
    /\ UNCHANGED <<edits, byHand>>

\* A refusal, an error or the death of the instance.
BreakOff(r) ==
    /\ request[r].pc # "idle"
    /\ request' = [request EXCEPT ![r] = Idle]
    /\ since' = [since EXCEPT ![r] = {}]
    /\ UNCHANGED <<booking, meeting, edits, saw, byHand, revived>>

-----------------------------------------------------------------------------
(***************************************************************************)
(* Hosts.  They move a meeting or give it to another, with or without a    *)
(* look at conflicts; they cancel, archive and restore it; and take the    *)
(* host it was booked with off the attendees.                              *)
(***************************************************************************)
Edit(b) ==
    /\ edits < MaxEdits /\ edits' = edits + 1
    /\ meeting[b].st # "none"
    /\ UNCHANGED <<booking, request, since, saw, revived>>

MoveMeeting(b) ==
    /\ Edit(b)
    /\ \E m \in Moves :
          meeting' = [meeting EXCEPT ![b] = [@ EXCEPT !.host = m[1], !.start = m[2]]]
    /\ byHand' = byHand \cup {b}

SetStatus(b) ==
    /\ Edit(b)
    /\ \E s \in {"on", "off"} : meeting' = [meeting EXCEPT ![b] = [@ EXCEPT !.st = s]]
    /\ byHand' = byHand \cup {b}

RemoveAttendee(b) ==
    /\ Edit(b)
    /\ meeting[b].first # Nobody
    /\ meeting' = [meeting EXCEPT ![b] = [@ EXCEPT !.first = Nobody]]
    /\ UNCHANGED byHand

RequestStep(r) ==
    \/ AskForBooking(r) \/ AskToReschedule(r) \/ AskToCancel(r)
    \/ ReadMeetings(r) \/ ReadCounts(r)
    \/ Create(r) \/ Reschedule(r) \/ Cancel(r)
    \/ BreakOff(r)

Next ==
    \/ \E r \in Request : RequestStep(r)
    \/ \E b \in Booking : MoveMeeting(b) \/ SetStatus(b) \/ RemoveAttendee(b)

Spec == Init /\ [][Next]_vars

-----------------------------------------------------------------------------
TypeOK ==
    /\ booking \in [Booking -> {NoBooking} \cup BookingState]
    /\ meeting \in [Booking -> {NoMeeting} \cup MeetingState]
    /\ request \in [Request -> {Idle} \cup RequestState]
    /\ edits \in 0..MaxEdits /\ since \in [Request -> SUBSET Booking]
    /\ saw \subseteq Booking \X Booking
    /\ byHand \subseteq Booking /\ revived \subseteq Booking

Excused(b) == b \in byHand \cup revived

(***************************************************************************)
(* A booking keeps its buffers from every other booking of the host that   *)
(* was there when its request looked for a free host: the transaction of   *)
(* createPublicBooking or reschedulePublicBooking does not look again, so  *)
(* only requests that overlap can book a host twice.  Left out are         *)
(* bookings whose meeting a host changed, and those moved after they had   *)
(* been cancelled.                                                         *)
(***************************************************************************)
NoDoubleBooking ==
    \A b, c \in Booking :
        (/\ <<b, c>> \in saw /\ Live(b) /\ Live(c) /\ booking[b].host = booking[c].host
         /\ ~Excused(b) /\ ~Excused(c)) =>
            Clear(booking[b].page, booking[b].start, booking[c].page, booking[c].start)

(***************************************************************************)
(* Of the live bookings of a host on a page in a day or a week, no more    *)
(* than the limit were written with one another in view: only requests     *)
(* that overlap exceed it (bookingCounts is read before the transaction).  *)
(***************************************************************************)
InView(S) == \A b, c \in S : b = c \/ <<b, c>> \in saw \/ <<c, b>> \in saw

LimitKept ==
    \A p \in Page, h \in Host, k \in Period, t \in Time :
        Limit[p][k] > 0 =>
            \A S \in SUBSET Booked(p, h, k, Part(k, t)) :
                InView(S) => Cardinality(S) <= Limit[p][k]

(***************************************************************************)
(* A live booking has its meeting on, with the same host at the same time, *)
(* and a cancelled one has it off, unless a host changed the meeting or    *)
(* the booking was moved after it had been cancelled (the status that      *)
(* reschedulePublicBooking had read is written back).                      *)
(***************************************************************************)
RowsAgree ==
    \A b \in Booking :
        /\ Live(b) /\ ~Excused(b) => /\ meeting[b].st = "on"
                                     /\ meeting[b].host = booking[b].host
                                     /\ meeting[b].start = booking[b].start
        /\ booking[b].st = "CANCELLED" /\ b \notin byHand => meeting[b].st = "off"
=============================================================================
