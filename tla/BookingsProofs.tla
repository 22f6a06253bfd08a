--------------------------- MODULE BookingsProofs ---------------------------
(***************************************************************************)
(* Proofs about Bookings, for every set of bookings, requests, hosts and   *)
(* pages, and all lengths, buffers and limits.                             *)
(***************************************************************************)
EXTENDS Bookings, FiniteSetTheorems, TLAPS

(***************************************************************************)
(* A booking and its meeting are made together.                            *)
(***************************************************************************)
Made(b) == booking[b] \in BookingState /\ meeting[b] \in MeetingState
Blank(b) == booking[b] = NoBooking /\ meeting[b] = NoMeeting
Rows == \A b \in Booking : Made(b) \/ Blank(b)

(***************************************************************************)
(* What a request q knows, apart from the bookings S written since it      *)
(* looked: the slot of its host keeps clear of the others, and they are    *)
(* below the limits.                                                       *)
(***************************************************************************)
Own(q) ==
    /\ q.of # Nobody => q.of \in Booking /\ Made(q.of)
    /\ q.of # Nobody /\ (q.pc = "slot" \/ q.pc = "seen") => booking[q.of].page = q.page

Apart(q, S) ==
    q.pc = "slot" \/ q.pc = "seen" =>
        \A c \in Booking \ S :
            (Live(c) /\ ~Excused(c) /\ booking[c].host = q.host) =>
                Clear(q.page, q.start, booking[c].page, booking[c].start)

Room(q, S) ==
    q.pc = "slot" =>
        \A k \in Period :
            Limit[q.page][k] > 0 =>
                Cardinality(Booked(q.page, q.host, k, Part(k, q.start)) \ S)
                    < Limit[q.page][k]

Knows(q, S) == Own(q) /\ Apart(q, S) /\ Room(q, S)

Inv ==
    /\ TypeOK /\ Rows /\ RowsAgree
    /\ \A r \in Request : Knows(request[r], since[r])
    /\ NoDoubleBooking /\ LimitKept

-----------------------------------------------------------------------------
(***************************************************************************)
(* Finite sets of bookings.                                                *)
(***************************************************************************)
LEMMA Smaller ==
  ASSUME NEW S \in SUBSET Booking, NEW T \in SUBSET S
  PROVE  Cardinality(T) <= Cardinality(S) /\ Cardinality(S) \in Nat /\ Cardinality(T) \in Nat
  <1>1. IsFiniteSet(S)
    BY BookingAssumption, FS_Subset
  <1> QED BY <1>1, FS_Subset, FS_CardinalityType

LEMMA OneMore ==
  ASSUME NEW S \in SUBSET Booking, NEW b, NEW n \in Nat, Cardinality(S \ {b}) < n
  PROVE  Cardinality(S) <= n
  <1>1. IsFiniteSet(S)
    BY BookingAssumption, FS_Subset
  <1>2. Cardinality(S) \in Nat /\ Cardinality(S \ {b}) \in Nat
    BY <1>1, FS_CardinalityType, FS_RemoveElement
  <1>3. Cardinality(S \ {b}) = Cardinality(S) - 1 \/ Cardinality(S \ {b}) = Cardinality(S)
    BY <1>1, FS_RemoveElement
  <1> QED BY <1>2, <1>3

LEMMA Bounds ==
  \A p \in Page, k \in Period : Limit[p][k] \in Nat
  BY BookingAssumption

LEMMA BookedIn ==
  ASSUME NEW p, NEW h, NEW k, NEW i
  PROVE  Booked(p, h, k, i) \subseteq Booking
  BY DEF Booked

(***************************************************************************)
(* A request of which nothing is known, or that only opened a booking.     *)
(***************************************************************************)
LEMMA IdleKnows == \A S : Knows(Idle, S)
  BY DEF Knows, Own, Apart, Room, Idle

LEMMA InitInv == Init => Inv
  <1> SUFFICES ASSUME Init PROVE Inv
    OBVIOUS
  <1>1. TypeOK
    BY BookingAssumption DEF Init, TypeOK
  <1>2. Rows /\ RowsAgree /\ NoDoubleBooking
    BY DEF Init, Rows, Blank, RowsAgree, NoDoubleBooking, Live, NoBooking, NoMeeting
  <1>3. \A r \in Request : Knows(request[r], since[r])
    BY IdleKnows DEF Init
  <1>4. LimitKept
    <2> SUFFICES ASSUME NEW p \in Page, NEW h \in Host, NEW k \in Period, NEW t \in Time,
                        Limit[p][k] > 0,
                        NEW S \in SUBSET Booked(p, h, k, Part(k, t))
                 PROVE  Cardinality(S) <= Limit[p][k]
      BY DEF LimitKept
    <2>1. S = {}
      BY DEF Booked, Live, Init, NoBooking
    <2> QED BY <2>1, FS_EmptySet, Bounds
  <1> QED BY <1>1, <1>2, <1>3, <1>4 DEF Inv

-----------------------------------------------------------------------------
(***************************************************************************)
(* Steps that write no booking.                                            *)
(***************************************************************************)
LEMMA SameBookings ==
  ASSUME Inv, UNCHANGED <<booking, saw>>, byHand \subseteq byHand', revived' = revived
  PROVE  NoDoubleBooking' /\ LimitKept'
  <1>1. NoDoubleBooking'
    BY DEF Inv, NoDoubleBooking, Live, Excused
  <1>2. \A p, h, k, t : Booked(p, h, k, Part(k, t))' = Booked(p, h, k, Part(k, t))
    BY DEF Booked, Live
  <1>3. LimitKept'
    BY <1>2 DEF Inv, LimitKept, InView
  <1> QED BY <1>1, <1>3

\* A request goes on, and all else stays.
GoesOn(r, q) ==
    /\ request' = [request EXCEPT ![r] = q]
    /\ UNCHANGED <<booking, meeting, edits, since, saw, byHand, revived>>

LEMMA GoesOnInv ==
  ASSUME Inv, NEW r \in Request, NEW q \in {Idle} \cup RequestState,
         GoesOn(r, q), Knows(q, since[r])
  PROVE  Inv'
  <1>1. TypeOK'
    BY DEF Inv, TypeOK, GoesOn
  <1>2. Rows' /\ RowsAgree'
    BY DEF Inv, GoesOn, Rows, Made, Blank, RowsAgree, Live, Excused
  <1>3. NoDoubleBooking' /\ LimitKept'
    BY SameBookings DEF GoesOn
  <1>4. \A y, S : Knows(y, S)' = Knows(y, S)
    BY DEF GoesOn, Knows, Own, Made, Apart, Room, Live, Excused, Booked
  <1>5. \A x \in Request : Knows(request[x], since[x])'
    BY <1>4 DEF Inv, TypeOK, GoesOn
  <1> QED BY <1>1, <1>2, <1>3, <1>5 DEF Inv

LEMMA IdlePc == \A r \in Request : TypeOK /\ request[r].pc = "idle" => request[r] = Idle
  BY DEF TypeOK, RequestState, Idle

LEMMA OpenInv ==
  ASSUME Inv, NEW r \in Request, NEW pc \in {"reschedule", "cancel"}, Open(r, pc)
  PROVE  Inv'
  <1>1. request[r] = Idle
    BY IdlePc DEF Open, Inv
  <1>2. PICK b \in Booking :
           ByToken(b) /\ request' = [request EXCEPT ![r] = [@ EXCEPT !.pc = pc, !.of = b]]
    BY DEF Open
  <1> DEFINE q == [Idle EXCEPT !.pc = pc, !.of = b]
  <1>3. q \in RequestState
    BY DEF RequestState, Idle
  <1>4. Made(b)
    BY <1>2 DEF Inv, Rows, Blank, NoBooking, ByToken, Live
  <1>5. Knows(q, since[r])
    BY <1>4 DEF Knows, Own, Apart, Room, Idle
  <1>6. GoesOn(r, q)
    BY <1>1, <1>2 DEF Open, GoesOn
  <1> QED BY <1>3, <1>5, <1>6, GoesOnInv

LEMMA LookingInv ==
  ASSUME Inv, NEW r \in Request, NEW b \in Booking \cup {Nobody}, NEW p \in Page, NEW t \in Time,
         Looking(r, b, p, t), b # Nobody => Made(b) /\ booking[b].page = p
  PROVE  Inv'
  <1>1. PICK h \in Host :
           /\ ~Busy(h, p, t)
           /\ GoesOn(r, [pc |-> "seen", of |-> b, page |-> p, start |-> t, host |-> h])
    BY DEF Looking, GoesOn
  <1> DEFINE q == [pc |-> "seen", of |-> b, page |-> p, start |-> t, host |-> h]
  <1>2. q \in RequestState
    BY DEF RequestState
  <1>3. Own(q) /\ Room(q, since[r])
    BY BookingAssumption DEF Own, Room
  <1>4. Apart(q, since[r])
    <2>1. ASSUME NEW c \in Booking, Live(c), ~Excused(c), booking[c].host = h
          PROVE  Clear(p, t, booking[c].page, booking[c].start)
      BY <1>1, <2>1 DEF Inv, RowsAgree, Busy, Touches
    <2> QED BY <2>1 DEF Apart
  <1> QED BY <1>1, <1>2, <1>3, <1>4, GoesOnInv DEF Knows

LEMMA ReadMeetingsInv ==
  ASSUME Inv, NEW r \in Request, ReadMeetings(r)
  PROVE  Inv'
  <1> DEFINE b == request[r].of
  <1>1. b \in Booking
    BY DEF Inv, TypeOK, RequestState, ReadMeetings, Idle
  <1>2. Made(b) /\ b # Nobody
    BY <1>1, BookingAssumption DEF Inv, Knows, Own
  <1>3. booking[b].page \in Page
    BY <1>2 DEF Made, BookingState
  <1> QED BY <1>1, <1>2, <1>3, LookingInv DEF ReadMeetings

LEMMA ReadCountsInv ==
  ASSUME Inv, NEW r \in Request, ReadCounts(r)
  PROVE  Inv'
  <1> DEFINE q == [request[r] EXCEPT !.pc = "slot"]
  <1>1. request[r] \in RequestState /\ request[r].pc = "seen"
    BY DEF Inv, TypeOK, ReadCounts, Idle
  <1>2. /\ q \in RequestState /\ q.page \in Page /\ q.page = request[r].page
        /\ q.host = request[r].host /\ q.start = request[r].start /\ q.of = request[r].of
        /\ q.pc = "slot"
    BY <1>1 DEF RequestState
  <1>3. Own(q) /\ Apart(q, since[r])
    BY <1>1, <1>2 DEF Inv, Knows, Own, Apart
  <1>4. Room(q, since[r])
    <2> SUFFICES ASSUME NEW k \in Period, Limit[q.page][k] > 0
                 PROVE  Cardinality(Booked(q.page, q.host, k, Part(k, q.start)) \ since[r])
                          < Limit[q.page][k]
      BY DEF Room
    <2> DEFINE B == Booked(q.page, q.host, k, Part(k, q.start))
    <2>1. ~(Cardinality(B) >= Limit[q.page][k])
      BY <1>2 DEF ReadCounts, Full
    <2>2. Cardinality(B \ since[r]) <= Cardinality(B) /\ Cardinality(B) \in Nat
          /\ Cardinality(B \ since[r]) \in Nat
      <3> HIDE DEF B
      <3>1. B \subseteq Booking
        BY BookedIn DEF B
      <3> QED BY <3>1, Smaller
    <2> QED BY <1>2, <2>1, <2>2, Bounds
  <1>5. GoesOn(r, q)
    BY DEF ReadCounts, GoesOn
  <1> QED BY <1>2, <1>3, <1>4, <1>5, GoesOnInv DEF Knows

LEMMA BreakOffInv ==
  ASSUME Inv, NEW r \in Request, BreakOff(r)
  PROVE  Inv'
  <1>1. TypeOK'
    BY DEF Inv, TypeOK, BreakOff
  <1>2. Rows' /\ RowsAgree'
    BY DEF Inv, BreakOff, Rows, Made, Blank, RowsAgree, Live, Excused
  <1>3. NoDoubleBooking' /\ LimitKept'
    BY SameBookings DEF BreakOff
  <1>4. \A y, S : Knows(y, S)' = Knows(y, S)
    BY DEF BreakOff, Knows, Own, Made, Apart, Room, Live, Excused, Booked
  <1>5. \A x \in Request : Knows(request[x], since[x])'
    BY <1>4, IdleKnows DEF Inv, TypeOK, BreakOff
  <1> QED BY <1>1, <1>2, <1>3, <1>5 DEF Inv

(***************************************************************************)
(* A host changes a meeting: the bookings stay as they are, and the one    *)
(* whose meeting has changed is left out from then on.                     *)
(***************************************************************************)
LEMMA EditInv ==
  ASSUME Inv, NEW b \in Booking, MoveMeeting(b) \/ SetStatus(b) \/ RemoveAttendee(b)
  PROVE  Inv'
  <1> Edit(b)
    BY DEF MoveMeeting, SetStatus, RemoveAttendee
  <1>1. meeting[b] \in MeetingState /\ Made(b)
    BY DEF Inv, Rows, Made, Blank, NoMeeting, Edit
  <1>2. PICK m \in MeetingState :
           /\ meeting' = [meeting EXCEPT ![b] = m]
           /\ \/ byHand' = byHand \cup {b}
              \/ /\ byHand' = byHand /\ m.st = meeting[b].st
                 /\ m.host = meeting[b].host /\ m.start = meeting[b].start
    <2>1. CASE MoveMeeting(b)
      <3>1. PICK x \in Moves : meeting' = [meeting EXCEPT ![b] =
                                             [@ EXCEPT !.host = x[1], !.start = x[2]]]
        BY <2>1 DEF MoveMeeting
      <3>2. x[1] \in Host /\ x[2] \in Time
        BY BookingAssumption
      <3>3. [meeting[b] EXCEPT !.host = x[1], !.start = x[2]] \in MeetingState
        BY <1>1, <3>2 DEF MeetingState
      <3> QED BY <2>1, <3>1, <3>3 DEF MoveMeeting
    <2>2. CASE SetStatus(b)
      <3>1. PICK s \in {"on", "off"} : meeting' = [meeting EXCEPT ![b] = [@ EXCEPT !.st = s]]
        BY <2>2 DEF SetStatus
      <3>2. [meeting[b] EXCEPT !.st = s] \in MeetingState
        BY <1>1 DEF MeetingState
      <3> QED BY <2>2, <3>1, <3>2 DEF SetStatus
    <2>3. CASE RemoveAttendee(b)
      <3>1. [meeting[b] EXCEPT !.first = Nobody] \in MeetingState
        BY <1>1 DEF MeetingState
      <3> QED BY <1>1, <2>3, <3>1 DEF RemoveAttendee, MeetingState
    <2> QED BY <2>1, <2>2, <2>3
  <1>3. edits' \in 0..MaxEdits /\ UNCHANGED <<booking, request, since, saw, revived>>
    BY BookingAssumption DEF Inv, TypeOK, Edit
  <1>4. TypeOK'
    BY <1>2, <1>3 DEF Inv, TypeOK
  <1>5. meeting'[b] = m /\ \A c \in Booking : c # b => meeting'[c] = meeting[c]
    BY <1>2 DEF Inv, TypeOK
  <1>6. Rows'
    BY <1>1, <1>3, <1>5 DEF Inv, Rows, Made, Blank
  <1>7. RowsAgree'
    BY <1>2, <1>3, <1>5 DEF Inv, RowsAgree, Live, Excused
  <1>8. NoDoubleBooking' /\ LimitKept'
    BY <1>2, <1>3, SameBookings
  <1>9. \A r \in Request : Knows(request[r], since[r])'
    <2> SUFFICES ASSUME NEW r \in Request PROVE Knows(request[r], since[r])'
      OBVIOUS
    <2>1. \A c \in Booking : Made(c) => Made(c)'
      BY <1>3, <1>5 DEF Made
    <2>2. Own(request[r])'
      BY <1>3, <2>1 DEF Inv, Knows, Own
    <2>3. Apart(request[r], since[r])'
      BY <1>2, <1>3 DEF Inv, Knows, Apart, Live, Excused
    <2>4. Room(request[r], since[r])'
      BY <1>3 DEF Inv, Knows, Room, Booked, Live
    <2> QED BY <2>2, <2>3, <2>4 DEF Knows
  <1> QED BY <1>4, <1>6, <1>7, <1>8, <1>9 DEF Inv

-----------------------------------------------------------------------------
(***************************************************************************)
(* Request r writes row b with the slot it has found, and meeting m.       *)
(***************************************************************************)
Writes(r, b, row, m) ==
    /\ request[r].pc = "slot"
    /\ row \in BookingState /\ m \in MeetingState /\ row.st = "LIVE"
    /\ row.page = request[r].page /\ (Made(b) => row.page = booking[b].page)
    /\ row.host = request[r].host /\ m.host = row.host
    /\ row.start = request[r].start /\ m.start = row.start
    /\ booking' = [booking EXCEPT ![b] = row]
    /\ meeting' = [meeting EXCEPT ![b] = m]
    /\ Written(r, b)
    /\ UNCHANGED <<edits, byHand>>
    /\ revived' = revived \/ revived' = revived \cup {b}
    /\ m.st = "on" \/ b \in byHand \/ b \in revived'

Outcome(r, b, row, m) ==
    /\ booking'[b] = row /\ meeting'[b] = m
    /\ \A c \in Booking : c # b => /\ booking'[c] = booking[c] /\ meeting'[c] = meeting[c]
                                   /\ Live(c)' <=> Live(c)
                                   /\ Excused(c)' <=> Excused(c)
    /\ \A c \in Booking : Excused(c) => Excused(c)'
    /\ request[r] \in RequestState

LEMMA WritesOthers ==
  ASSUME Inv, NEW r \in Request, NEW b \in Booking, NEW row, NEW m, Writes(r, b, row, m)
  PROVE  Outcome(r, b, row, m)
  <1>1. booking'[b] = row /\ meeting'[b] = m
    BY DEF Inv, TypeOK, Writes
  <1>2. ASSUME NEW c \in Booking, c # b
        PROVE  /\ booking'[c] = booking[c] /\ meeting'[c] = meeting[c]
               /\ Live(c)' <=> Live(c)
               /\ Excused(c)' <=> Excused(c)
    <2>1. booking'[c] = booking[c] /\ meeting'[c] = meeting[c]
      BY <1>2 DEF Inv, TypeOK, Writes
    <2> QED BY <1>2, <2>1 DEF Writes, Live, Excused
  <1>3. \A c \in Booking : Excused(c) => Excused(c)'
    BY DEF Writes, Excused
  <1>4. request[r] \in RequestState
    BY DEF Inv, TypeOK, Writes, Idle
  <1> QED BY <1>1, <1>2, <1>3, <1>4 DEF Outcome

\* What is booked in a period changes at most by b.
LEMMA WritesBooked ==
  ASSUME Inv, NEW r \in Request, NEW b \in Booking, NEW row, NEW m, Writes(r, b, row, m),
         NEW p, NEW h, NEW k, NEW i
  PROVE  /\ Booked(p, h, k, i)' \ {b} = Booked(p, h, k, i) \ {b}
         /\ b \in Booked(p, h, k, i)' =>
               /\ p = request[r].page /\ h = request[r].host
               /\ i = Part(k, request[r].start)
  <1>0. Outcome(r, b, row, m)
    BY WritesOthers
  <1> QED BY <1>0 DEF Outcome, Booked, Writes, Live

LEMMA WritesKnown ==
  ASSUME Inv, NEW r \in Request, NEW b \in Booking, NEW row, NEW m, Writes(r, b, row, m)
  PROVE  \A x \in Request : Knows(request[x], since[x])'
  <1>0. Outcome(r, b, row, m)
    BY WritesOthers
  <1> SUFFICES ASSUME NEW x \in Request PROVE Knows(request[x], since[x])'
    OBVIOUS
  <1>1. CASE x = r
    <2>1. request'[x] = Idle
      BY <1>1 DEF Inv, TypeOK, Writes, Written
    <2>2. (Knows(Idle, since[x]))'
      BY DEF Knows, Own, Apart, Room, Idle
    <2> QED BY <2>1, <2>2
  <1>2. CASE x # r
    <2>0. PICK q : q = request[x]
      OBVIOUS
    <2>1. request'[x] = q
      BY <1>2, <2>0 DEF Inv, TypeOK, Writes, Written
    <2>2. /\ q.pc = "slot" \/ q.pc = "seen" => since'[x] = since[x] \cup {b}
          /\ since'[x] = since[x] \/ since'[x] = since[x] \cup {b}
      BY <1>2, <2>0 DEF Inv, TypeOK, Writes, Written
    <2>3. q \in {Idle} \cup RequestState /\ Knows(q, since[x])
      BY <2>0 DEF Inv, TypeOK
    <2>4. Own(q)'
      <3>1. ASSUME q.of # Nobody
            PROVE  /\ q.of \in Booking /\ Made(q.of)'
                   /\ q.pc = "slot" \/ q.pc = "seen" => booking'[q.of].page = q.page
        <4>1. q.of \in Booking /\ Made(q.of)
          BY <2>3, <3>1 DEF Knows, Own
        <4>2. q.pc = "slot" \/ q.pc = "seen" => booking[q.of].page = q.page
          BY <2>3, <3>1 DEF Knows, Own
        <4>3. CASE q.of # b
          BY <4>1, <4>2, <4>3, <1>0 DEF Outcome, Made
        <4>4. CASE q.of = b
          <5>1. Made(b)'
            BY <1>0 DEF Outcome, Made, Writes
          <5>2. booking[b].page = row.page
            BY <4>1, <4>4 DEF Writes
          <5> QED BY <4>1, <4>2, <4>4, <5>1, <5>2, <1>0 DEF Outcome
        <4> QED BY <4>3, <4>4
      <3> QED BY <3>1 DEF Own
    <2>5. Apart(q, since[x])'
      <3> SUFFICES ASSUME q.pc = "slot" \/ q.pc = "seen", NEW c \in Booking \ since'[x],
                          Live(c)', ~Excused(c)', booking'[c].host = q.host
                   PROVE  Clear(q.page, q.start, booking'[c].page, booking'[c].start)
        BY DEF Apart
      <3>1. c # b /\ c \in Booking \ since[x]
        BY <2>2
      <3> QED BY <2>3, <3>1, <1>0 DEF Outcome, Knows, Apart
    <2>6. Room(q, since[x])'
      <3> SUFFICES ASSUME q.pc = "slot", NEW k \in Period, Limit[q.page][k] > 0
                   PROVE  Cardinality(Booked(q.page, q.host, k, Part(k, q.start))' \ since'[x])
                            < Limit[q.page][k]
        BY DEF Room
      <3> DEFINE B == Booked(q.page, q.host, k, Part(k, q.start))
      <3>1. Cardinality(B \ since[x]) < Limit[q.page][k]
        BY <2>3 DEF Knows, Room
      <3>2. B' \ since'[x] = (B \ {b}) \ since[x]
        <4>1. B' \ {b} = B \ {b}
          BY WritesBooked
        <4> HIDE DEF B
        <4> QED BY <2>2, <4>1
      <3>3. B \subseteq Booking
        BY BookedIn
      <3>4. q.page \in Page
        BY <2>3 DEF RequestState, Idle
      <3> HIDE DEF B
      <3>5. /\ Cardinality((B \ {b}) \ since[x]) <= Cardinality(B \ since[x])
            /\ Cardinality((B \ {b}) \ since[x]) \in Nat /\ Cardinality(B \ since[x]) \in Nat
        BY <3>3, Smaller
      <3> QED BY <3>1, <3>2, <3>4, <3>5, Bounds, SMTT(30) DEF B
    <2> QED BY <2>1, <2>4, <2>5, <2>6 DEF Knows
  <1> QED BY <1>1, <1>2

LEMMA WritesClear ==
  ASSUME Inv, NEW r \in Request, NEW b \in Booking, NEW row, NEW m, Writes(r, b, row, m)
  PROVE  NoDoubleBooking'
  <1>0. Outcome(r, b, row, m)
    BY WritesOthers
  <1> SUFFICES ASSUME NEW x \in Booking, NEW c \in Booking, <<x, c>> \in saw',
                      Live(x)', Live(c)', booking'[x].host = booking'[c].host,
                      ~Excused(x)', ~Excused(c)'
               PROVE  Clear(booking'[x].page, booking'[x].start,
                            booking'[c].page, booking'[c].start)
    BY DEF NoDoubleBooking
  <1>1. CASE <<x, c>> \in Without(b)
    <2>1. x # b /\ c # b /\ <<x, c>> \in saw
      BY <1>1 DEF Without
    <2> QED BY <2>1, <1>0 DEF Outcome, Inv, NoDoubleBooking
  <1>2. CASE x = b /\ c \in Booking \ (since[r] \cup {b})
    <2>1. c # b /\ c \in Booking \ since[r] /\ ~Excused(c)
      BY <1>2, <1>0 DEF Outcome
    <2>2. Live(c) /\ booking[c].host = request[r].host
      BY <1>2, <2>1, <1>0 DEF Outcome, Writes
    <2>3. Clear(request[r].page, request[r].start, booking[c].page, booking[c].start)
      BY <2>1, <2>2 DEF Inv, Knows, Apart, Writes
    <2> QED BY <1>2, <2>1, <2>3, <1>0 DEF Outcome, Writes
  <1>3. saw' = Without(b) \cup {b} \X (Booking \ (since[r] \cup {b}))
    BY DEF Writes, Written
  <1> QED BY <1>1, <1>2, <1>3

LEMMA WritesLimit ==
  ASSUME Inv, NEW r \in Request, NEW b \in Booking, NEW row, NEW m, Writes(r, b, row, m)
  PROVE  LimitKept'
  <1>0. Outcome(r, b, row, m)
    BY WritesOthers
  <1> SUFFICES ASSUME NEW p \in Page, NEW h \in Host, NEW k \in Period, NEW t \in Time,
                      Limit[p][k] > 0,
                      NEW S \in SUBSET Booked(p, h, k, Part(k, t))', InView(S)'
               PROVE  Cardinality(S) <= Limit[p][k]
    BY DEF LimitKept
  <1> DEFINE B == Booked(p, h, k, Part(k, t))
  <1>1. B' \ {b} = B \ {b}
    BY WritesBooked
  <1>2. saw' = Without(b) \cup {b} \X (Booking \ (since[r] \cup {b}))
    BY DEF Writes, Written
  <1>3. B \subseteq Booking /\ S \subseteq Booking
    BY BookedIn DEF Booked
  <1>4. CASE b \notin S
    <2>1. S \subseteq B
      <3> HIDE DEF B
      <3> QED BY <1>1, <1>4 DEF B
    <2>2. InView(S)
      BY <1>2, <1>4 DEF InView, Without
    <2> QED BY <2>1, <2>2 DEF Inv, LimitKept
  <1>5. CASE b \in S
    <2>1. /\ p = request[r].page /\ h = request[r].host
          /\ Part(k, t) = Part(k, request[r].start)
      BY <1>5, WritesBooked
    <2>2. \A c \in S : c # b => c \notin since[r]
      BY <1>2, <1>5 DEF InView, Without
    <2>3. S \ {b} \subseteq B \ since[r]
      <3> HIDE DEF B
      <3> QED BY <1>1, <2>2 DEF B
    <2>4. Cardinality(B \ since[r]) < Limit[p][k]
      BY <2>1 DEF Inv, Knows, Room, Writes
    <2> HIDE DEF B
    <2>5. /\ Cardinality(S \ {b}) <= Cardinality(B \ since[r])
          /\ Cardinality(S \ {b}) \in Nat /\ Cardinality(B \ since[r]) \in Nat
      BY <1>3, <2>3, Smaller
    <2> QED BY <1>3, <2>4, <2>5, OneMore, Bounds
  <1> QED BY <1>4, <1>5

LEMMA WritesInv ==
  ASSUME Inv, NEW r \in Request, NEW b \in Booking, NEW row, NEW m, Writes(r, b, row, m)
  PROVE  Inv'
  <1>0. Outcome(r, b, row, m)
    BY WritesOthers
  <1>1. TypeOK'
    <2>1. /\ booking' \in [Booking -> {NoBooking} \cup BookingState]
          /\ meeting' \in [Booking -> {NoMeeting} \cup MeetingState]
          /\ edits' \in 0..MaxEdits /\ byHand' \subseteq Booking /\ revived' \subseteq Booking
      BY DEF Inv, TypeOK, Writes
    <2>2. /\ request' \in [Request -> {Idle} \cup RequestState]
          /\ since' \in [Request -> SUBSET Booking]
      BY DEF Inv, TypeOK, Writes, Written
    <2>3. saw' \subseteq Booking \X Booking
      BY DEF Inv, TypeOK, Writes, Written, Without
    <2> QED BY <2>1, <2>2, <2>3 DEF TypeOK
  <1>2. Rows'
    BY <1>0 DEF Outcome, Inv, Rows, Made, Blank, Writes
  <1>3. RowsAgree'
    <2> SUFFICES ASSUME NEW c \in Booking
                 PROVE  /\ Live(c)' /\ ~Excused(c)' => /\ meeting'[c].st = "on"
                                                       /\ meeting'[c].host = booking'[c].host
                                                       /\ meeting'[c].start = booking'[c].start
                        /\ booking'[c].st = "CANCELLED" /\ c \notin byHand'
                             => meeting'[c].st = "off"
      BY DEF RowsAgree
    <2>1. CASE c = b
      BY <2>1, <1>0 DEF Outcome, Writes, Excused
    <2>2. CASE c # b
      BY <2>2, <1>0 DEF Outcome, Inv, RowsAgree, Writes
    <2> QED BY <2>1, <2>2
  <1> QED BY <1>1, <1>2, <1>3, WritesKnown, WritesClear, WritesLimit DEF Inv

LEMMA CreateInv ==
  ASSUME Inv, NEW r \in Request, Create(r)
  PROVE  Inv'
  <1> DEFINE q == request[r]
             b == NewRow
  <1>1. b \in Booking
    BY DEF Create, NewRow
  <1>2. q \in RequestState /\ q.pc = "slot"
    BY DEF Inv, TypeOK, Create, Idle
  <1>3. q.page \in Page /\ q.host \in Host /\ q.start \in Time
    BY <1>2 DEF RequestState
  <1>4. PICK held \in BOOLEAN :
           booking' = [booking EXCEPT ![b] = [st |-> "LIVE", page |-> q.page,
                          host |-> q.host, start |-> q.start, held |-> held]]
    BY DEF Create
  <1> DEFINE row == [st |-> "LIVE", page |-> q.page, host |-> q.host, start |-> q.start,
                     held |-> held]
             m == [st |-> "on", host |-> q.host, start |-> q.start, first |-> q.host]
  <1>5. row \in BookingState /\ m \in MeetingState
    BY <1>3 DEF BookingState, MeetingState
  <1>6. booking[b].st = "none"
    BY DEF Create, NewRow
  <1>7. ~Made(b)
    BY <1>6 DEF Made, BookingState
  <1>8. Writes(r, b, row, m)
    BY <1>2, <1>4, <1>5, <1>7 DEF Create, Writes
  <1> HIDE DEF b, row, m
  <1> QED BY <1>1, <1>8, WritesInv

LEMMA RescheduleInv ==
  ASSUME Inv, NEW r \in Request, Reschedule(r)
  PROVE  Inv'
  <1> DEFINE q == request[r]
             b == q.of
  <1>1. q \in RequestState /\ q.pc = "slot"
    BY DEF Inv, TypeOK, Reschedule, Idle
  <1>2. b \in Booking /\ Made(b) /\ booking[b].page = q.page
    BY <1>1 DEF Inv, Knows, Own, Reschedule
  <1>3. q.page \in Page /\ q.host \in Host /\ q.start \in Time
    BY <1>1 DEF RequestState
  <1>4. PICK held \in BOOLEAN :
           booking' = [booking EXCEPT ![b] = [@ EXCEPT !.st = "LIVE", !.host = q.host,
                                              !.start = q.start, !.held = held]]
    BY DEF Reschedule
  <1> DEFINE row == [booking[b] EXCEPT !.st = "LIVE", !.host = q.host, !.start = q.start,
                                       !.held = held]
             m == Moved(meeting[b], q)
  <1>5. row \in BookingState /\ row.page = q.page /\ row.st = "LIVE"
        /\ row.host = q.host /\ row.start = q.start
    BY <1>2, <1>3 DEF Made, BookingState
  <1>6. m \in MeetingState /\ m.st = meeting[b].st /\ m.host = q.host /\ m.start = q.start
    BY <1>2, <1>3 DEF Made, MeetingState, Moved
  <1>7. m.st = "on" \/ b \in byHand \/ b \in revived'
    BY <1>2, <1>6 DEF Inv, RowsAgree, Excused, Reschedule
  <1>8. Writes(r, b, row, m)
    BY <1>1, <1>2, <1>4, <1>5, <1>6, <1>7 DEF Reschedule, Writes
  <1> HIDE DEF b, row, m
  <1> QED BY <1>2, <1>8, WritesInv

-----------------------------------------------------------------------------
LEMMA CancelInv ==
  ASSUME Inv, NEW r \in Request, Cancel(r)
  PROVE  Inv'
  <1>0. PICK b : b = request[r].of
    OBVIOUS
  <1>1. b \in Booking /\ Made(b)
    <2>1. b # Nobody
      BY <1>0, BookingAssumption DEF Inv, TypeOK, Cancel, RequestState, Idle
    <2> QED BY <1>0, <2>1 DEF Inv, Knows, Own
  <1>2. /\ booking'[b] = [booking[b] EXCEPT !.st = "CANCELLED", !.held = FALSE]
        /\ meeting'[b] = [meeting[b] EXCEPT !.st = "off"]
        /\ \A c \in Booking : c # b => booking'[c] = booking[c] /\ meeting'[c] = meeting[c]
    BY <1>0, <1>1 DEF Inv, TypeOK, Cancel
  <1>3. /\ booking'[b] \in BookingState /\ meeting'[b] \in MeetingState
        /\ booking'[b].st = "CANCELLED" /\ meeting'[b].st = "off"
        /\ booking'[b].page = booking[b].page
    BY <1>1, <1>2 DEF Made, BookingState, MeetingState
  <1>4. /\ ~Live(b)'
        /\ \A c \in Booking : c # b => (Live(c)' <=> Live(c)) /\ (Excused(c)' <=> Excused(c))
    BY <1>0, <1>2, <1>3 DEF Live, Excused, Cancel
  <1>5. TypeOK'
    <2>1. booking' \in [Booking -> {NoBooking} \cup BookingState]
      BY <1>0, <1>1, <1>2, <1>3 DEF Inv, TypeOK, Cancel
    <2>2. meeting' \in [Booking -> {NoMeeting} \cup MeetingState]
      BY <1>0, <1>1, <1>2, <1>3 DEF Inv, TypeOK, Cancel
    <2>3. /\ request' \in [Request -> {Idle} \cup RequestState] /\ edits' \in 0..MaxEdits
          /\ since' \in [Request -> SUBSET Booking] /\ saw' \subseteq Booking \X Booking
          /\ byHand' \subseteq Booking /\ revived' \subseteq Booking
      BY <1>0 DEF Inv, TypeOK, Cancel, Without
    <2> QED BY <2>1, <2>2, <2>3 DEF TypeOK
  <1>6. Rows'
    BY <1>2, <1>3 DEF Inv, Rows, Made, Blank
  <1>7. RowsAgree'
    <2> SUFFICES ASSUME NEW c \in Booking
                 PROVE  /\ Live(c)' /\ ~Excused(c)' => /\ meeting'[c].st = "on"
                                                       /\ meeting'[c].host = booking'[c].host
                                                       /\ meeting'[c].start = booking'[c].start
                        /\ booking'[c].st = "CANCELLED" /\ c \notin byHand'
                             => meeting'[c].st = "off"
      BY DEF RowsAgree
    <2>1. CASE c = b
      BY <1>3, <1>4, <2>1
    <2>2. CASE c # b
      <3>1. byHand' = byHand
        BY DEF Cancel
      <3> QED BY <1>2, <1>4, <2>2, <3>1 DEF Inv, RowsAgree
    <2> QED BY <2>1, <2>2
  <1>8. ASSUME NEW p, NEW h, NEW k, NEW i
        PROVE  Booked(p, h, k, i)' \subseteq Booked(p, h, k, i) \ {b}
    <2> SUFFICES ASSUME NEW c \in Booked(p, h, k, i)' PROVE c \in Booked(p, h, k, i) \ {b}
      OBVIOUS
    <2>1. /\ c \in Booking /\ Live(c)' /\ booking'[c].page = p /\ booking'[c].host = h
          /\ Part(k, booking'[c].start) = i
      BY DEF Booked, Part
    <2>2. c # b
      BY <1>4, <2>1
    <2>3. booking'[c] = booking[c] /\ Live(c)
      BY <1>2, <1>4, <2>1, <2>2
    <2> QED BY <2>1, <2>2, <2>3 DEF Booked
  <1>9. NoDoubleBooking'
    <2>1. \A x, c \in Booking : <<x, c>> \in saw' => x # b /\ c # b /\ <<x, c>> \in saw
      BY <1>0 DEF Cancel, Without
    <2> QED BY <1>2, <1>4, <2>1 DEF Inv, NoDoubleBooking
  <1>10. LimitKept'
    <2> SUFFICES ASSUME NEW p \in Page, NEW h \in Host, NEW k \in Period, NEW t \in Time,
                        Limit[p][k] > 0,
                        NEW S \in SUBSET Booked(p, h, k, Part(k, t))', InView(S)'
                 PROVE  Cardinality(S) <= Limit[p][k]
      BY DEF LimitKept
    <2>1. S \subseteq Booked(p, h, k, Part(k, t)) /\ b \notin S
      BY <1>8
    <2>2. InView(S)
      BY <1>0, <2>1 DEF InView, Cancel, Without
    <2> QED BY <2>1, <2>2 DEF Inv, LimitKept
  <1>11. \A x \in Request : Knows(request[x], since[x])'
    <2> SUFFICES ASSUME NEW x \in Request PROVE Knows(request[x], since[x])'
      OBVIOUS
    <2>1. CASE x = r
      <3>1. request'[x] = Idle
        BY <2>1 DEF Inv, TypeOK, Cancel
      <3>2. (Knows(Idle, since[x]))'
        BY DEF Knows, Own, Apart, Room, Idle
      <3> QED BY <3>1, <3>2
    <2>2. CASE x # r
      <3>0. PICK q : q = request[x]
        OBVIOUS
      <3>1. request'[x] = q /\ since'[x] = since[x] \ {b} /\ Knows(q, since[x])
        BY <1>0, <2>2, <3>0 DEF Inv, TypeOK, Cancel
      <3>2. Own(q)'
        BY <1>2, <1>3, <3>1 DEF Knows, Own, Made
      <3>3. Apart(q, since[x])'
        <4> SUFFICES ASSUME q.pc = "slot" \/ q.pc = "seen", NEW c \in Booking \ since'[x],
                            Live(c)', ~Excused(c)', booking'[c].host = q.host
                     PROVE  Clear(q.page, q.start, booking'[c].page, booking'[c].start)
          BY DEF Apart
        <4>1. c # b /\ c \in Booking \ since[x]
          BY <1>4, <3>1
        <4> QED BY <1>2, <1>4, <3>1, <4>1 DEF Knows, Apart
      <3>4. Room(q, since[x])'
        <4> SUFFICES ASSUME q.pc = "slot", NEW k \in Period, Limit[q.page][k] > 0
                     PROVE  Cardinality(Booked(q.page, q.host, k, Part(k, q.start))' \ since'[x])
                              < Limit[q.page][k]
          BY DEF Room
        <4> DEFINE B == Booked(q.page, q.host, k, Part(k, q.start))
        <4>1. Cardinality(B \ since[x]) < Limit[q.page][k]
          BY <3>1 DEF Knows, Room
        <4>2. B' \ since'[x] \subseteq B \ since[x]
          <5>1. B' \subseteq B \ {b}
            BY <1>8
          <5> HIDE DEF B
          <5> QED BY <3>1, <5>1
        <4>3. B \subseteq Booking
          BY BookedIn
        <4>4. q.page \in Page
          BY <3>0 DEF Inv, TypeOK, RequestState, Idle
        <4> HIDE DEF B
        <4>5. /\ Cardinality(B' \ since'[x]) <= Cardinality(B \ since[x])
              /\ Cardinality(B' \ since'[x]) \in Nat /\ Cardinality(B \ since[x]) \in Nat
          BY <4>2, <4>3, Smaller
        <4> QED BY <4>1, <4>4, <4>5, Bounds DEF B
      <3> QED BY <3>1, <3>2, <3>3, <3>4 DEF Knows
    <2> QED BY <2>1, <2>2
  <1> QED BY <1>5, <1>6, <1>7, <1>9, <1>10, <1>11 DEF Inv

-----------------------------------------------------------------------------
LEMMA NextInv == Inv /\ [Next]_vars => Inv'
  <1> SUFFICES ASSUME Inv, [Next]_vars PROVE Inv'
    OBVIOUS
  <1>1. ASSUME NEW r \in Request, RequestStep(r)
        PROVE  Inv'
    <2>1. CASE AskForBooking(r)
      <3>1. PICK p \in Page, t \in Time : Looking(r, Nobody, p, t)
        BY <2>1 DEF AskForBooking
      <3> QED BY <3>1, LookingInv
    <2>2. CASE AskToReschedule(r) \/ AskToCancel(r)
      BY <2>2, OpenInv DEF AskToReschedule, AskToCancel
    <2> QED BY <1>1, <2>1, <2>2, ReadMeetingsInv, ReadCountsInv, CreateInv, RescheduleInv,
               CancelInv, BreakOffInv DEF RequestStep
  <1>2. ASSUME NEW b \in Booking, MoveMeeting(b) \/ SetStatus(b) \/ RemoveAttendee(b)
        PROVE  Inv'
    BY <1>2, EditInv
  <1>3. CASE UNCHANGED vars
    <2>1. TypeOK' /\ Rows' /\ RowsAgree'
      BY <1>3 DEF vars, Inv, TypeOK, Rows, Made, Blank, RowsAgree, Live, Excused
    <2>2. NoDoubleBooking' /\ LimitKept'
      BY <1>3, SameBookings DEF vars
    <2>3. \A y, S : Knows(y, S)' = Knows(y, S)
      BY <1>3 DEF vars, Knows, Own, Made, Apart, Room, Live, Excused, Booked
    <2>4. \A r \in Request : Knows(request[r], since[r])'
      BY <1>3, <2>3 DEF vars, Inv
    <2> QED BY <2>1, <2>2, <2>4 DEF Inv
  <1> QED BY <1>1, <1>2, <1>3 DEF Next

(***************************************************************************)
(* Bookings, meetings and requests are of the types the schema and the     *)
(* handlers give them: no request writes a row that is not there.          *)
(***************************************************************************)
THEOREM TypeCorrect == Spec => []TypeOK
  <1>1. Inv => TypeOK
    BY DEF Inv
  <1> QED BY <1>1, InitInv, NextInv, PTL DEF Spec

(***************************************************************************)
(* A host is booked twice, or without the buffers, only by requests that   *)
(* overlap, by a host's own change or by a booking moved after it was      *)
(* cancelled.                                                              *)
(***************************************************************************)
THEOREM DoubleBookingRefused == Spec => []NoDoubleBooking
  <1>1. Inv => NoDoubleBooking
    BY DEF Inv
  <1> QED BY <1>1, InitInv, NextInv, PTL DEF Spec

(***************************************************************************)
(* The limit of a day or a week holds of bookings that were written with   *)
(* one another in view.                                                    *)
(***************************************************************************)
THEOREM LimitsHold == Spec => []LimitKept
  <1>1. Inv => LimitKept
    BY DEF Inv
  <1> QED BY <1>1, InitInv, NextInv, PTL DEF Spec

(***************************************************************************)
(* A booking and its meeting agree in status, host and time, but for a     *)
(* host's changes and the bookings moved after they had been cancelled.    *)
(***************************************************************************)
THEOREM BookingsAgree == Spec => []RowsAgree
  <1>1. Inv => RowsAgree
    BY DEF Inv
  <1> QED BY <1>1, InitInv, NextInv, PTL DEF Spec
=============================================================================
