---------------------------- MODULE Reservations ----------------------------
(***************************************************************************)
(* Bookings of PCs from the mobile client, in a database that many         *)
(* requests use at once.  Time runs in units of 15 minutes, the lead and   *)
(* the arrival window of a booking.  A request is a transaction or a       *)
(* sequence of statements: what it has read is kept in its record until    *)
(* it writes.  Sessions of the PCs are only as detailed as the bookings    *)
(* need them; GrantSession has their life.                                 *)
(***************************************************************************)
EXTENDS Naturals, Sequences, FiniteSets

CONSTANTS Player, PC, None,
          Starts, Lengths,   \* when a booking may begin, how long it may be
          MaxAhead,      \* how far ahead a booking may start
          SessionTime,   \* length of a session
          MaxRequests,   \* bound on the requests in progress
          MaxBookings,   \* bound on the bookings
          MaxSessions,   \* bound on the sessions
          MaxNow         \* bound on the clock

ASSUME PlayerAssumption == None \notin Player
Lead == 1       \* reservationLeadTime
Arrival == 1    \* reservationArrivalWindow

ASSUME TimeAssumption ==
  /\ \A s \in Starts : s \in Nat /\ s + Arrival < MaxNow
  /\ Lengths \subseteq Nat \ {0} /\ SessionTime \in Nat \ {0}
  /\ MaxAhead \in Nat \ {0} /\ MaxRequests \in Nat
  /\ MaxBookings \in Nat /\ MaxSessions \in Nat /\ MaxNow \in Nat

VARIABLES
  now,
  bookings,   \* mobile_reservations, by id
  reqs,       \* the requests in progress, with what they have read
  session,    \* the accepted grant of each PC
  past        \* the ended grants, in the order they ended

vars == <<now, bookings, reqs, session, past>>

Id == DOMAIN bookings
\* checked_in is still read, but nothing writes it any more.
Status == {"confirmed", "started", "cancelled", "expired", "completed"}
Open == {"confirmed", "started"}

TypeOK ==
  /\ now \in 0..MaxNow
  /\ bookings \in Seq([player : Player, pc : PC, start : Starts, length : Lengths,
                       status : Status])
  /\ Len(bookings) <= MaxBookings
  /\ Cardinality(reqs) <= MaxRequests
  /\ \A q \in reqs :
       /\ q.kind \in {"create", "move", "start", "order", "grant"}
       /\ q.kind \in {"create", "move"} => q.step \in {"begun", "checked"} /\ q.began <= now
       /\ q.kind \in {"move", "start"} => q.id \in Id
  /\ \A c \in PC : session[c] = None \/ session[c].since <= now
  /\ \A i \in DOMAIN past : past[i].since <= past[i].ended /\ past[i].ended <= now

Init ==
  /\ now = 0
  /\ bookings = <<>>
  /\ reqs = {}
  /\ session = [c \in PC |-> None]
  /\ past = <<>>

-----------------------------------------------------------------------------
\* The time a booking keeps its PC: from the hold to the end of a session
\* that began at the end of the arrival window.
Overlap(s, l, b) == b.start - Lead < s + l + Arrival /\ b.start + b.length + Arrival > s - Lead

\* reservationAllowsPlayerSession and others: within 15 minutes of the start.
InWindow(b, t) == b.start <= t + Lead /\ b.start + Arrival >= t

Owned(p, c) == {i \in Id : bookings[i].player = p /\ bookings[i].pc = c}

Set(ids, new) == [i \in Id |-> IF i \in ids THEN [bookings[i] EXCEPT !.status = new] ELSE bookings[i]]

\* A transaction keeps its advisory locks, and the row it locked, to its end.
PlayerLocked(p) == \E q \in reqs : q.kind = "create" /\ q.player = p

PcLocked(c) ==
  \E q \in reqs : q.kind \in {"create", "move"} /\ q.step = "checked" /\ q.pc = c

RowLocked(i) == \E q \in reqs : q.kind = "move" /\ q.id = i

Begin(q) == Cardinality(reqs) < MaxRequests /\ reqs' = reqs \cup {q}
Replace(q, new) == reqs' = (reqs \ {q}) \cup {new}
Finish(q) == reqs' = reqs \ {q}

-----------------------------------------------------------------------------
(***************************************************************************)
(* handleMobileReservationCreate: lock the player, see that he has no      *)
(* booking; lock the PC, see that it is free; insert, commit.              *)
(***************************************************************************)
HasBooking(p, t) ==
  \E i \in Id : bookings[i].player = p /\ bookings[i].status = "confirmed"
                /\ bookings[i].start + Arrival >= t

\* Mutant: the player is not locked.
BeginCreateUnlocked(p, c, s, l) ==
  /\ s \in (now + Lead)..(now + MaxAhead)
  /\ ~HasBooking(p, now)
  /\ Begin([kind |-> "create", step |-> "begun", player |-> p, pc |-> c,
            start |-> s, length |-> l, began |-> now])
  /\ UNCHANGED <<now, bookings, session, past>>

BeginCreate(p, c, s, l) ==
  /\ s \in (now + Lead)..(now + MaxAhead)
  /\ ~PlayerLocked(p)
  /\ ~HasBooking(p, now)
  /\ Begin([kind |-> "create", step |-> "begun", player |-> p, pc |-> c,
            start |-> s, length |-> l, began |-> now])
  /\ UNCHANGED <<now, bookings, session, past>>

\* handleMobileReservationReschedule: lock the row, then the PC; update, commit.
BeginMove(i, s, l) ==
  /\ s \in (now + Lead)..(now + MaxAhead)
  /\ ~RowLocked(i)
  /\ bookings[i].status = "confirmed" /\ bookings[i].start > now + Lead
  /\ Begin([kind |-> "move", step |-> "begun", id |-> i, pc |-> bookings[i].pc,
            start |-> s, length |-> l, began |-> now])
  /\ UNCHANGED <<now, bookings, session, past>>

Reserved(q) ==
  \E i \in Id :
    /\ bookings[i].pc = q.pc /\ bookings[i].status = "confirmed"
    /\ q.kind = "move" => i # q.id
    /\ Overlap(q.start, q.length, bookings[i])

Busy(q) == session[q.pc] # None /\ session[q.pc].until > q.start - Lead

\* Mutant: the PC is checked, but not locked.
CheckPcUnlocked(q) ==
  /\ q.kind \in {"create", "move"} /\ q.step = "begun"
  /\ IF Reserved(q) \/ Busy(q)
       THEN Finish(q)
       ELSE Replace(q, [q EXCEPT !.step = "checked"])
  /\ UNCHANGED <<now, bookings, session, past>>

CheckPc(q) ==
  /\ q.kind \in {"create", "move"} /\ q.step = "begun"
  /\ ~PcLocked(q.pc)
  /\ IF Reserved(q) \/ Busy(q)
       THEN Finish(q)
       ELSE Replace(q, [q EXCEPT !.step = "checked"])
  /\ UNCHANGED <<now, bookings, session, past>>

Commit(q) ==
  /\ q.kind \in {"create", "move"} /\ q.step = "checked"
  /\ IF q.kind = "create"
       THEN /\ Len(bookings) < MaxBookings
            /\ bookings' = Append(bookings, [player |-> q.player, pc |-> q.pc, start |-> q.start,
                                             length |-> q.length, status |-> "confirmed"])
       ELSE bookings' = [bookings EXCEPT ![q.id].start = q.start, ![q.id].length = q.length]
  /\ Finish(q)
  /\ UNCHANGED <<now, session, past>>

\* The client goes away or the database fails: the transaction rolls back.
Abort(q) ==
  /\ q.kind # "grant"
  /\ Finish(q)
  /\ UNCHANGED <<now, bookings, session, past>>

\* handleMobileReservationCancel, one UPDATE.
Cancel(i) ==
  /\ ~RowLocked(i)
  /\ bookings[i].status = "confirmed" /\ bookings[i].start > now + Lead
  /\ bookings' = Set({i}, "cancelled")
  /\ UNCHANGED <<now, reqs, session, past>>

(***************************************************************************)
(* handleMobileReservationStart: its SELECT ... FOR UPDATE is a statement  *)
(* of its own, the row is free again when the unconditional UPDATE comes.  *)
(***************************************************************************)
\* Mutant: the booking need not be due.
BeginStartEarly(i) ==
  /\ ~RowLocked(i)
  /\ bookings[i].status = "confirmed"
  /\ Begin([kind |-> "start", id |-> i])
  /\ UNCHANGED <<now, bookings, session, past>>

BeginStart(i) ==
  /\ ~RowLocked(i)
  /\ bookings[i].status = "confirmed" /\ InWindow(bookings[i], now)
  /\ Begin([kind |-> "start", id |-> i])
  /\ UNCHANGED <<now, bookings, session, past>>

Start(q) ==
  /\ q.kind = "start"
  /\ ~RowLocked(q.id)
  /\ bookings' = Set({q.id}, "started")
  /\ Finish(q)
  /\ UNCHANGED <<now, session, past>>

-----------------------------------------------------------------------------
(***************************************************************************)
(* Sessions.  A held PC is the owner's: the first booking in its window    *)
(* decides.                                                                *)
(***************************************************************************)
ReservationAllowsPlayerSession(p, c) ==
  LET held == {i \in Id : bookings[i].pc = c /\ bookings[i].status \in Open
                          /\ InWindow(bookings[i], now)}
  IN \A i \in held :
       (\A j \in held : bookings[i].start <= bookings[j].start) => bookings[i].player = p

MayAsk(p, c) ==
  /\ session[c] = None
  /\ Len(past) + Cardinality({d \in PC : session[d] # None}) < MaxSessions
  /\ ReservationAllowsPlayerSession(p, c)

\* A checkout is let through and paid later, maybe when the PC has been booked.
\* A walk-in is to the bookings what any other player is.
Checkout(p, c) ==
  /\ MayAsk(p, c)
  /\ Begin([kind |-> "order", player |-> p, pc |-> c])
  /\ UNCHANGED <<now, bookings, session, past>>

Due(p, c) == {i \in Owned(p, c) : bookings[i].status = "confirmed" /\ InWindow(bookings[i], now)}

Use(ids) == (\A i \in ids : ~RowLocked(i)) /\ bookings' = Set(ids, "started")

\* redeemPlayerBalanceToPC: the grant, its debit and the booking in one commit.
Redeem(p, c) ==
  /\ MayAsk(p, c)
  /\ Use(Due(p, c))
  /\ Begin([kind |-> "grant", player |-> p, pc |-> c])
  /\ UNCHANGED <<now, session, past>>

\* startPendingEdgeGrants: the session is confirmed, the booking consumed.
SessionStarts(q) ==
  /\ q.kind \in {"order", "grant"}
  /\ session[q.pc] = None
  /\ Len(past) + Cardinality({d \in PC : session[d] # None}) < MaxSessions
  /\ session' = [session EXCEPT ![q.pc] = [player |-> q.player, since |-> now,
                                           until |-> now + SessionTime]]
  /\ Use(Due(q.player, q.pc))
  /\ Finish(q)
  /\ UNCHANGED <<now, past>>

\* A session that cannot be started is given up.
SessionFails(q) ==
  /\ q.kind = "grant"
  /\ Finish(q)
  /\ UNCHANGED <<now, bookings, session, past>>

\* Mutant: the end of a session completes every booking of its player.
ConsumedByAny(s, c) == {i \in Owned(s.player, c) : bookings[i].status \in Open}

\* finishGrant: "Never touch a future booking."
Consumed(s, c) == {i \in Owned(s.player, c) : bookings[i].status \in Open /\ bookings[i].start <= now}

SessionEnds(c) ==
  /\ session[c] # None
  /\ LET s == session[c]
     IN /\ \A i \in Consumed(s, c) : ~RowLocked(i)
        /\ bookings' = Set(Consumed(s, c), "completed")
        /\ past' = Append(past, [player |-> s.player, pc |-> c, since |-> s.since, ended |-> now])
  /\ session' = [session EXCEPT ![c] = None]
  /\ UNCHANGED <<now, reqs>>

-----------------------------------------------------------------------------
\* Mutant: only bookings that were never used expire.
OverdueConfirmed == {i \in Id : bookings[i].status = "confirmed" /\ bookings[i].start + Arrival < now}

Overdue == {i \in Id : bookings[i].status \in Open /\ bookings[i].start + Arrival < now}

\* resolveCompletedReservations: a session in the window, ended before the start.
Resolved ==
  {i \in Id :
     /\ bookings[i].status \in Open /\ bookings[i].start <= now
     /\ \E k \in DOMAIN past :
          /\ past[k].player = bookings[i].player /\ past[k].pc = bookings[i].pc
          /\ past[k].since >= bookings[i].start - Lead}

\* The sweep of the kiosk's bootstrap and of the list of bookings.
Sweep ==
  /\ Overdue \cup Resolved # {}
  /\ \A i \in Overdue \cup Resolved : ~RowLocked(i)
  /\ bookings' = [i \in Id |->
                    IF i \in Overdue THEN [bookings[i] EXCEPT !.status = "expired"]
                    ELSE IF i \in Resolved THEN [bookings[i] EXCEPT !.status = "completed"]
                    ELSE bookings[i]]
  /\ UNCHANGED <<now, reqs, session, past>>

\* A transaction of a booking takes seconds, so it sees the clock move once.
Tick ==
  /\ now < MaxNow
  /\ \A q \in reqs : q.kind \in {"create", "move"} => q.began = now
  /\ now' = now + 1
  /\ UNCHANGED <<bookings, reqs, session, past>>

Next ==
  \/ \E p \in Player, c \in PC, s \in Starts, l \in Lengths : BeginCreate(p, c, s, l)
  \/ \E i \in Id, s \in Starts, l \in Lengths : BeginMove(i, s, l)
  \/ \E q \in reqs : CheckPc(q)
  \/ \E q \in reqs : Commit(q)
  \/ \E q \in reqs : Abort(q)
  \/ \E i \in Id : Cancel(i)
  \/ \E i \in Id : BeginStart(i)
  \/ \E q \in reqs : Start(q)
  \/ \E p \in Player, c \in PC : Checkout(p, c)
  \/ \E p \in Player, c \in PC : Redeem(p, c)
  \/ \E q \in reqs : SessionStarts(q)
  \/ \E q \in reqs : SessionFails(q)
  \/ \E c \in PC : SessionEnds(c)
  \/ Sweep
  \/ Tick

(***************************************************************************)
(* Fairness.  The kiosk of every PC asks for its bootstrap again and again *)
(* (the sweep), time passes, and a transaction ends.                       *)
(***************************************************************************)
Fairness ==
  /\ WF_vars(Sweep) /\ WF_vars(Tick)
  /\ WF_vars(\E q \in reqs : q.kind \in {"create", "move"} /\ q.began < now /\ (Abort(q) \/ Commit(q)))

Spec == Init /\ [][Next]_vars /\ Fairness

-----------------------------------------------------------------------------
(***************************************************************************)
(* A PC is never promised twice: the windows of two confirmed bookings of  *)
(* it do not overlap, whatever is booked, moved and cancelled at once.     *)
(***************************************************************************)
NoDoubleBooking ==
  \A i, j \in Id :
    i # j /\ bookings[i].pc = bookings[j].pc
          /\ bookings[i].status = "confirmed" /\ bookings[j].status = "confirmed"
      => ~Overlap(bookings[i].start, bookings[i].length, bookings[j])

(***************************************************************************)
(* "One player can hold one future/current reservation at a time", in all  *)
(* clubs together, although the bookings of a player are for different PCs *)
(* and a moved booking takes no lock of its player.                        *)
(***************************************************************************)
OnePerPlayer ==
  \A i, j \in Id :
    i # j /\ bookings[i].player = bookings[j].player
          /\ bookings[i].status = "confirmed" /\ bookings[j].status = "confirmed"
      => bookings[i].start + Arrival < now \/ bookings[j].start + Arrival < now

(***************************************************************************)
(* A completed booking was used: a session of its owner on its PC came up  *)
(* to the booking's window.  The end of an earlier session never takes a   *)
(* booking that is still to come.                                          *)
(***************************************************************************)
CompletedWasUsed ==
  \A i \in Id :
    bookings[i].status = "completed" =>
      \E k \in DOMAIN past :
        /\ past[k].player = bookings[i].player /\ past[k].pc = bookings[i].pc
        /\ past[k].ended >= bookings[i].start - Lead

(***************************************************************************)
(* A cancelled booking stays cancelled, although a start that has read the *)
(* booking before writes it without looking again.                         *)
(***************************************************************************)
CancelledStays ==
  [][\A i \in Id : bookings[i].status = "cancelled" => bookings'[i].status = "cancelled"]_vars

(***************************************************************************)
(* No booking keeps its PC for good: whoever comes or does not come, every *)
(* booking is in the end cancelled, expired or completed.                  *)
(***************************************************************************)
BookingsClose == <>[](\A i \in Id : bookings[i].status \notin Open)
=============================================================================
