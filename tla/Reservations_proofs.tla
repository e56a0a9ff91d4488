------------------------- MODULE Reservations_proofs -------------------------
(***************************************************************************)
(* For every set of players and PCs and every bound: what Reservations     *)
(* checks of its bookings, but for the liveness.  The inductive invariant  *)
(* says what a request may still rely on when it commits, because of the   *)
(* locks it holds: the PC it found free is free, the player it found       *)
(* without a booking has none, the row it moves is as it was.              *)
(* The second part is about Operations, the other state of the mobile app. *)
(***************************************************************************)
EXTENDS Reservations, Operations, TLAPS, SequenceTheorems

Booking == [player : Player, pc : PC, start : Starts, length : Lengths, status : Status]

CreateReq == [kind : {"create"}, step : {"begun", "checked"}, player : Player, pc : PC,
              start : Starts, length : Lengths, began : Nat]
MoveReq == [kind : {"move"}, step : {"begun", "checked"}, id : Nat, pc : PC,
            start : Starts, length : Lengths, began : Nat]
StartReq == [kind : {"start"}, id : Nat]
SessionReq == [kind : {"order", "grant"}, player : Player, pc : PC]
Req == CreateReq \cup MoveReq \cup StartReq \cup SessionReq

Session == [player : Player, since : Nat, until : Nat]
Past == [player : Player, pc : PC, since : Nat, ended : Nat]

RowsOK == now \in Nat /\ bookings \in Seq(Booking)
SessionsOK ==
  /\ session \in [PC -> Session \cup {None}]
  /\ \A c \in PC : session[c] # None => session[c].since <= now
  /\ past \in Seq(Past) /\ \A k \in DOMAIN past : past[k].since <= past[k].ended

-----------------------------------------------------------------------------
\* What a request in progress may rely on.
Books(q) == q.kind \in {"create", "move"}

Confirmed(i) == bookings[i].status = "confirmed"

Recent(q) == Books(q) => q.began <= now /\ now <= q.began + 1

NoneOfPlayer(q) ==
  q.kind = "create" =>
    \A i \in Id : bookings[i].player = q.player /\ Confirmed(i) => bookings[i].start + Arrival < now

RowKept(q) ==
  q.kind = "move" =>
    q.id \in Id /\ Confirmed(q.id) /\ bookings[q.id].pc = q.pc /\ bookings[q.id].start > q.began + Lead

PcFree(q) == Books(q) /\ q.step = "checked" => ~Reserved(q)

MayStart(q) ==
  q.kind = "start" =>
    q.id \in Id /\ bookings[q.id].start <= now + Lead /\ bookings[q.id].status # "cancelled"

Fine(q) == Recent(q) /\ NoneOfPlayer(q) /\ RowKept(q) /\ PcFree(q) /\ MayStart(q)

\* Two requests that would disturb one another.
Clash(q, r) ==
  \/ q.kind = "create" /\ r.kind = "create" /\ q.player = r.player
  \/ q.kind = "move" /\ r.kind = "move" /\ q.id = r.id
  \/ q.kind = "start" /\ r.kind = "move" /\ q.id = r.id
  \/ Books(q) /\ Books(r) /\ q.step = "checked" /\ r.step = "checked" /\ q.pc = r.pc

RequestsOK ==
  /\ reqs \subseteq Req
  /\ \A q \in reqs : Fine(q)
  /\ \A q, r \in reqs : Clash(q, r) => q = r

Promises == NoDoubleBooking /\ OnePerPlayer /\ CompletedWasUsed

Inv == RowsOK /\ SessionsOK /\ RequestsOK /\ Promises

USE DEF Lead, Arrival, Id

-----------------------------------------------------------------------------
LEMMA Numbers == \A s \in Starts : s \in Nat
BY TimeAssumption

LEMMA LengthsAre == \A l \in Lengths : l \in Nat
BY TimeAssumption

LEMMA Rows ==
  ASSUME RowsOK, NEW i \in Id
  PROVE  /\ i \in Nat /\ bookings[i] \in Booking
         /\ bookings[i].start \in Nat /\ bookings[i].length \in Nat
<1>1. bookings \in [1..Len(bookings) -> Booking] /\ DOMAIN bookings = 1..Len(bookings)
  BY LenProperties DEF RowsOK
<1>2. i \in Nat /\ bookings[i] \in Booking
  BY <1>1
<1> QED BY <1>2, Numbers, LengthsAre DEF Booking

LEMMA Kinds ==
  ASSUME NEW q \in Req
  PROVE  /\ q.kind \in {"create", "move", "start", "order", "grant"}
         /\ q.kind = "create" => q \in CreateReq
         /\ q.kind = "move" => q \in MoveReq
         /\ q.kind = "start" => q \in StartReq
         /\ q.kind \in {"order", "grant"} => q \in SessionReq
         /\ Books(q) => q.start \in Nat /\ q.length \in Nat /\ q.began \in Nat /\ q.pc \in PC
BY Numbers, LengthsAre DEF Req, CreateReq, MoveReq, StartReq, SessionReq, Books

LEMMA InitInv == ASSUME Init PROVE Inv
<1>1. RowsOK /\ SessionsOK
  BY EmptySeq DEF Init, RowsOK, SessionsOK
<1>2. RequestsOK
  BY DEF Init, RequestsOK
<1>3. Id = {}
  BY DEF Init
<1> QED BY <1>1, <1>2, <1>3 DEF Inv, Promises, NoDoubleBooking, OnePerPlayer, CompletedWasUsed

-----------------------------------------------------------------------------
(***************************************************************************)
(* Steps that confirm nothing and move nothing: a status changes.          *)
(***************************************************************************)
Fades ==
  /\ bookings' \in Seq(Booking) /\ DOMAIN bookings' = DOMAIN bookings
  /\ \A i \in Id :
       /\ bookings'[i].player = bookings[i].player /\ bookings'[i].pc = bookings[i].pc
       /\ bookings'[i].start = bookings[i].start /\ bookings'[i].length = bookings[i].length
       /\ bookings'[i].status # bookings[i].status => bookings'[i].status # "confirmed"

\* No step of others takes what a request relies on.
Spares(q) ==
  /\ q.kind = "move" => bookings'[q.id].status = bookings[q.id].status
  /\ q.kind = "start" => bookings'[q.id].status # "cancelled" \/ bookings[q.id].status = "cancelled"

LEMMA Unchanged == ASSUME RowsOK, UNCHANGED bookings PROVE Fades
BY DEF Fades, RowsOK

LEMMA FadesKeepsFine ==
  ASSUME RowsOK, Fades, now' = now, NEW q, Fine(q), Spares(q)
  PROVE  Fine(q)'
<1>1. Recent(q)'
  BY DEF Fine, Recent, Books
<1>2. NoneOfPlayer(q)'
  BY DEF Fine, NoneOfPlayer, Fades, Confirmed
<1>3. RowKept(q)'
  BY DEF Fine, RowKept, Fades, Spares, Confirmed
<1>4. PcFree(q)'
  BY DEF Fine, PcFree, Fades, Reserved, Overlap, Books
<1>5. MayStart(q)'
  BY DEF Fine, MayStart, Fades, Spares
<1> QED BY <1>1, <1>2, <1>3, <1>4, <1>5 DEF Fine

LEMMA FadesKeepsPromises ==
  ASSUME RowsOK, Fades, now' = now, NoDoubleBooking, OnePerPlayer
  PROVE  RowsOK' /\ NoDoubleBooking' /\ OnePerPlayer'
<1>1. NoDoubleBooking'
  BY DEF NoDoubleBooking, Fades, Overlap
<1>2. OnePerPlayer'
  BY DEF OnePerPlayer, Fades
<1> QED BY <1>1, <1>2 DEF RowsOK, Fades

PastGrows ==
  DOMAIN past \subseteq DOMAIN past' /\ \A k \in DOMAIN past : past'[k] = past[k]

\* Someone who came for booking i.
UsedIn(i, k) ==
  /\ past[k].player = bookings[i].player /\ past[k].pc = bookings[i].pc
  /\ past[k].ended >= bookings[i].start - Lead

LEMMA FadesKeepsUsed ==
  ASSUME RowsOK, Fades, PastGrows, CompletedWasUsed,
         \A i \in Id : bookings'[i].status = "completed" /\ bookings[i].status # "completed"
                         => \E k \in DOMAIN past' : UsedIn(i, k)'
  PROVE  CompletedWasUsed'
<1>1. SUFFICES ASSUME NEW i \in Id, bookings'[i].status = "completed"
               PROVE  \E k \in DOMAIN past' : UsedIn(i, k)'
  BY DEF CompletedWasUsed, UsedIn, Fades
<1>2. CASE bookings[i].status = "completed"
  <2>1. PICK k \in DOMAIN past : UsedIn(i, k)
    BY <1>2 DEF CompletedWasUsed, UsedIn
  <2>2. k \in DOMAIN past' /\ past'[k] = past[k]
    BY DEF PastGrows
  <2> QED BY <2>1, <2>2 DEF UsedIn, Fades
<1> QED BY <1>1, <1>2

LEMMA FadesKeepsRequests ==
  ASSUME RowsOK, RequestsOK, Fades, now' = now, reqs' \subseteq reqs \cup SessionReq,
         \A q \in reqs \cap reqs' : Spares(q)
  PROVE  RequestsOK'
<1>1. reqs' \subseteq Req
  BY DEF RequestsOK, Req
<1>2. ASSUME NEW q \in reqs' PROVE Fine(q)'
  <2>1. CASE q \in reqs
    BY <2>1, FadesKeepsFine DEF RequestsOK
  <2>2. CASE q \in SessionReq
    BY <2>2 DEF SessionReq, Fine, Recent, NoneOfPlayer, RowKept, PcFree, MayStart, Books
  <2> QED BY <2>1, <2>2
<1>3. ASSUME NEW q \in reqs', NEW r \in reqs', Clash(q, r) PROVE q = r
  <2>1. q \notin SessionReq /\ r \notin SessionReq
    BY <1>3 DEF SessionReq, Clash, Books
  <2> QED BY <1>3, <2>1 DEF RequestsOK
<1> QED BY <1>1, <1>2, <1>3 DEF RequestsOK, Clash, Books

(* A step that only changes the status of bookings, and spares the requests *)
(* in progress.                                                             *)
LEMMA FadingKeeps ==
  ASSUME Inv, Fades, now' = now, SessionsOK', PastGrows, reqs' \subseteq reqs \cup SessionReq,
         \A q \in reqs \cap reqs' : Spares(q),
         \A i \in Id : bookings'[i].status = "completed" /\ bookings[i].status # "completed"
                         => \E k \in DOMAIN past' : UsedIn(i, k)'
  PROVE  Inv'
<1>1. RowsOK' /\ NoDoubleBooking' /\ OnePerPlayer'
  BY FadesKeepsPromises DEF Inv, Promises
<1>2. RequestsOK'
  BY FadesKeepsRequests DEF Inv
<1>3. CompletedWasUsed'
  BY FadesKeepsUsed DEF Inv, Promises
<1> QED BY <1>1, <1>2, <1>3 DEF Inv, Promises

LEMMA SetFades ==
  ASSUME RowsOK, NEW ids, NEW new \in Status \ {"confirmed"}, bookings' = Set(ids, new)
  PROVE  /\ Fades
         /\ \A i \in Id : bookings'[i].status = IF i \in ids THEN new ELSE bookings[i].status
<1>1. Len(bookings) \in Nat /\ Id = 1..Len(bookings)
  BY LenProperties DEF RowsOK
<1>2. bookings' = [i \in Id |-> IF i \in ids THEN [bookings[i] EXCEPT !.status = new] ELSE bookings[i]]
  BY DEF Set
<1>3. ASSUME NEW i \in Id
      PROVE  /\ bookings'[i] \in Booking
             /\ bookings'[i].player = bookings[i].player /\ bookings'[i].pc = bookings[i].pc
             /\ bookings'[i].start = bookings[i].start /\ bookings'[i].length = bookings[i].length
             /\ bookings'[i].status = IF i \in ids THEN new ELSE bookings[i].status
  <2>1. bookings[i] \in Booking
    BY Rows
  <2> QED BY <1>2, <2>1 DEF Booking
<1>4. bookings' \in [1..Len(bookings) -> Booking]
  BY <1>1, <1>2, <1>3
<1>5. bookings' \in Seq(Booking) /\ DOMAIN bookings' = DOMAIN bookings
  BY <1>1, <1>2, <1>4
<1> QED BY <1>3, <1>5 DEF Fades

LEMMA SessionsStay == ASSUME SessionsOK, UNCHANGED <<now, session, past>> PROVE SessionsOK' /\ PastGrows
BY DEF SessionsOK, PastGrows

LEMMA LockSpares ==
  ASSUME RowsOK, RequestsOK, NEW ids \in SUBSET Id, NEW new \in Status \ {"confirmed", "cancelled"},
         \A i \in ids : ~RowLocked(i), bookings' = Set(ids, new)
  PROVE  \A q \in reqs : Spares(q)
<1>1. \A i \in Id : bookings'[i].status = IF i \in ids THEN new ELSE bookings[i].status
  BY SetFades
<1>2. ASSUME NEW q \in reqs PROVE Spares(q)
  <2>1. q.kind = "move" => q.id \in Id /\ q.id \notin ids
    BY <1>2 DEF RequestsOK, Fine, RowKept, RowLocked
  <2>2. q.kind = "start" => q.id \in Id
    BY <1>2 DEF RequestsOK, Fine, MayStart
  <2> QED BY <1>1, <2>1, <2>2 DEF Spares
<1> QED BY <1>2

-----------------------------------------------------------------------------
LEMMA CancelKeeps == ASSUME Inv, NEW i \in Id, Cancel(i) PROVE Inv'
<1>1. /\ ~RowLocked(i) /\ bookings[i].start > now + Lead
      /\ bookings' = Set({i}, "cancelled") /\ UNCHANGED <<now, reqs, session, past>>
  BY DEF Cancel
<1>2. Fades /\ \A j \in Id : bookings'[j].status = IF j = i THEN "cancelled" ELSE bookings[j].status
  BY <1>1, SetFades DEF Inv, Status
<1>3. ASSUME NEW q \in reqs PROVE Spares(q)
  <2>1. q.kind = "move" => q.id \in Id /\ q.id # i
    BY <1>1, <1>3 DEF Inv, RequestsOK, Fine, RowKept, RowLocked
  <2>2. bookings[i].start \in Nat /\ now \in Nat
    BY Rows DEF Inv, RowsOK
  <2>3. q.kind = "start" => q.id \in Id /\ q.id # i
    BY <1>1, <1>3, <2>2 DEF Inv, RequestsOK, Fine, MayStart
  <2> QED BY <1>2, <2>1, <2>3 DEF Spares
<1>4. SessionsOK' /\ PastGrows
  BY <1>1, SessionsStay DEF Inv
<1> QED BY <1>1, <1>2, <1>3, <1>4, FadingKeeps

LEMMA StartKeeps == ASSUME Inv, NEW q \in reqs, Start(q) PROVE Inv'
<1>1. /\ q.kind = "start" /\ ~RowLocked(q.id) /\ bookings' = Set({q.id}, "started")
      /\ reqs' = reqs \ {q} /\ UNCHANGED <<now, session, past>>
  BY DEF Start, Finish
<1>2. q.id \in Id
  BY <1>1 DEF Inv, RequestsOK, Fine, MayStart
<1>3. Fades /\ \A j \in Id : bookings'[j].status = IF j = q.id THEN "started" ELSE bookings[j].status
  BY <1>1, SetFades DEF Inv, Status
<1>4. \A r \in reqs : Spares(r)
  BY <1>1, <1>2, LockSpares DEF Inv, Status
<1>5. SessionsOK' /\ PastGrows
  BY <1>1, SessionsStay DEF Inv
<1> QED BY <1>1, <1>3, <1>4, <1>5, FadingKeeps

\* A session's start takes the due bookings of its player, or none.
LEMMA UseFades ==
  ASSUME RowsOK, RequestsOK, NEW ids \in SUBSET Id, Use(ids)
  PROVE  /\ Fades /\ \A q \in reqs : Spares(q)
         /\ \A i \in Id : bookings'[i].status = IF i \in ids THEN "started" ELSE bookings[i].status
<1>1. (\A i \in ids : ~RowLocked(i)) /\ bookings' = Set(ids, "started")
  BY DEF Use
<1> QED BY <1>1, SetFades, LockSpares DEF Status

LEMMA RedeemKeeps == ASSUME Inv, NEW p \in Player, NEW c \in PC, Redeem(p, c) PROVE Inv'
<1>1. /\ Use(Due(p, c)) /\ UNCHANGED <<now, session, past>>
      /\ reqs' = reqs \cup {[kind |-> "grant", player |-> p, pc |-> c]}
  BY DEF Redeem, Begin
<1>2. Due(p, c) \in SUBSET Id
  BY DEF Due, Owned
<1>3. /\ Fades /\ \A q \in reqs : Spares(q)
      /\ \A i \in Id : bookings'[i].status = IF i \in Due(p, c) THEN "started" ELSE bookings[i].status
  BY <1>1, <1>2, UseFades DEF Inv
<1>4. SessionsOK' /\ PastGrows
  BY <1>1, SessionsStay DEF Inv
<1>5. reqs' \subseteq reqs \cup SessionReq
  BY <1>1 DEF SessionReq
<1> QED BY <1>1, <1>3, <1>4, <1>5, FadingKeeps

LEMMA SessionStartsKeeps == ASSUME Inv, NEW q \in reqs, SessionStarts(q) PROVE Inv'
<1>1. /\ q.kind \in {"order", "grant"} /\ Use(Due(q.player, q.pc)) /\ reqs' = reqs \ {q}
      /\ session' = [session EXCEPT ![q.pc] = [player |-> q.player, since |-> now,
                                               until |-> now + SessionTime]]
      /\ UNCHANGED <<now, past>>
  BY DEF SessionStarts, Finish
<1>2. Due(q.player, q.pc) \in SUBSET Id
  BY DEF Due, Owned
<1>3. /\ Fades /\ \A r \in reqs : Spares(r)
      /\ \A i \in Id : bookings'[i].status =
           IF i \in Due(q.player, q.pc) THEN "started" ELSE bookings[i].status
  BY <1>1, <1>2, UseFades DEF Inv
<1>4. q.player \in Player /\ q.pc \in PC
  BY <1>1, Kinds DEF Inv, RequestsOK, SessionReq
<1>5. SessionsOK' /\ PastGrows
  <2>1. [player |-> q.player, since |-> now, until |-> now + SessionTime] \in Session
    BY <1>4, TimeAssumption DEF Inv, RowsOK, Session
  <2>2. session' \in [PC -> Session \cup {None}]
    BY <1>1, <2>1 DEF Inv, SessionsOK
  <2>3. \A c \in PC : session'[c] # None => session'[c].since <= now
    BY <1>1 DEF Inv, SessionsOK, RowsOK
  <2> QED BY <1>1, <2>2, <2>3 DEF Inv, SessionsOK, PastGrows
<1> QED BY <1>1, <1>3, <1>5, FadingKeeps

LEMMA SessionEndsKeeps == ASSUME Inv, NEW c \in PC, SessionEnds(c) PROVE Inv'
<1> DEFINE s == session[c]
           ids == Consumed(s, c)
           e == [player |-> s.player, pc |-> c, since |-> s.since, ended |-> now]
<1>1. /\ s # None /\ (\A i \in ids : ~RowLocked(i)) /\ bookings' = Set(ids, "completed")
      /\ past' = Append(past, e) /\ session' = [session EXCEPT ![c] = None]
      /\ UNCHANGED <<now, reqs>>
  BY DEF SessionEnds
<1>2. ids \in SUBSET Id
  BY DEF Consumed, Owned
<1>3. /\ Fades /\ \A q \in reqs : Spares(q)
      /\ \A i \in Id : bookings'[i].status = IF i \in ids THEN "completed" ELSE bookings[i].status
  BY <1>1, <1>2, SetFades, LockSpares DEF Inv, Status
<1>4. s \in Session /\ s.since <= now /\ now \in Nat
  BY <1>1 DEF Inv, SessionsOK, RowsOK
<1>5. e \in Past /\ e.since <= e.ended
  BY <1>4 DEF Session, Past
<1>6. /\ past' \in Seq(Past) /\ Len(past) \in Nat
      /\ DOMAIN past = 1..Len(past) /\ DOMAIN past' = 1..(Len(past) + 1)
      /\ past'[Len(past) + 1] = e /\ \A k \in 1..Len(past) : past'[k] = past[k]
  <2>1. past \in Seq(Past)
    BY DEF Inv, SessionsOK
  <2>2. past' \in Seq(Past) /\ Len(past') = Len(past) + 1
    BY <1>1, <1>5, <2>1, AppendProperties
  <2> HIDE DEF e
  <2> QED BY <1>1, <1>5, <2>1, <2>2, AppendProperties, LenProperties
<1>7. PastGrows
  BY <1>6 DEF PastGrows
<1>8. SessionsOK'
  <2>1. session' \in [PC -> Session \cup {None}]
    BY <1>1 DEF Inv, SessionsOK
  <2>2. \A d \in PC : session'[d] # None => session'[d].since <= now'
    BY <1>1 DEF Inv, SessionsOK
  <2>3. \A k \in DOMAIN past' : past'[k].since <= past'[k].ended
    BY <1>5, <1>6 DEF Inv, SessionsOK
  <2> QED BY <1>6, <2>1, <2>2, <2>3 DEF SessionsOK
<1>9. ASSUME NEW i \in ids PROVE \E k \in DOMAIN past' : UsedIn(i, k)'
  <2>1. bookings[i].player = s.player /\ bookings[i].pc = c /\ bookings[i].start <= now /\ i \in Id
    BY <1>9 DEF Consumed, Owned
  <2>2. bookings[i].start \in Nat
    BY <2>1, Rows DEF Inv
  <2>3. /\ bookings'[i].player = s.player /\ bookings'[i].pc = c
        /\ bookings'[i].start \in Nat /\ bookings'[i].start <= now
    BY <1>3, <2>1, <2>2 DEF Fades
  <2>4. e.player = s.player /\ e.pc = c /\ e.ended = now
    OBVIOUS
  <2> HIDE DEF e
  <2>5. PICK k \in DOMAIN past' : past'[k] = e
    BY <1>6
  <2>6. UsedIn(i, k)'
    BY <1>4, <2>3, <2>4, <2>5 DEF UsedIn
  <2> QED BY <2>5, <2>6
<1> QED BY <1>1, <1>3, <1>7, <1>8, <1>9, FadingKeeps

LEMMA SweepKeeps == ASSUME Inv, Sweep PROVE Inv'
<1>1. /\ \A i \in Overdue \cup Resolved : ~RowLocked(i)
      /\ bookings' = [i \in Id |->
                        IF i \in Overdue THEN [bookings[i] EXCEPT !.status = "expired"]
                        ELSE IF i \in Resolved THEN [bookings[i] EXCEPT !.status = "completed"]
                        ELSE bookings[i]]
      /\ UNCHANGED <<now, reqs, session, past>>
  BY DEF Sweep
<1>2. ASSUME NEW i \in Id
      PROVE  /\ bookings'[i] \in Booking
             /\ bookings'[i].player = bookings[i].player /\ bookings'[i].pc = bookings[i].pc
             /\ bookings'[i].start = bookings[i].start /\ bookings'[i].length = bookings[i].length
             /\ bookings'[i].status = IF i \in Overdue THEN "expired"
                                      ELSE IF i \in Resolved THEN "completed"
                                      ELSE bookings[i].status
  <2>1. bookings[i] \in Booking
    BY Rows DEF Inv
  <2> QED BY <1>1, <2>1 DEF Booking, Status
<1>3. Len(bookings) \in Nat /\ Id = 1..Len(bookings)
  BY LenProperties DEF Inv, RowsOK
<1>4. bookings' \in [1..Len(bookings) -> Booking]
  BY <1>1, <1>2, <1>3
<1>5. bookings' \in Seq(Booking) /\ DOMAIN bookings' = DOMAIN bookings
  BY <1>1, <1>3, <1>4
<1>6. Fades
  BY <1>2, <1>5 DEF Fades
<1>7. ASSUME NEW q \in reqs PROVE Spares(q)
  <2>1. q.kind = "move" => q.id \in Id /\ q.id \notin Overdue \cup Resolved
    BY <1>1, <1>7 DEF Inv, RequestsOK, Fine, RowKept, RowLocked
  <2>2. q.kind = "start" => q.id \in Id
    BY <1>7 DEF Inv, RequestsOK, Fine, MayStart
  <2> QED BY <1>2, <2>1, <2>2 DEF Spares
<1>8. SessionsOK' /\ PastGrows
  BY <1>1, SessionsStay DEF Inv
<1>9. ASSUME NEW i \in Id, bookings'[i].status = "completed", bookings[i].status # "completed"
      PROVE  \E k \in DOMAIN past' : UsedIn(i, k)'
  <2>1. i \in Resolved
    BY <1>2, <1>9
  <2>2. PICK k \in DOMAIN past : /\ past[k].player = bookings[i].player /\ past[k].pc = bookings[i].pc
                                 /\ past[k].since >= bookings[i].start - Lead
    BY <2>1 DEF Resolved
  <2>0. past \in Seq(Past) /\ past[k].since <= past[k].ended
    BY DEF Inv, SessionsOK
  <2>3. past[k].since <= past[k].ended /\ past[k].since \in Nat /\ past[k].ended \in Nat
    <3>1. past[k] \in Past
      BY <2>0, LenProperties
    <3> QED BY <2>0, <3>1 DEF Past
  <2>4. bookings[i].start \in Nat
    BY Rows DEF Inv
  <2>5. UsedIn(i, k)'
    BY <1>1, <1>2, <2>2, <2>3, <2>4 DEF UsedIn
  <2> QED BY <1>1, <2>5
<1> QED BY <1>1, <1>6, <1>7, <1>8, <1>9, FadingKeeps

-----------------------------------------------------------------------------
(***************************************************************************)
(* Requests that begin, go on and end.                                     *)
(***************************************************************************)
LEMMA Shrinks ==
  ASSUME Inv, reqs' \subseteq reqs \cup SessionReq, UNCHANGED <<now, bookings, session, past>>
  PROVE  Inv'
<1>1. Fades /\ SessionsOK' /\ PastGrows
  BY Unchanged, SessionsStay DEF Inv
<1>2. \A q \in reqs \cap reqs' : Spares(q)
  BY DEF Spares
<1> QED BY <1>1, <1>2, FadingKeeps

LEMMA Added ==
  ASSUME Inv, NEW q \in Req, Fine(q), NEW rest \in SUBSET reqs, reqs' = rest \cup {q},
         \A r \in rest : ~Clash(q, r) /\ ~Clash(r, q),
         UNCHANGED <<now, bookings, session, past>>
  PROVE  Inv'
<1>1. RowsOK' /\ SessionsOK' /\ Promises'
  BY SessionsStay DEF Inv, RowsOK, Promises, NoDoubleBooking, OnePerPlayer, CompletedWasUsed, Overlap
<1>2. \A r \in reqs' : Fine(r)'
  <2>1. \A r \in reqs' : Fine(r)
    BY DEF Inv, RequestsOK
  <2> QED BY <2>1 DEF Fine, Recent, NoneOfPlayer, RowKept, PcFree, MayStart, Confirmed, Reserved, Overlap
<1>3. reqs' \subseteq Req
  BY DEF Inv, RequestsOK
<1>4. \A r, s \in reqs' : Clash(r, s) => r = s
  BY DEF Inv, RequestsOK
<1>5. RequestsOK'
  BY <1>2, <1>3, <1>4 DEF RequestsOK, Clash, Books
<1> QED BY <1>1, <1>5 DEF Inv

LEMMA BeginCreateKeeps ==
  ASSUME Inv, NEW p \in Player, NEW c \in PC, NEW s \in Starts, NEW l \in Lengths, BeginCreate(p, c, s, l)
  PROVE  Inv'
<1> DEFINE q == [kind |-> "create", step |-> "begun", player |-> p, pc |-> c,
                 start |-> s, length |-> l, began |-> now]
<1>1. /\ ~PlayerLocked(p) /\ ~HasBooking(p, now) /\ reqs' = reqs \cup {q}
      /\ UNCHANGED <<now, bookings, session, past>>
  BY DEF BeginCreate, Begin
<1>2. q \in CreateReq /\ now \in Nat
  BY DEF CreateReq, Inv, RowsOK
<1>3. NoneOfPlayer(q)
  <2>1. ASSUME NEW i \in Id, bookings[i].player = p, Confirmed(i) PROVE bookings[i].start + Arrival < now
    <3>1. bookings[i].start \in Nat
      BY Rows DEF Inv
    <3> QED BY <1>1, <1>2, <2>1, <3>1 DEF HasBooking, Confirmed
  <2> QED BY <2>1 DEF NoneOfPlayer
<1>4. Fine(q)
  BY <1>2, <1>3 DEF Fine, Recent, RowKept, PcFree, MayStart, Books
<1>5. \A r \in reqs : ~Clash(q, r) /\ ~Clash(r, q)
  BY <1>1 DEF Clash, PlayerLocked
<1>6. q \in Req
  BY <1>2 DEF Req
<1> HIDE DEF q
<1> QED BY <1>1, <1>4, <1>5, <1>6, Added

LEMMA BeginMoveKeeps ==
  ASSUME Inv, NEW i \in Id, NEW s \in Starts, NEW l \in Lengths, BeginMove(i, s, l)
  PROVE  Inv'
<1> DEFINE q == [kind |-> "move", step |-> "begun", id |-> i, pc |-> bookings[i].pc,
                 start |-> s, length |-> l, began |-> now]
<1>1. /\ ~RowLocked(i) /\ Confirmed(i) /\ bookings[i].start > now + Lead
      /\ reqs' = reqs \cup {q} /\ UNCHANGED <<now, bookings, session, past>>
  BY DEF BeginMove, Begin, Confirmed
<1>2. /\ bookings[i] \in Booking /\ i \in Nat /\ bookings[i].start \in Nat /\ now \in Nat
  BY Rows DEF Inv, RowsOK
<1>3. q \in MoveReq
  BY <1>2 DEF MoveReq, Booking
<1>4. Fine(q)
  BY <1>1, <1>2 DEF Fine, Recent, NoneOfPlayer, RowKept, PcFree, MayStart, Books
<1>5. ASSUME NEW r \in reqs PROVE ~Clash(q, r) /\ ~Clash(r, q)
  <2>1. r.kind = "start" => r.id # i
    BY <1>1, <1>2, <1>5 DEF Inv, RequestsOK, Fine, MayStart
  <2> QED BY <1>1, <2>1 DEF Clash, RowLocked
<1>6. q \in Req
  BY <1>3 DEF Req
<1> HIDE DEF q
<1> QED BY <1>1, <1>4, <1>5, <1>6, Added

LEMMA BeginStartKeeps == ASSUME Inv, NEW i \in Id, BeginStart(i) PROVE Inv'
<1> DEFINE q == [kind |-> "start", id |-> i]
<1>1. /\ ~RowLocked(i) /\ bookings[i].status = "confirmed" /\ InWindow(bookings[i], now)
      /\ reqs' = reqs \cup {q} /\ UNCHANGED <<now, bookings, session, past>>
  BY DEF BeginStart, Begin
<1>2. q \in StartReq /\ q \in Req
  BY Rows DEF Inv, StartReq, Req
<1>3. Fine(q)
  BY <1>1 DEF Fine, Recent, NoneOfPlayer, RowKept, PcFree, MayStart, Books, InWindow
<1>4. \A r \in reqs : ~Clash(q, r) /\ ~Clash(r, q)
  BY <1>1 DEF Clash, RowLocked, Books
<1> HIDE DEF q
<1> QED BY <1>1, <1>2, <1>3, <1>4, Added

LEMMA CheckPcKeeps == ASSUME Inv, NEW q \in reqs, CheckPc(q) PROVE Inv'
<1> DEFINE n == [q EXCEPT !.step = "checked"]
<1>1. /\ Books(q) /\ q.step = "begun" /\ ~PcLocked(q.pc) /\ UNCHANGED <<now, bookings, session, past>>
      /\ \/ reqs' = reqs \ {q}
         \/ ~Reserved(q) /\ reqs' = (reqs \ {q}) \cup {n}
  BY DEF CheckPc, Finish, Replace, Books
<1>2. CASE reqs' = reqs \ {q}
  BY <1>1, <1>2, Shrinks
<1>3. CASE ~Reserved(q) /\ reqs' = (reqs \ {q}) \cup {n}
  <2>1. q \in CreateReq \/ q \in MoveReq
    BY <1>1, Kinds DEF Inv, RequestsOK, Books
  <2>2. /\ n \in Req /\ n.kind = q.kind /\ n.step = "checked" /\ n.pc = q.pc
        /\ n.start = q.start /\ n.length = q.length /\ n.began = q.began
        /\ (q.kind = "create" => n.player = q.player) /\ (q.kind = "move" => n.id = q.id)
    BY <2>1 DEF CreateReq, MoveReq, Req
  <2> HIDE DEF n
  <2>3. Fine(q)
    BY DEF Inv, RequestsOK
  <2>4. ~Reserved(n)
    BY <1>3, <2>2 DEF Reserved
  <2>5. Fine(n)
    BY <1>1, <2>2, <2>3, <2>4 DEF Fine, Recent, NoneOfPlayer, RowKept, PcFree, MayStart, Books
  <2>6. ASSUME NEW r \in reqs \ {q} PROVE ~Clash(n, r) /\ ~Clash(r, n)
    <3>1. ~Clash(q, r) /\ ~Clash(r, q)
      BY DEF Inv, RequestsOK
    <3>2. ~(Books(r) /\ r.step = "checked" /\ r.pc = q.pc)
      BY <1>1 DEF PcLocked, Books
    <3> QED BY <1>1, <2>2, <3>1, <3>2 DEF Clash, Books
  <2>7. reqs \ {q} \in SUBSET reqs
    OBVIOUS
  <2> QED BY <1>1, <1>3, <2>2, <2>5, <2>6, <2>7, Added
<1> QED BY <1>1, <1>2, <1>3

(* The commit of a new booking: its PC is free and its player has no other. *)
LEMMA CommitCreateKeeps ==
  ASSUME Inv, NEW q \in reqs, Commit(q), q.kind = "create"
  PROVE  Inv'
<1> DEFINE b == [player |-> q.player, pc |-> q.pc, start |-> q.start,
                 length |-> q.length, status |-> "confirmed"]
<1>1. /\ q.step = "checked" /\ bookings' = Append(bookings, b) /\ reqs' = reqs \ {q}
      /\ UNCHANGED <<now, session, past>>
  BY DEF Commit, Finish
<1>2. q \in CreateReq /\ q.start \in Nat /\ q.length \in Nat
  BY Kinds DEF Inv, RequestsOK, Books
<1>3. b \in Booking
  BY <1>2 DEF CreateReq, Booking, Status
<1>4. /\ b.player = q.player /\ b.pc = q.pc /\ b.start = q.start /\ b.length = q.length
      /\ b.status = "confirmed"
  OBVIOUS
<1> HIDE DEF b
<1>5. PICK n \in Nat : /\ n \notin Id /\ DOMAIN bookings' = Id \cup {n}
                       /\ bookings'[n] = b /\ \A i \in Id : bookings'[i] = bookings[i]
                       /\ bookings' \in Seq(Booking)
  <2>1. bookings \in Seq(Booking)
    BY DEF Inv, RowsOK
  <2>2. Len(bookings) \in Nat /\ Id = 1..Len(bookings)
    BY <2>1, LenProperties
  <2>3. /\ bookings' \in Seq(Booking) /\ Len(bookings') = Len(bookings) + 1
        /\ bookings'[Len(bookings) + 1] = b
        /\ \A i \in 1..Len(bookings) : bookings'[i] = bookings[i]
    BY <1>1, <1>3, <2>1, AppendProperties
  <2>4. DOMAIN bookings' = 1..(Len(bookings) + 1)
    BY <2>3, LenProperties
  <2> QED BY <2>2, <2>3, <2>4
<1>6. Fine(q) /\ ~Reserved(q)
  BY <1>1 DEF Inv, RequestsOK, Fine, PcFree, Books
<1>7. ASSUME NEW r \in reqs'
      PROVE  Fine(r)'
  <2>1. r \in reqs /\ r # q /\ Fine(r) /\ ~Clash(q, r)
    BY <1>1, <1>7 DEF Inv, RequestsOK
  <2>2. NoneOfPlayer(r)'
    <3>1. r.kind = "create" => r.player # b.player
      BY <1>4, <2>1 DEF Clash
    <3> QED BY <1>1, <1>5, <2>1, <3>1 DEF Fine, NoneOfPlayer, Confirmed
  <2>3. PcFree(r)'
    <3>1. Books(r) /\ r.step = "checked" => r.pc # b.pc
      BY <1>1, <1>4, <2>1 DEF Clash, Books
    <3>2. Books(r) /\ r.step = "checked" => ~Reserved(r)'
      BY <1>5, <2>1, <3>1 DEF Fine, PcFree, Reserved, Overlap
    <3> QED BY <3>2 DEF PcFree, Books
  <2>4. Recent(r)' /\ RowKept(r)' /\ MayStart(r)'
    BY <1>1, <1>5, <2>1 DEF Fine, Recent, RowKept, MayStart, Confirmed, Books
  <2> QED BY <2>2, <2>3, <2>4 DEF Fine
<1>8. RequestsOK'
  BY <1>1, <1>7 DEF Inv, RequestsOK, Clash, Books
<1>9. NoDoubleBooking'
  <2>1. ASSUME NEW i \in Id, bookings[i].pc = q.pc, Confirmed(i)
        PROVE  ~Overlap(bookings[i].start, bookings[i].length, b) /\ ~Overlap(b.start, b.length, bookings[i])
    <3>1. bookings[i].start \in Nat /\ bookings[i].length \in Nat
      BY Rows DEF Inv
    <3>2. ~Overlap(q.start, q.length, bookings[i])
      BY <1>6, <2>1 DEF Reserved, Confirmed
    <3> QED BY <1>2, <1>4, <3>1, <3>2 DEF Overlap
  <2>2. NoDoubleBooking
    BY DEF Inv, Promises
  <2> QED BY <1>4, <1>5, <2>1, <2>2 DEF NoDoubleBooking, Overlap, Confirmed
<1>10. OnePerPlayer'
  <2>1. \A i \in Id : bookings[i].player = b.player /\ Confirmed(i) => bookings[i].start + Arrival < now
    BY <1>4, <1>6 DEF Fine, NoneOfPlayer
  <2>2. OnePerPlayer
    BY DEF Inv, Promises
  <2> QED BY <1>1, <1>5, <2>1, <2>2 DEF OnePerPlayer, Confirmed
<1>11. CompletedWasUsed'
  BY <1>1, <1>4, <1>5 DEF Inv, Promises, CompletedWasUsed
<1>12. RowsOK' /\ SessionsOK'
  BY <1>1, <1>5, SessionsStay DEF Inv, RowsOK
<1> QED BY <1>8, <1>9, <1>10, <1>11, <1>12 DEF Inv, Promises

(* The commit of a move: the row is as it was read, so not overdue; nobody  *)
(* has booked for its player meanwhile, and the PC is free.                 *)
LEMMA CommitMoveKeeps ==
  ASSUME Inv, NEW q \in reqs, Commit(q), q.kind = "move"
  PROVE  Inv'
<1> DEFINE b == [bookings[q.id] EXCEPT !.start = q.start, !.length = q.length]
<1>1. /\ q.step = "checked" /\ reqs' = reqs \ {q} /\ UNCHANGED <<now, session, past>>
      /\ bookings' = [bookings EXCEPT ![q.id].start = q.start, ![q.id].length = q.length]
  BY DEF Commit, Finish
<1>2. /\ q \in MoveReq /\ q.start \in Nat /\ q.length \in Nat /\ q.began \in Nat
      /\ q.start \in Starts /\ q.length \in Lengths
  BY Kinds DEF Inv, RequestsOK, Books, MoveReq
<1>3. Fine(q) /\ ~Reserved(q)
  BY <1>1 DEF Inv, RequestsOK, Fine, PcFree, Books
<1>4. q.id \in Id /\ Confirmed(q.id) /\ bookings[q.id].pc = q.pc
  BY <1>3 DEF Fine, RowKept
<1>5. bookings[q.id] \in Booking /\ bookings[q.id].start \in Nat /\ now \in Nat
  BY <1>4, Rows DEF Inv, RowsOK
<1>6. bookings[q.id].start >= now
  BY <1>2, <1>3, <1>5 DEF Fine, RowKept, Recent, Books
<1>7. /\ b \in Booking /\ b.player = bookings[q.id].player /\ b.pc = q.pc
      /\ b.start = q.start /\ b.length = q.length /\ b.status = "confirmed"
  BY <1>2, <1>4, <1>5 DEF Booking, Confirmed
<1>8. bookings' = [bookings EXCEPT ![q.id] = b]
  BY <1>1, <1>4, <1>5 DEF Booking
<1> HIDE DEF b
<1>9. /\ bookings' \in Seq(Booking) /\ DOMAIN bookings' = Id /\ bookings'[q.id] = b
      /\ \A i \in Id : i # q.id => bookings'[i] = bookings[i]
  <2>1. bookings \in Seq(Booking) /\ q.id \in 1..Len(bookings) /\ Id = 1..Len(bookings)
    BY <1>4, LenProperties DEF Inv, RowsOK
  <2>2. /\ bookings' \in Seq(Booking) /\ Len(bookings') = Len(bookings)
        /\ \A i \in 1..Len(bookings) : bookings'[i] = IF i = q.id THEN b ELSE bookings[i]
    BY <1>7, <1>8, <2>1, ExceptSeq
  <2> QED BY <2>1, <2>2, LenProperties
<1>10. ASSUME NEW r \in reqs' PROVE Fine(r)'
  <2>1. r \in reqs /\ r # q /\ Fine(r) /\ ~Clash(q, r) /\ ~Clash(r, q)
    BY <1>1, <1>10 DEF Inv, RequestsOK
  <2>2. NoneOfPlayer(r)'
    <3>1. r.kind = "create" => bookings[q.id].player # r.player
      BY <1>4, <1>5, <1>6, <2>1 DEF Fine, NoneOfPlayer
    <3> QED BY <1>1, <1>7, <1>9, <2>1, <3>1 DEF Fine, NoneOfPlayer, Confirmed
  <2>3. PcFree(r)'
    <3>1. Books(r) /\ r.step = "checked" => r.pc # q.pc
      BY <1>1, <2>1 DEF Clash, Books
    <3>2. Books(r) /\ r.step = "checked" => ~Reserved(r)'
      BY <1>7, <1>9, <2>1, <3>1 DEF Fine, PcFree, Reserved, Overlap
    <3> QED BY <3>2 DEF PcFree, Books
  <2>4. r.kind \in {"move", "start"} => r.id # q.id
    BY <2>1 DEF Clash
  <2>5. Recent(r)' /\ RowKept(r)' /\ MayStart(r)'
    BY <1>1, <1>9, <2>1, <2>4 DEF Fine, Recent, RowKept, MayStart, Confirmed, Books
  <2> QED BY <2>2, <2>3, <2>5 DEF Fine
<1>11. RequestsOK'
  BY <1>1, <1>10 DEF Inv, RequestsOK, Clash, Books
<1>12. NoDoubleBooking'
  <2>1. ASSUME NEW i \in Id \ {q.id}, bookings[i].pc = q.pc, Confirmed(i)
        PROVE  ~Overlap(bookings[i].start, bookings[i].length, b) /\ ~Overlap(b.start, b.length, bookings[i])
    <3>1. bookings[i].start \in Nat /\ bookings[i].length \in Nat
      BY Rows DEF Inv
    <3>2. ~Overlap(q.start, q.length, bookings[i])
      BY <1>3, <2>1 DEF Reserved, Confirmed
    <3> QED BY <1>2, <1>7, <3>1, <3>2 DEF Overlap
  <2>2. NoDoubleBooking
    BY DEF Inv, Promises
  <2> QED BY <1>4, <1>7, <1>9, <2>1, <2>2 DEF NoDoubleBooking, Overlap, Confirmed
<1>13. OnePerPlayer'
  <2>1. \A i \in Id \ {q.id} : bookings[i].player = b.player /\ Confirmed(i) => bookings[i].start + Arrival < now
    BY <1>4, <1>5, <1>6, <1>7 DEF Inv, Promises, OnePerPlayer, Confirmed
  <2>2. ASSUME NEW i \in Id, NEW j \in Id, i # j, bookings'[i].player = bookings'[j].player,
               bookings'[i].status = "confirmed", bookings'[j].status = "confirmed"
        PROVE  bookings'[i].start + Arrival < now \/ bookings'[j].start + Arrival < now
    <3>1. CASE i # q.id /\ j # q.id
      BY <1>9, <2>2, <3>1 DEF Inv, Promises, OnePerPlayer
    <3>2. CASE i = q.id
      BY <1>9, <2>1, <2>2, <3>2 DEF Confirmed
    <3>3. CASE j = q.id
      BY <1>9, <2>1, <2>2, <3>3 DEF Confirmed
    <3> QED BY <3>1, <3>2, <3>3
  <2> QED BY <1>1, <1>9, <2>2 DEF OnePerPlayer
<1>14. CompletedWasUsed'
  BY <1>1, <1>7, <1>9 DEF Inv, Promises, CompletedWasUsed
<1>15. RowsOK' /\ SessionsOK'
  BY <1>1, <1>9, SessionsStay DEF Inv, RowsOK
<1> QED BY <1>11, <1>12, <1>13, <1>14, <1>15 DEF Inv, Promises

LEMMA TickKeeps == ASSUME Inv, Tick PROVE Inv'
<1>1. /\ now' = now + 1 /\ now \in Nat /\ \A q \in reqs : Books(q) => q.began = now
      /\ UNCHANGED <<bookings, reqs, session, past>>
  BY DEF Tick, Inv, RowsOK, Books
<1>2. \A i \in Id : bookings[i].start \in Nat
  BY Rows DEF Inv
<1>3. RowsOK' /\ NoDoubleBooking' /\ CompletedWasUsed'
  BY <1>1 DEF Inv, RowsOK, Promises, NoDoubleBooking, CompletedWasUsed, Overlap
<1>4. OnePerPlayer'
  BY <1>1, <1>2 DEF Inv, Promises, OnePerPlayer
<1>5. SessionsOK'
  <2>1. ASSUME NEW c \in PC, session[c] # None PROVE session[c].since <= now'
    BY <1>1, <2>1 DEF Inv, SessionsOK, Session
  <2> QED BY <1>1, <2>1 DEF Inv, SessionsOK
<1>6. ASSUME NEW q \in reqs PROVE Fine(q)'
  <2>1. Fine(q)
    BY <1>6 DEF Inv, RequestsOK
  <2>2. Recent(q)'
    BY <1>1, <1>6 DEF Recent, Books
  <2>3. NoneOfPlayer(q)' /\ MayStart(q)'
    BY <1>1, <1>2, <2>1 DEF Fine, NoneOfPlayer, MayStart, Confirmed
  <2>4. RowKept(q)' /\ PcFree(q)'
    BY <1>1, <2>1 DEF Fine, RowKept, PcFree, Confirmed, Reserved, Overlap, Books
  <2> QED BY <2>2, <2>3, <2>4 DEF Fine
<1>7. RequestsOK'
  BY <1>1, <1>6 DEF Inv, RequestsOK, Clash, Books
<1> QED BY <1>3, <1>4, <1>5, <1>7 DEF Inv, Promises

LEMMA NextKeeps == ASSUME Inv, [Next]_vars PROVE Inv'
<1>1. ASSUME NEW q \in reqs, CheckPc(q) \/ Commit(q) PROVE Inv'
  BY <1>1, CheckPcKeeps, CommitCreateKeeps, CommitMoveKeeps DEF Commit
<1>2. ASSUME NEW q \in reqs, Start(q) \/ SessionStarts(q) PROVE Inv'
  BY <1>2, StartKeeps, SessionStartsKeeps
<1>3. ASSUME NEW q \in reqs, Abort(q) \/ SessionFails(q) PROVE Inv'
  <2>1. reqs' \subseteq reqs /\ UNCHANGED <<now, bookings, session, past>>
    BY <1>3 DEF Abort, SessionFails, Finish
  <2> QED BY <2>1, Shrinks
<1>4. ASSUME NEW p \in Player, NEW c \in PC, Checkout(p, c) PROVE Inv'
  <2>1. reqs' \subseteq reqs \cup SessionReq /\ UNCHANGED <<now, bookings, session, past>>
    BY <1>4 DEF Checkout, Begin, SessionReq
  <2> QED BY <2>1, Shrinks
<1>5. CASE UNCHANGED vars
  BY <1>5, Shrinks DEF vars
<1> QED BY <1>1, <1>2, <1>3, <1>4, <1>5, BeginCreateKeeps, BeginMoveKeeps, BeginStartKeeps, CancelKeeps,
           RedeemKeeps, SessionEndsKeeps, SweepKeeps, TickKeeps DEF Next

THEOREM Invariant == Spec => []Inv
BY InitInv, NextKeeps, PTL DEF Spec

-----------------------------------------------------------------------------
(* Whatever is booked, moved, cancelled and started at once: the windows of *)
(* two confirmed bookings of one PC never overlap.                          *)
THEOREM NeverTwice == Spec => []NoDoubleBooking
<1>1. Inv => NoDoubleBooking
  BY DEF Inv, Promises
<1> QED BY <1>1, Invariant, PTL

(* "One player can hold one future/current reservation at a time", on all   *)
(* PCs together.                                                            *)
THEOREM OneEach == Spec => []OnePerPlayer
<1>1. Inv => OnePerPlayer
  BY DEF Inv, Promises
<1> QED BY <1>1, Invariant, PTL

(* A booking is completed by a session of its player, on its PC, that came  *)
(* up to its window; never by an earlier one.                               *)
THEOREM UsedUp == Spec => []CompletedWasUsed
<1>1. Inv => CompletedWasUsed
  BY DEF Inv, Promises
<1> QED BY <1>1, Invariant, PTL

(* A cancelled booking is cancelled for good: the start, which writes       *)
(* without looking again, has read a booking that is past cancelling.       *)
THEOREM CancelledForGood == Spec => CancelledStays
<1>1. ASSUME Inv, [Next]_vars, NEW i \in Id, bookings[i].status = "cancelled"
      PROVE  bookings'[i].status = "cancelled"
  <2>0. bookings[i] \in Booking /\ Len(bookings) \in Nat /\ Id = 1..Len(bookings)
        /\ bookings \in Seq(Booking)
    BY <1>1, Rows, LenProperties DEF Inv, RowsOK
  <2>1. CASE UNCHANGED bookings
    BY <1>1, <2>1
  <2>2. ASSUME NEW ids, NEW new \in Status \ {"confirmed"}, i \notin ids, bookings' = Set(ids, new)
        PROVE  bookings'[i].status = "cancelled"
    BY <1>1, <2>2, SetFades DEF Inv
  <2>3. ASSUME NEW j \in Id, Cancel(j) PROVE bookings'[i].status = "cancelled"
    <3>1. bookings' = Set({j}, "cancelled") /\ bookings[j].status = "confirmed"
      BY <2>3 DEF Cancel
    <3> QED BY <1>1, <2>2, <3>1 DEF Status
  <2>4. ASSUME NEW q \in reqs, Start(q) PROVE bookings'[i].status = "cancelled"
    <3>1. bookings' = Set({q.id}, "started") /\ q.kind = "start"
      BY <2>4 DEF Start
    <3>2. q.id # i
      BY <1>1, <3>1 DEF Inv, RequestsOK, Fine, MayStart
    <3> QED BY <2>2, <3>1, <3>2 DEF Status
  <2>5. ASSUME NEW p, NEW c, Use(Due(p, c)) PROVE bookings'[i].status = "cancelled"
    BY <1>1, <2>2, <2>5 DEF Use, Due, Status
  <2>6. ASSUME NEW c \in PC, SessionEnds(c) PROVE bookings'[i].status = "cancelled"
    <3>1. bookings' = Set(Consumed(session[c], c), "completed")
      BY <2>6 DEF SessionEnds
    <3>2. i \notin Consumed(session[c], c)
      BY <1>1 DEF Consumed, Open
    <3> QED BY <2>2, <3>1, <3>2 DEF Status
  <2>7. CASE Sweep
    BY <1>1, <2>7 DEF Sweep, Overdue, Resolved, Open
  <2>8. ASSUME NEW q \in reqs, Commit(q) PROVE bookings'[i].status = "cancelled"
    <3>1. CASE q.kind = "create"
      <4> DEFINE b == [player |-> q.player, pc |-> q.pc, start |-> q.start,
                       length |-> q.length, status |-> "confirmed"]
      <4>1. q \in CreateReq
        BY <1>1, <3>1, Kinds DEF Inv, RequestsOK
      <4>2. b \in Booking
        BY <4>1 DEF CreateReq, Booking, Status
      <4>3. bookings' = Append(bookings, b)
        BY <2>8, <3>1 DEF Commit
      <4> HIDE DEF b
      <4>4. bookings'[i] = bookings[i]
        BY <2>0, <4>2, <4>3, AppendProperties
      <4> QED BY <1>1, <4>4
    <3>2. CASE q.kind = "move"
      <4>1. bookings' = [bookings EXCEPT ![q.id].start = q.start, ![q.id].length = q.length]
        BY <2>8, <3>2 DEF Commit
      <4>2. q.id # i
        BY <1>1, <3>2 DEF Inv, RequestsOK, Fine, RowKept, Confirmed
      <4> QED BY <1>1, <4>1, <4>2
    <3> QED BY <2>8, <3>1, <3>2 DEF Commit
  <2> QED BY <1>1, <2>1, <2>3, <2>4, <2>5, <2>6, <2>7, <2>8
          DEF Next, vars, BeginCreate, BeginMove, CheckPc, Abort, BeginStart, Checkout, Redeem,
              SessionStarts, SessionFails, Tick
<1>2. Inv /\ [Next]_vars
        => [\A i \in Id : bookings[i].status = "cancelled" => bookings'[i].status = "cancelled"]_vars
  BY <1>1
<1> QED BY <1>2, Invariant, PTL DEF Spec, CancelledStays
-----------------------------------------------------------------------------
(***************************************************************************)
(* The operations of the mobile app (Operations), which share no state     *)
(* with the reservations.  For every number of keys, requests, questions   *)
(* and faults: an operation is made at most once under its key, and what   *)
(* was made is known under it.  The inductive invariant says why: a        *)
(* handler runs only under a key nothing was made under, and it links the  *)
(* row in the step that makes the order or the grant, so no later deletion *)
(* can hit it.                                                             *)
(***************************************************************************)
Unmade == \A k \in Key : exec[k] = "running" => made[k] = 0

Linked == \A k \in Key : exec[k] = "made" => row[k].linked

\* What is still to come: no request has a key the client has not made up yet.
Future ==
  /\ \A k \in Key : k > key => posts[k] = 0
  /\ \A p \in polls : p.key <= key

\* The parts of TypeOK, apart for the provers.
ClientOK == key \in Key /\ known \in BOOLEAN
PostsOK == posts \in [Key -> 0..MaxPosts] /\ faults \in 0..MaxFaults
PollsOK ==
  /\ polls \subseteq [key : Key, step : {"sent", "read"}, live : BOOLEAN]
  /\ \A p, q \in polls : p.live /\ q.live => p = q
RowOK ==
  /\ row \in [Key -> [status : {"absent", "none", "ok", "failed"}, linked : BOOLEAN]]
  /\ made \in [Key -> Nat]
ExecOK ==
  /\ exec \in [Key -> {"idle", "running", "made", "failing"}]
  /\ \A k \in Key : exec[k] # "idle" => row[k].status = "none"
OkIsLinked == \A k \in Key : row[k].status = "ok" => row[k].linked

Types == ClientOK /\ PostsOK /\ PollsOK /\ RowOK /\ ExecOK /\ OkIsLinked
Safe == AtMostOnce /\ NeverForgotten /\ Unmade /\ Linked
OpsInv == Types /\ Safe /\ Future

USE DEF Key

-----------------------------------------------------------------------------
LEMMA InitOps == ASSUME OpsInit PROVE OpsInv
<1>1. key = 1 /\ 1 \in Key /\ 0 \in 0..MaxPosts /\ 1 \in 0..MaxPosts /\ faults \in 0..MaxFaults
  BY BoundsAssumption DEF OpsInit
<1>2. \A k \in Key : k > 1 => posts[k] = 0
  BY DEF OpsInit
<1>3. ClientOK /\ PostsOK /\ PollsOK /\ Future
  BY <1>1, <1>2 DEF OpsInit, ClientOK, PostsOK, PollsOK, Future
<1>4. \A k \in Key : row[k] = NoRow /\ exec[k] = "idle" /\ made[k] = 0
  BY DEF OpsInit
<1>5. NoRow.status = "absent" /\ RowOK
  BY DEF OpsInit, RowOK, NoRow
<1>6. ExecOK /\ OkIsLinked
  BY <1>4, <1>5 DEF OpsInit, ExecOK, OkIsLinked
<1>7. Safe
  BY <1>4 DEF Safe, AtMostOnce, NeverForgotten, Unmade, Linked
<1> QED BY <1>3, <1>5, <1>6, <1>7 DEF OpsInv, Types

LEMMA OpsFault == ASSUME Fault, faults \in 0..MaxFaults PROVE faults' \in 0..MaxFaults
BY BoundsAssumption DEF Fault

LEMMA AnswerKeeps ==
  ASSUME NEW k, NEW r, known \in BOOLEAN, r.linked \in BOOLEAN, Answer(k, r)
  PROVE  known' \in BOOLEAN
BY DEF Answer

\* One request less is on its way.
LEMMA PostArrives ==
  ASSUME OpsInv, NEW k \in Key, posts[k] > 0, posts' = [posts EXCEPT ![k] = @ - 1], UNCHANGED key
  PROVE  /\ posts' \in [Key -> 0..MaxPosts]
         /\ \A x \in Key : x > key' => posts'[x] = 0
BY BoundsAssumption DEF OpsInv, Types, PostsOK, Future

LEMMA ClaimKeeps == ASSUME OpsInv, NEW k \in Key, Claim(k) PROVE OpsInv'
<1>1. UNCHANGED <<key, polls, made, faults>>
  BY DEF Claim
<1>2. known' \in BOOLEAN
  BY AnswerKeeps DEF Claim, OpsInv, Types, ClientOK, RowOK
<1>3. ClientOK' /\ PostsOK' /\ PollsOK' /\ Future'
  BY <1>1, <1>2, PostArrives DEF Claim, OpsInv, Types, ClientOK, PostsOK, PollsOK, Future
<1>4. CASE row[k] = NoRow
  <2>1. row' = [row EXCEPT ![k] = Claimed] /\ exec' = [exec EXCEPT ![k] = "running"]
    BY <1>4 DEF Claim
  <2>2. ~ row[k].linked
    BY <1>4 DEF NoRow
  <2>3. made[k] = 0
    BY <2>2 DEF OpsInv, Types, RowOK, Safe, NeverForgotten
  <2>4. RowOK'
    BY <1>1, <2>1 DEF OpsInv, Types, RowOK, Claimed
  <2>5. ExecOK' /\ OkIsLinked'
    BY <2>1 DEF OpsInv, Types, RowOK, ExecOK, OkIsLinked, Claimed
  <2>6. AtMostOnce' /\ NeverForgotten'
    BY <1>1, <2>1, <2>3 DEF OpsInv, Types, RowOK, Safe, AtMostOnce, NeverForgotten
  <2>7. Unmade' /\ Linked'
    BY <1>1, <2>1, <2>3 DEF OpsInv, Types, RowOK, ExecOK, Safe, Unmade, Linked
  <2> QED BY <1>3, <2>4, <2>5, <2>6, <2>7 DEF OpsInv, Types, Safe
<1>5. CASE row[k] # NoRow
  <2>1. UNCHANGED <<row, exec>>
    BY <1>5 DEF Claim
  <2>2. RowOK' /\ ExecOK' /\ OkIsLinked'
    BY <1>1, <2>1 DEF OpsInv, Types, RowOK, ExecOK, OkIsLinked
  <2>3. Safe'
    BY <1>1, <2>1 DEF OpsInv, Safe, AtMostOnce, NeverForgotten, Unmade, Linked
  <2> QED BY <1>3, <2>2, <2>3 DEF OpsInv, Types
<1> QED BY <1>4, <1>5

LEMMA MakeKeeps == ASSUME OpsInv, NEW k \in Key, Make(k) PROVE OpsInv'
<1>1. UNCHANGED <<key, known, posts, polls, faults>>
  BY DEF Make, clientVars
<1>2. ClientOK' /\ PostsOK' /\ PollsOK' /\ Future'
  BY <1>1 DEF OpsInv, Types, ClientOK, PostsOK, PollsOK, Future
<1>3. /\ exec[k] = "running" /\ exec' = [exec EXCEPT ![k] = "made"]
      /\ made' = [made EXCEPT ![k] = made[k] + 1] /\ made[k] = 0
      /\ row' = [row EXCEPT ![k].linked = TRUE]
  BY DEF Make, OpsInv, Safe, Unmade
<1>4. row[k].status = "none" /\ row'[k].status = "none" /\ row'[k].linked
  BY <1>3 DEF OpsInv, Types, RowOK, ExecOK
<1>5. \A x \in Key \ {k} : row'[x] = row[x] /\ exec'[x] = exec[x] /\ made'[x] = made[x]
  BY <1>3 DEF OpsInv, Types, RowOK, ExecOK
<1>6. RowOK'
  <2> DEFINE Row == [status : {"absent", "none", "ok", "failed"}, linked : BOOLEAN]
  <2>1. row'[k] = [status |-> row[k].status, linked |-> TRUE]
    BY <1>3 DEF OpsInv, Types, RowOK
  <2>2. row'[k] \in Row
    BY <2>1 DEF OpsInv, Types, RowOK
  <2>3. row' = [x \in Key |-> row'[x]] /\ \A x \in Key : row'[x] \in Row
    BY <1>3, <1>5, <2>2 DEF OpsInv, Types, RowOK
  <2>4. row' \in [Key -> Row]
    BY <2>3
  <2>5. made' \in [Key -> Nat]
    BY <1>3 DEF OpsInv, Types, RowOK
  <2> QED BY <2>4, <2>5 DEF RowOK
<1>7. ExecOK'
  BY <1>3, <1>4, <1>5 DEF OpsInv, Types, ExecOK
<1>8. OkIsLinked'
  BY <1>4, <1>5 DEF OpsInv, Types, OkIsLinked
<1>9. made'[k] = 1 /\ exec'[k] = "made"
  BY <1>3 DEF OpsInv, Types, RowOK, ExecOK
<1>10. AtMostOnce' /\ Unmade'
  BY <1>5, <1>9 DEF OpsInv, Safe, AtMostOnce, Unmade
<1>11. NeverForgotten' /\ Linked'
  BY <1>4, <1>5 DEF OpsInv, Safe, NeverForgotten, Linked
<1> QED BY <1>2, <1>6, <1>7, <1>8, <1>10, <1>11 DEF OpsInv, Types, Safe

LEMMA HandlerKeeps ==
  ASSUME OpsInv, NEW k \in Key, Reject(k) \/ FailLate(k) PROVE OpsInv'
<1>1. exec' = [exec EXCEPT ![k] = "failing"] /\ exec[k] # "idle"
      /\ UNCHANGED <<key, known, posts, polls, row, made, faults>>
  BY DEF Reject, FailLate, clientVars
<1>2. ClientOK' /\ PostsOK' /\ PollsOK' /\ RowOK' /\ OkIsLinked' /\ Future'
  BY <1>1 DEF OpsInv, Types, ClientOK, PostsOK, PollsOK, RowOK, OkIsLinked, Future
<1>3. ExecOK' /\ Safe'
  BY <1>1 DEF OpsInv, Types, ExecOK, Safe, AtMostOnce, NeverForgotten, Unmade, Linked
<1> QED BY <1>2, <1>3 DEF OpsInv, Types

LEMMA RespondKeeps == ASSUME OpsInv, NEW k \in Key, Respond(k) PROVE OpsInv'
<1> DEFINE s == IF exec[k] = "made" THEN "ok" ELSE "failed"
<1>1. UNCHANGED <<key, posts, polls, made, faults>> /\ row' = [row EXCEPT ![k].status = s]
      /\ exec' = [exec EXCEPT ![k] = "idle"]
  BY DEF Respond
<1>2. known' \in BOOLEAN
  BY AnswerKeeps DEF Respond, OpsInv, Types, ClientOK, RowOK
<1>3. ClientOK' /\ PostsOK' /\ PollsOK' /\ Future'
  BY <1>1, <1>2 DEF OpsInv, Types, ClientOK, PostsOK, PollsOK, Future
<1>4. row'[k].status = s /\ row'[k].linked = row[k].linked /\ exec'[k] = "idle"
  BY <1>1 DEF OpsInv, Types, RowOK, ExecOK
<1>5. \A x \in Key \ {k} : row'[x] = row[x] /\ exec'[x] = exec[x]
  BY <1>1 DEF OpsInv, Types, RowOK, ExecOK
<1>6. RowOK'
  BY <1>1 DEF OpsInv, Types, RowOK
<1>7. ExecOK'
  BY <1>1, <1>4, <1>5 DEF OpsInv, Types, ExecOK
<1>8. OkIsLinked'
  BY <1>4, <1>5 DEF OpsInv, Types, OkIsLinked, Safe, Linked
<1>9. Safe'
  BY <1>1, <1>4, <1>5 DEF OpsInv, Safe, AtMostOnce, NeverForgotten, Unmade, Linked
<1> QED BY <1>3, <1>6, <1>7, <1>8, <1>9 DEF OpsInv, Types

LEMMA FaultsKeep ==
  ASSUME OpsInv, Crash \/ \E k \in Key : RespondFails(k) \/ LosePost(k)
  PROVE  OpsInv'
<1>1. UNCHANGED <<key, known, row, made>> /\ faults' \in 0..MaxFaults
  BY OpsFault DEF Crash, RespondFails, LosePost, clientVars, OpsInv, Types, PostsOK
<1>2. polls' \subseteq polls
  BY DEF Crash, RespondFails, LosePost
<1>3. /\ posts' \in [Key -> 0..MaxPosts]
      /\ \A x \in Key : x > key' => posts'[x] = 0
  <2>1. CASE UNCHANGED posts
    BY <1>1, <2>1 DEF OpsInv, Types, PostsOK, Future
  <2>2. ASSUME NEW k \in Key, LosePost(k) PROVE <1>3
    BY <1>1, <2>2, PostArrives DEF LosePost
  <2> QED BY <2>1, <2>2 DEF Crash, RespondFails
<1>4. ClientOK' /\ PostsOK' /\ PollsOK' /\ RowOK' /\ OkIsLinked' /\ Future'
  BY <1>1, <1>2, <1>3 DEF OpsInv, Types, ClientOK, PostsOK, PollsOK, RowOK, OkIsLinked, Future
<1>5. exec' \in [Key -> {"idle", "running", "made", "failing"}]
      /\ \A x \in Key : exec'[x] \in {"idle", exec[x]}
  BY DEF Crash, RespondFails, LosePost, OpsInv, Types, ExecOK
<1>6. ExecOK'
  BY <1>1, <1>5 DEF OpsInv, Types, ExecOK
<1>7. Safe'
  BY <1>1, <1>5 DEF OpsInv, Safe, AtMostOnce, NeverForgotten, Unmade, Linked
<1> QED BY <1>4, <1>6, <1>7 DEF OpsInv, Types

LEMMA QuestionsKeep ==
  ASSUME OpsInv, Ask \/ \E p \in polls : AskAgain(p)
  PROVE  OpsInv'
<1>1. UNCHANGED <<key, known, posts, row, exec, made>> /\ faults' \in 0..MaxFaults
  BY OpsFault DEF Ask, AskAgain, clientVars, OpsInv, Types, PostsOK
<1>2. PollsOK' /\ \A p \in polls' : p.key <= key'
  <2>1. CASE Ask
    <3> DEFINE new == [key |-> key, step |-> "sent", live |-> TRUE]
    <3>1. polls' = polls \cup {new} /\ \A p \in polls : ~ p.live
      BY <2>1 DEF Ask
    <3>2. new \in [key : Key, step : {"sent", "read"}, live : BOOLEAN] /\ new.key = key
      BY DEF OpsInv, Types, ClientOK
    <3>3. \A p, q \in polls' : p.live /\ q.live => p = q
      BY <3>1
    <3>4. PollsOK'
      BY <3>1, <3>2, <3>3 DEF OpsInv, Types, PollsOK
    <3>5. \A p \in polls' : p.key <= key'
      BY <1>1, <3>1, <3>2 DEF OpsInv, Types, ClientOK, Future
    <3> QED BY <3>4, <3>5
  <2>2. ASSUME NEW p \in polls, AskAgain(p) PROVE <1>2
    BY <1>1, <2>2 DEF AskAgain, OpsInv, Types, PollsOK, Future
  <2> QED BY <2>1, <2>2
<1>3. ClientOK' /\ PostsOK' /\ RowOK' /\ ExecOK' /\ OkIsLinked' /\ Future'
  BY <1>1, <1>2 DEF OpsInv, Types, ClientOK, PostsOK, RowOK, ExecOK, OkIsLinked, Future
<1>4. Safe'
  BY <1>1 DEF OpsInv, Safe, AtMostOnce, NeverForgotten, Unmade, Linked
<1> QED BY <1>2, <1>3, <1>4 DEF OpsInv, Types

LEMMA ResendKeeps ==
  ASSUME OpsInv, NEW p \in polls, Resend(p) \/ UNCHANGED posts, UNCHANGED key
  PROVE  /\ posts' \in [Key -> 0..MaxPosts]
         /\ \A x \in Key : x > key' => posts'[x] = 0
<1>1. p.key \in Key /\ p.key <= key /\ key \in Key
  BY DEF OpsInv, Types, ClientOK, PollsOK, Future
<1>2. \/ UNCHANGED posts
      \/ posts[p.key] < MaxPosts /\ posts' = [posts EXCEPT ![p.key] = posts[p.key] + 1]
  BY DEF Resend
<1>3. posts \in [Key -> 0..MaxPosts] /\ \A x \in Key : x > key => posts[x] = 0
  BY DEF OpsInv, Types, PostsOK, Future
<1>4. CASE UNCHANGED posts
  BY <1>3, <1>4
<1>5. CASE posts[p.key] < MaxPosts /\ posts' = [posts EXCEPT ![p.key] = posts[p.key] + 1]
  <2>1. posts[p.key] + 1 \in 0..MaxPosts
    BY <1>1, <1>3, <1>5, BoundsAssumption
  <2>2. posts' \in [Key -> 0..MaxPosts]
    BY <1>1, <1>3, <1>5, <2>1
  <2>3. \A x \in Key : x > key => x # p.key
    BY <1>1
  <2> QED BY <1>1, <1>3, <1>5, <2>2, <2>3
<1> QED BY <1>2, <1>4, <1>5

LEMMA LookupKeeps == ASSUME OpsInv, NEW p \in polls, Lookup(p) PROVE OpsInv'
<1>1. UNCHANGED <<key, row, exec, made, faults>>
  BY DEF Lookup
<1>2. known' \in BOOLEAN
  BY DEF Lookup, OpsInv, Types, ClientOK
<1>3. /\ posts' \in [Key -> 0..MaxPosts]
      /\ \A x \in Key : x > key' => posts'[x] = 0
  BY <1>1, ResendKeeps DEF Lookup
<1>4. \/ polls' = polls \ {p}
      \/ polls' = (polls \ {p}) \cup {[p EXCEPT !.step = "read"]}
  BY DEF Lookup
<1>5. PollsOK' /\ \A q \in polls' : q.key <= key'
  BY <1>1, <1>4 DEF OpsInv, Types, PollsOK, Future
<1>6. ClientOK' /\ PostsOK' /\ RowOK' /\ ExecOK' /\ OkIsLinked' /\ Future'
  BY <1>1, <1>2, <1>3, <1>5 DEF OpsInv, Types, ClientOK, PostsOK, RowOK, ExecOK, OkIsLinked, Future
<1>7. Safe'
  BY <1>1 DEF OpsInv, Safe, AtMostOnce, NeverForgotten, Unmade, Linked
<1> QED BY <1>5, <1>6, <1>7 DEF OpsInv, Types

LEMMA ReplaceKeeps ==
  ASSUME OpsInv, NEW p \in polls, ReplaceKey(p)
  PROVE  /\ key' \in Key /\ key <= key'
         /\ posts' \in [Key -> 0..MaxPosts]
         /\ \A x \in Key : x > key' => posts'[x] = 0
<1>1. CASE p.live /\ p.key = key /\ key < MaxKeys
  <2>0. key' = key + 1 /\ key < MaxKeys /\ posts' = [posts EXCEPT ![key + 1] = posts[key + 1] + 1]
    <3>1. key' = key + 1 /\ posts' = [posts EXCEPT ![key'] = posts[key'] + 1]
      BY <1>1 DEF ReplaceKey
    <3> QED BY <1>1, <3>1
  <2>1. key' = key + 1 /\ key + 1 \in Key /\ posts' = [posts EXCEPT ![key + 1] = posts[key + 1] + 1]
    BY <2>0, BoundsAssumption DEF OpsInv, Types, ClientOK
  <2>2. posts[key + 1] = 0
    BY <2>1 DEF OpsInv, Types, ClientOK, Future
  <2>3. 0 + 1 \in 0..MaxPosts
    BY BoundsAssumption
  <2>4. posts' \in [Key -> 0..MaxPosts]
    BY <2>1, <2>2, <2>3 DEF OpsInv, Types, PostsOK
  <2>5. \A x \in Key : x > key' => posts'[x] = 0
    BY <2>1 DEF OpsInv, Types, ClientOK, PostsOK, Future
  <2> QED BY <2>1, <2>4, <2>5 DEF OpsInv, Types, ClientOK
<1>2. CASE ~ (p.live /\ p.key = key /\ key < MaxKeys)
  <2>1. UNCHANGED <<key, posts>>
    BY <1>2 DEF ReplaceKey
  <2> QED BY <2>1 DEF OpsInv, Types, ClientOK, PostsOK, Future
<1> QED BY <1>1, <1>2

LEMMA DeleteKeeps == ASSUME OpsInv, NEW p \in polls, Delete(p) PROVE OpsInv'
<1> DEFINE k == p.key
<1>1. k \in Key /\ key \in Key
  BY DEF OpsInv, Types, ClientOK, PollsOK
<1>2. UNCHANGED <<known, exec, made, faults>> /\ polls' = polls \ {p}
  BY DEF Delete
<1>3. /\ key' \in Key /\ key <= key'
      /\ posts' \in [Key -> 0..MaxPosts]
      /\ \A x \in Key : x > key' => posts'[x] = 0
  <2>1. CASE Resend(p) /\ UNCHANGED key
    <3>1. key' = key /\ key =< key
      BY <1>1, <2>1
    <3> QED BY <1>1, <2>1, <3>1, ResendKeeps
  <2>2. CASE ReplaceKey(p)
    BY <2>2, ReplaceKeeps
  <2> QED BY <2>1, <2>2 DEF Delete
<1>4. PollsOK' /\ \A q \in polls' : q.key <= key'
  BY <1>1, <1>2, <1>3 DEF OpsInv, Types, PollsOK, Future
<1>5. ClientOK' /\ PostsOK' /\ Future'
  BY <1>2, <1>3, <1>4 DEF OpsInv, Types, ClientOK, PostsOK, Future
<1>6. CASE UNCHANGED row
  <2>1. RowOK' /\ ExecOK' /\ OkIsLinked'
    BY <1>2, <1>6 DEF OpsInv, Types, RowOK, ExecOK, OkIsLinked
  <2>2. Safe'
    BY <1>2, <1>6 DEF OpsInv, Safe, AtMostOnce, NeverForgotten, Unmade, Linked
  <2> QED BY <1>4, <1>5, <2>1, <2>2 DEF OpsInv, Types
<1>7. CASE Rejected(row[k]) /\ row' = [row EXCEPT ![k] = NoRow]
  <2>1. row[k].status = "failed" /\ ~ row[k].linked
    BY <1>7 DEF Rejected
  <2>2. exec[k] = "idle"
    BY <1>1, <2>1 DEF OpsInv, Types, ExecOK
  <2>3. made[k] = 0
    BY <1>1, <2>1 DEF OpsInv, Types, RowOK, Safe, NeverForgotten
  <2>4. RowOK'
    BY <1>2, <1>7 DEF OpsInv, Types, RowOK, NoRow
  <2>5. /\ row'[k].status = "absent"
        /\ \A x \in Key \ {k} : row'[x] = row[x]
    BY <1>1, <1>7 DEF OpsInv, Types, RowOK, NoRow
  <2>6. ExecOK' /\ OkIsLinked'
    BY <1>1, <1>2, <2>2, <2>5 DEF OpsInv, Types, ExecOK, OkIsLinked
  <2>7. Safe'
    BY <1>1, <1>2, <2>2, <2>3, <2>5 DEF OpsInv, Safe, AtMostOnce, NeverForgotten, Unmade, Linked
  <2> QED BY <1>4, <1>5, <2>4, <2>6, <2>7 DEF OpsInv, Types
<1> QED BY <1>6, <1>7 DEF Delete, Deletable

LEMMA StutterKeeps == ASSUME OpsInv, UNCHANGED opsVars PROVE OpsInv'
<1>1. UNCHANGED <<key, known, posts, polls, row, exec, made, faults>>
  BY DEF opsVars, clientVars
<1>2. ClientOK' /\ PostsOK' /\ PollsOK' /\ RowOK' /\ ExecOK' /\ OkIsLinked' /\ Future'
  BY <1>1 DEF OpsInv, Types, ClientOK, PostsOK, PollsOK, RowOK, ExecOK, OkIsLinked, Future
<1>3. Safe'
  BY <1>1 DEF OpsInv, Safe, AtMostOnce, NeverForgotten, Unmade, Linked
<1> QED BY <1>2, <1>3 DEF OpsInv, Types

LEMMA NextOps == ASSUME OpsInv, [OpsNext]_opsVars PROVE OpsInv'
BY ClaimKeeps, MakeKeeps, HandlerKeeps, RespondKeeps, FaultsKeep, QuestionsKeep,
   LookupKeeps, DeleteKeeps, StutterKeeps DEF OpsNext

THEOREM OpsInvariant == OpsSpec => []OpsInv
BY InitOps, NextOps, PTL DEF OpsSpec

-----------------------------------------------------------------------------
(* The state of the operations is well typed: the client waits for one     *)
(* question at a time, a handler runs only under a row without a status,   *)
(* and a successful response names what was made.                          *)
THEOREM OpsTyped == OpsSpec => []OpsTypeOK
<1>1. OpsInv => OpsTypeOK
  BY DEF OpsInv, Types, ClientOK, PostsOK, PollsOK, RowOK, ExecOK, OkIsLinked, OpsTypeOK
<1> QED BY <1>1, OpsInvariant, PTL

(* "The server executes it once": under a key at most one order or grant   *)
(* is made, however often it is sent, rejected, deleted and sent again.    *)
THEOREM MadeOnce == OpsSpec => []AtMostOnce
BY OpsInvariant, PTL DEF OpsInv, Safe

(* Whatever fails after an order or a grant was made, the row of its key   *)
(* leads to it.                                                            *)
THEOREM Known == OpsSpec => []NeverForgotten
BY OpsInvariant, PTL DEF OpsInv, Safe
=============================================================================
