--------------------------- MODULE EdgeSync_proofs ---------------------------
(***************************************************************************)
(* For every bound on changes, faults and relayed events: the safety of    *)
(* the synchronisation.  What a snapshot under way holds is never ahead of *)
(* the Cloud; whoever knows the returned time of a session, the snapshots  *)
(* included, knows that the session has ended, unless an ended grant has   *)
(* been set back; and of the versions of a booking that are held anywhere  *)
(* no confirmed one is as late as the cancelled one.                       *)
(***************************************************************************)
EXTENDS EdgeSync, FiniteSetTheorems, TLAPS

Forward(old, new) == old.grant = "ended" => new.grant = "ended"
Honest(row) == row.returned => row.grant = "ended"

\* A snapshot whose later tables have not been read yet, and where it is read.
Unread(n) == phase[n] \in {"building", "pulling"}
Origin(n) == IF phase[n] = "building" THEN n ELSE Cloud

SnapHonest(n) ==
  snap[n].returned => IF Unread(n) THEN db[Origin(n)].grant = "ended" ELSE snap[n].grant = "ended"

Returned == ~reopened => (\A n \in Node : Honest(db[n])) /\ (\A n \in Local : SnapHonest(n))

\* The versions of the booking, in databases and in snapshots.
Held == {db[n].booking : n \in Node} \cup {snap[n].booking : n \in Local}

Cancelled(b) == b.status = "cancelled"

Bookings ==
  /\ db[Cloud].booking.status # "none"
  /\ \A b \in Held : b.stamp <= clock
  /\ \A b \in Held : Cancelled(b) => b.stamp <= db[Cloud].booking.stamp
  /\ \A b, c \in Held : Cancelled(b) /\ c.status = "confirmed" => c.stamp < b.stamp
  /\ \A b, c \in Held : Cancelled(b) /\ Cancelled(c) => b = c
  /\ \A b, c \in Held :
       b.status # "none" /\ c.status # "none" /\ b.stamp = c.stamp => b = c

Inv == TypeOK /\ CloudOwnsCatalog /\ Returned /\ Bookings

\* What CancelledStays says of a step.
Replaced(was, is) ==
  Cancelled(was) /\ is # was
    => is.status \in {"started", "completed", "expired"} /\ is.stamp > was.stamp

CancelledStep == \A n \in Node : Replaced(db[n].booking, db'[n].booking)

Sound == Inv' /\ CancelledStep

-----------------------------------------------------------------------------
\* The nodes of a club are three.
LEMMA Distinct == Cloud # Primary /\ Cloud # Manager /\ Primary # Manager
  <1>1. ASSUME NEW a, NEW b PROVE Cardinality({a, b}) \in {1, 2}
    <2>1. IsFiniteSet({a}) /\ Cardinality({a}) = 1
      BY FS_Singleton
    <2>2. {a, b} = {a} \cup {b}
      OBVIOUS
    <2> QED
      BY <2>1, <2>2, FS_AddElement
  <1>2. \A a, b : Cardinality({a, b}) # 3
    BY <1>1
  <1>3. ASSUME Cloud = Primary \/ Cloud = Manager \/ Primary = Manager
        PROVE  \E a, b : {Cloud, Primary, Manager} = {a, b}
    BY <1>3
  <1> QED
    BY <1>2, <1>3, NodesAssumption

LEMMA Nodes == Cloud \in Node /\ Cloud \notin Local /\ Local \subseteq Node /\ Node = Local \cup {Cloud}
  BY Distinct DEF Node, Local

LEMMA EmptyRow == Empty \in Replica /\ Empty.owned = 0 /\ ~Empty.returned /\ Empty.booking = NoBooking
                  /\ NoBooking \in Booking /\ NoBooking.status = "none" /\ NoBooking.stamp = 0
  BY DEF Empty, Replica, PCStatus, NoBooking, Booking

LEMMA RowFacts ==
  ASSUME Inv, NEW n \in Node
  PROVE  /\ db[n] \in Replica /\ db[n].booking \in Booking /\ db[n].booking \in Held
         /\ db[n].booking.stamp \in Nat /\ db[n].owned \in Nat /\ db[n].owned <= db[Cloud].owned
         /\ ~reopened => Honest(db[n])
  <1>1. db[n] \in Replica /\ db[Cloud] \in Replica
    BY Nodes DEF Inv, TypeOK
  <1>2. db[n].booking \in Booking /\ db[n].owned \in Nat
    BY <1>1 DEF Replica
  <1>3. db[n].owned <= db[Cloud].owned
    BY <1>1, Nodes DEF Replica, Inv, CloudOwnsCatalog
  <1> QED
    BY <1>1, <1>2, <1>3 DEF Booking, Held, Inv, Returned

LEMMA SnapFacts ==
  ASSUME Inv, NEW n \in Local
  PROVE  /\ snap[n] \in Replica /\ snap[n].booking \in Booking /\ snap[n].booking \in Held
         /\ snap[n].owned \in Nat /\ snap[n].owned <= db[Cloud].owned
         /\ ~reopened => SnapHonest(n)
  BY DEF Inv, TypeOK, CloudOwnsCatalog, Returned, Held, Replica

LEMMA HeldFacts ==
  ASSUME Inv, NEW b \in Held
  PROVE  b \in Booking /\ b.stamp \in Nat
  BY RowFacts, SnapFacts DEF Held, Booking

LEMMA InitInv == Init => Inv
  <1> SUFFICES ASSUME Init PROVE Inv
    OBVIOUS
  <1>1. /\ Ordered \in Replica /\ Ordered.owned = 1 /\ ~Ordered.returned
        /\ Ordered.booking \in Booking /\ Ordered.booking.status = "confirmed"
        /\ Ordered.booking.stamp = 0
    <2>1. [status |-> "confirmed", slot |-> 1, stamp |-> 0] \in Booking
      BY DEF Booking
    <2> QED
      BY <2>1, EmptyRow DEF Ordered, Replica
  <1>2. PICK mix \in Mixes :
          /\ nodes = mix.nodes /\ lease = mix.at /\ left = mix.changes
          /\ db = [n \in Node |-> IF n \in mix.new THEN Empty ELSE Ordered]
    BY DEF Init
  <1>3. mix.nodes \subseteq Local /\ mix.new \subseteq Local /\ mix.at \in Local
        /\ mix.changes \in [Kind -> Nat]
    BY <1>2, BoundsAssumption
  <1>4. db[Cloud] = Ordered /\ \A n \in Node : db[n] \in {Empty, Ordered}
    BY <1>2, <1>3, Nodes
  <1>5. \A n \in Local : snap[n] = Empty /\ phase[n] = "idle"
    BY DEF Init
  <1>6. TypeOK
    BY <1>1, <1>2, <1>3, EmptyRow DEF Init, TypeOK
  <1>7. CloudOwnsCatalog
    BY <1>1, <1>4, <1>5, EmptyRow, Nodes DEF CloudOwnsCatalog
  <1>8. Returned
    BY <1>1, <1>4, <1>5, EmptyRow DEF Returned, Honest, SnapHonest
  <1>9. Bookings
    <2>1. \A b \in Held : b \in {NoBooking, Ordered.booking}
      BY <1>4, <1>5, EmptyRow DEF Held
    <2>2. clock = 0
      BY DEF Init
    <2> QED
      BY <1>1, <1>4, <2>1, <2>2, EmptyRow DEF Bookings, Cancelled
  <1> QED
    BY <1>6, <1>7, <1>8, <1>9 DEF Inv

(***************************************************************************)
(* Snapshots: most steps keep or drop what a round holds.                  *)
(***************************************************************************)
Kept(n) == snap'[n] = Empty \/ (snap'[n] = snap[n] /\ (phase'[n] = phase[n] \/ ~(Unread(n) \/ Unread(n)')))

Carried(n) ==
  /\ snap'[n].owned <= db[Cloud].owned
  /\ snap'[n].booking \in Held \cup {NoBooking}
  /\ ~reopened' => SnapHonest(n)'

LEMMA Snaps ==
  ASSUME Inv, NEW n \in Local, Kept(n),
         ~reopened' => ~reopened /\ \A m \in Node : Forward(db[m], db'[m])
  PROVE  Carried(n)
  <1>1. CASE snap'[n] = Empty
    BY <1>1, EmptyRow, RowFacts, Nodes DEF Carried, SnapHonest
  <1>2. CASE snap'[n] = snap[n] /\ (phase'[n] = phase[n] \/ ~(Unread(n) \/ Unread(n)'))
    <2>1. snap'[n].owned <= db[Cloud].owned /\ snap'[n].booking \in Held
      BY <1>2, SnapFacts
    <2>2. ASSUME ~reopened', snap'[n].returned
          PROVE  IF Unread(n)' THEN db'[Origin(n)'].grant = "ended" ELSE snap'[n].grant = "ended"
      <3>1. SnapHonest(n) /\ \A m \in Node : Forward(db[m], db'[m])
        BY <2>2, SnapFacts
      <3>2. Unread(n)' = Unread(n) /\ (Unread(n) => Origin(n)' = Origin(n))
        BY <1>2 DEF Unread, Origin
      <3>3. Origin(n) \in Node
        BY Nodes DEF Origin
      <3> QED
        BY <1>2, <2>2, <3>1, <3>2, <3>3 DEF SnapHonest, Forward
    <2> QED
      BY <2>1, <2>2 DEF Carried, SnapHonest
  <1> QED
    BY <1>1, <1>2 DEF Kept

(***************************************************************************)
(* Bookings: what is held afterwards was held before or is written new,    *)
(* and the Cloud's does not get older.                                     *)
(***************************************************************************)
LEMMA BookingsKept ==
  ASSUME Inv, \A b \in Held' : b \in Held \cup {NoBooking},
         clock' \in Nat, clock' >= clock,
         db'[Cloud].booking.status # "none",
         db'[Cloud].booking.stamp >= db[Cloud].booking.stamp,
         db'[Cloud].booking.stamp \in Nat
  PROVE  Bookings'
  <1>1. Bookings /\ clock \in Nat /\ db[Cloud].booking.stamp \in Nat
    BY Nodes, RowFacts DEF Inv, TypeOK
  <1>2. NoBooking.status = "none" /\ NoBooking.stamp = 0
    BY EmptyRow
  <1>3. \A b \in Held : b.stamp \in Nat
    BY HeldFacts
  <1>4. \A b \in Held' : b.stamp <= clock'
    BY <1>1, <1>2, <1>3 DEF Bookings
  <1>5. \A b \in Held' : Cancelled(b) => b.stamp <= db'[Cloud].booking.stamp
    BY <1>1, <1>2, <1>3 DEF Bookings, Cancelled
  <1>6. /\ \A b, c \in Held' : Cancelled(b) /\ c.status = "confirmed" => c.stamp < b.stamp
        /\ \A b, c \in Held' : Cancelled(b) /\ Cancelled(c) => b = c
        /\ \A b, c \in Held' :
             b.status # "none" /\ c.status # "none" /\ b.stamp = c.stamp => b = c
    BY <1>1, <1>2 DEF Bookings, Cancelled
  <1> QED
    BY <1>4, <1>5, <1>6 DEF Bookings

LEMMA BookingWritten ==
  ASSUME Inv, NEW new, new.status # "none", new.stamp = clock + 1,
         \A b \in Held' : b \in Held \cup {NoBooking, new},
         new.status \in {"confirmed", "cancelled"} => \A b \in Held : ~Cancelled(b),
         clock' = clock + 1,
         db'[Cloud].booking.status # "none",
         db'[Cloud].booking.stamp \in Nat,
         db'[Cloud].booking.stamp >= db[Cloud].booking.stamp,
         Cancelled(new) => db'[Cloud].booking = new
  PROVE  Bookings'
  <1>1. Bookings /\ clock \in Nat /\ db[Cloud].booking.stamp \in Nat
    BY Nodes, RowFacts DEF Inv, TypeOK
  <1>2. NoBooking.status = "none" /\ NoBooking.stamp = 0
    BY EmptyRow
  <1>3. \A b \in Held : b.stamp \in Nat /\ b.stamp <= clock
    BY <1>1, HeldFacts DEF Bookings
  <1>4. \A b \in Held' : b.stamp <= clock'
    BY <1>1, <1>2, <1>3
  <1>5. \A b \in Held' : Cancelled(b) => b.stamp <= db'[Cloud].booking.stamp
    BY <1>1, <1>2, <1>3 DEF Bookings, Cancelled
  <1>6. \A b, c \in Held' : Cancelled(b) /\ c.status = "confirmed" => c.stamp < b.stamp
    BY <1>1, <1>2, <1>3 DEF Bookings, Cancelled
  <1>7. \A b, c \in Held' : Cancelled(b) /\ Cancelled(c) => b = c
    BY <1>1, <1>2 DEF Bookings, Cancelled
  <1>8. \A b, c \in Held' :
          b.status # "none" /\ c.status # "none" /\ b.stamp = c.stamp => b = c
    BY <1>1, <1>2, <1>3 DEF Bookings
  <1> QED
    BY <1>4, <1>5, <1>6, <1>7, <1>8 DEF Bookings

-----------------------------------------------------------------------------
(***************************************************************************)
(* Three kinds of steps.  A quiet one writes no booking and no catalogue.  *)
(***************************************************************************)
Calm == \A n \in Node : db'[n].owned = db[n].owned /\ db'[n].booking = db[n].booking

LEMMA QuietStep ==
  ASSUME Inv, TypeOK', Calm, clock' = clock, \A n \in Local : Carried(n),
         ~reopened' => \A n \in Node : Honest(db'[n])
  PROVE  Sound
  <1>1. CloudOwnsCatalog'
    BY Nodes, RowFacts DEF CloudOwnsCatalog, Calm, Carried
  <1>2. Returned'
    BY DEF Returned, Carried
  <1>3. \A b \in Held' : b \in Held \cup {NoBooking}
    BY DEF Held, Calm, Carried
  <1>4. /\ clock' \in Nat /\ clock' >= clock
        /\ db'[Cloud].booking.status # "none"
        /\ db'[Cloud].booking.stamp >= db[Cloud].booking.stamp
        /\ db'[Cloud].booking.stamp \in Nat
    BY Nodes, RowFacts DEF Inv, TypeOK, Bookings, Calm
  <1>5. Bookings'
    BY <1>3, <1>4, BookingsKept
  <1>6. CancelledStep
    BY DEF CancelledStep, Replaced, Calm
  <1> QED
    BY <1>1, <1>2, <1>5, <1>6 DEF Inv, Sound

LEMMA Undisturbed ==
  ASSUME Inv, TypeOK', UNCHANGED <<db, clock, reopened>>, \A n \in Local : Kept(n)
  PROVE  Sound
  <1>1. ~reopened' => ~reopened /\ \A m \in Node : Honest(db'[m]) /\ Forward(db[m], db'[m])
    BY RowFacts DEF Forward
  <1>2. \A n \in Local : Carried(n)
    BY <1>1, Snaps
  <1> QED
    BY <1>1, <1>2, QuietStep DEF Calm

(***************************************************************************)
(* One node writes its database, at most with a new version of a booking   *)
(* that was not cancelled; only the Cloud confirms or cancels.             *)
(***************************************************************************)
Written(n, is) ==
  LET was == db[n].booking IN
  \/ is = was
  \/ /\ is \in Booking /\ is.status # "none" /\ is.stamp = clock + 1
     /\ was.status \notin {"none", "cancelled"}
     /\ is.status \in {"confirmed", "cancelled"} => n = Cloud /\ was.status = "confirmed"

LEMMA PutTypes ==
  ASSUME Inv, NEW n \in Node, NEW row \in Replica, Put(n, row)
  PROVE  db' \in [Node -> Replica] /\ clock' \in Nat
         /\ db'[n] = row /\ \A m \in Node \ {n} : db'[m] = db[m]
  BY DEF Put, Inv, TypeOK

LEMMA PutStep ==
  ASSUME Inv, TypeOK', NEW n \in Node, NEW row \in Replica, Put(n, row),
         row.owned = db[n].owned \/ (n = Cloud /\ row.owned >= db[Cloud].owned),
         Written(n, row.booking), \A m \in Local : Kept(m),
         ~reopened' => ~reopened /\ Honest(row) /\ Forward(db[n], row)
  PROVE  Sound
  <1>1. db'[n] = row /\ \A m \in Node \ {n} : db'[m] = db[m]
    BY PutTypes
  <1>2. Cloud \in Node /\ \A m \in Node :
          /\ db[m] \in Replica /\ db[m].booking \in Held /\ db[m].booking.stamp \in Nat
          /\ db[m].owned \in Nat /\ db[m].owned <= db[Cloud].owned
          /\ ~reopened => Honest(db[m])
    BY Nodes, RowFacts
  <1>3. row.owned \in Nat
    BY DEF Replica
  <1>4. db'[Cloud].owned >= db[Cloud].owned /\ \A m \in Local : db'[m].owned <= db'[Cloud].owned
        /\ db'[Cloud].owned \in Nat
    BY <1>1, <1>2, <1>3, Nodes
  <1>5. ~reopened' => ~reopened /\ \A m \in Node : Honest(db'[m]) /\ Forward(db[m], db'[m])
    BY <1>1, <1>2 DEF Forward
  <1>6. \A m \in Local : Carried(m)
    BY <1>5, Snaps
  <1>7. CloudOwnsCatalog'
    <2>1. \A m \in Local : snap'[m].owned \in Nat
      BY DEF TypeOK, Replica
    <2> QED
      BY <1>2, <1>4, <1>6, <2>1 DEF CloudOwnsCatalog, Carried
  <1>8. Returned'
    BY <1>5, <1>6 DEF Returned, Carried
  <1>9. clock \in Nat /\ db[Cloud].booking.stamp \in Nat /\ db[Cloud].booking.status # "none"
        /\ db[Cloud].booking.stamp <= clock
    BY <1>2 DEF Inv, TypeOK, Bookings
  <1>10. db'[Cloud].booking.stamp \in Nat
    BY <1>2, RowFacts DEF TypeOK, Replica, Booking
  <1>11. CASE row.booking = db[n].booking
    <2>1. clock' = clock /\ \A m \in Node : db'[m].booking = db[m].booking
      BY <1>1, <1>11 DEF Put
    <2>2. \A b \in Held' : b \in Held \cup {NoBooking}
      BY <1>6, <2>1 DEF Held, Carried
    <2>3. Bookings'
      BY <1>2, <1>9, <2>1, <2>2, BookingsKept
    <2>4. CancelledStep
      BY <2>1 DEF CancelledStep, Replaced
    <2> QED
      BY <1>7, <1>8, <2>3, <2>4 DEF Sound, Inv
  <1>12. CASE row.booking # db[n].booking
    <2> DEFINE new == row.booking
    <2>1. /\ new.status # "none" /\ new.stamp = clock + 1
          /\ db[n].booking.status \notin {"none", "cancelled"}
          /\ new.status \in {"confirmed", "cancelled"} => n = Cloud /\ db[n].booking.status = "confirmed"
      BY <1>12 DEF Written
    <2>2. clock' = clock + 1
      <3>1. db[n].booking.stamp <= clock /\ db[n].booking.stamp \in Nat
        BY <1>2 DEF Inv, Bookings
      <3>2. new.stamp # db[n].booking.stamp
        BY <1>9, <2>1, <3>1
      <3> QED
        BY <3>2 DEF Put
    <2>3. \A b \in Held' : b \in Held \cup {NoBooking, new}
      <3>1. \A m \in Node : db'[m].booking \in Held \cup {new}
        BY <1>1, <1>2
      <3> QED
        BY <1>6, <3>1 DEF Held, Carried
    <2>4. new.status \in {"confirmed", "cancelled"} => \A b \in Held : ~Cancelled(b)
      <3> SUFFICES ASSUME new.status \in {"confirmed", "cancelled"}, NEW b \in Held, Cancelled(b)
                   PROVE  FALSE
        OBVIOUS
      <3>1. db[Cloud].booking.status = "confirmed" /\ db[Cloud].booking \in Held
        BY <1>2, <2>1
      <3>2. db[Cloud].booking.stamp < b.stamp /\ b.stamp <= db[Cloud].booking.stamp
        BY <3>1 DEF Inv, Bookings
      <3> QED
        BY <1>9, <3>2, HeldFacts
    <2>5. /\ db'[Cloud].booking.status # "none"
          /\ db'[Cloud].booking.stamp >= db[Cloud].booking.stamp
          /\ Cancelled(new) => db'[Cloud].booking = new
      <3>1. CASE n = Cloud
        BY <1>1, <1>9, <2>1, <3>1
      <3>2. CASE n # Cloud
        BY <1>1, <1>2, <1>9, <2>1, <3>2 DEF Cancelled
      <3> QED
        BY <3>1, <3>2
    <2>6. Bookings'
      <3> HIDE DEF new
      <3> QED
        BY <1>10, <2>1, <2>2, <2>3, <2>4, <2>5, BookingWritten
    <2>7. CancelledStep
      BY <1>1, <2>1 DEF CancelledStep, Replaced, Cancelled
    <2> QED
      BY <1>7, <1>8, <2>6, <2>7 DEF Sound, Inv
  <1> QED
    BY <1>11, <1>12

(***************************************************************************)
(* A merge: of two rows that may be held it makes another; ended rows      *)
(* stay; a returned session is taken over together with its end; and a     *)
(* booking gives way only to a later version, which is not confirmed if it *)
(* was cancelled.                                                          *)
(***************************************************************************)
LEMMA MergeFacts ==
  ASSUME NEW n \in Node, NEW mine \in Replica, NEW its \in Replica
  PROVE  LET row == Merge(n, mine, its)
         IN /\ row \in Replica
            /\ row.owned = MergeOwned(n, mine, its)
            /\ row.booking = MergeBooking(mine.booking, its.booking)
            /\ mine.grant = "ended" => row.grant = "ended"
            /\ Honest(mine) /\ Honest(its) => Honest(row)
  <1> DEFINE row == Merge(n, mine, its)
  <1>1. MergeOwned(n, mine, its) \in Nat
    BY DEF MergeOwned, Replica
  <1>2. MergeOrder(mine, its) \in {"none", "created", "paid"}
    BY DEF MergeOrder, Replica
  <1>3. MergeGrant(mine, its) \in {"none", "pending", "accepted", "failed", "ended"}
    BY DEF MergeGrant, Replica
  <1>4. MergeStatus(its, MergeGrant(mine, its)) \in PCStatus
    BY DEF MergeStatus, Replica, PCStatus
  <1>5. MergeBooking(mine.booking, its.booking) \in Booking
    BY DEF MergeBooking, Replica
  <1>6. (mine.returned \/ its.returned) \in BOOLEAN
    OBVIOUS
  <1>7. row \in Replica /\ row.owned = MergeOwned(n, mine, its) /\ row.grant = MergeGrant(mine, its)
        /\ row.booking = MergeBooking(mine.booking, its.booking)
        /\ row.returned = (mine.returned \/ its.returned)
    <2>1. row = [owned |-> MergeOwned(n, mine, its), status |-> MergeStatus(its, MergeGrant(mine, its)),
                 order |-> MergeOrder(mine, its), grant |-> MergeGrant(mine, its),
                 booking |-> MergeBooking(mine.booking, its.booking),
                 returned |-> mine.returned \/ its.returned]
      BY DEF Merge
    <2> HIDE DEF row
    <2> QED
      BY <2>1, <1>1, <1>2, <1>3, <1>4, <1>5, <1>6 DEF Replica
  <1>8. mine.grant = "ended" => row.grant = "ended"
    BY <1>7 DEF MergeGrant
  <1>9. Honest(mine) /\ Honest(its) => Honest(row)
    BY <1>7 DEF MergeGrant, Honest, Replica
  <1> QED
    BY <1>7, <1>8, <1>9

LEMMA MergeStep ==
  ASSUME Inv, TypeOK', NEW n \in Node, NEW its \in Replica,
         db' = [db EXCEPT ![n] = Merge(n, db[n], its)], UNCHANGED <<clock, reopened>>,
         its.owned <= db[Cloud].owned, its.booking \in Held, ~reopened => Honest(its),
         \A m \in Local : Kept(m)
  PROVE  Sound
  <1> DEFINE row == Merge(n, db[n], its)
  <1>1. \A m \in Node :
          /\ db[m] \in Replica /\ db[m].booking \in Held /\ db[m].booking.stamp \in Nat
          /\ db[m].owned \in Nat /\ db[m].owned <= db[Cloud].owned
          /\ ~reopened => Honest(db[m])
    BY RowFacts
  <1>2. /\ row \in Replica
        /\ row.owned = MergeOwned(n, db[n], its)
        /\ row.booking = MergeBooking(db[n].booking, its.booking)
        /\ Forward(db[n], row)
        /\ Honest(db[n]) /\ Honest(its) => Honest(row)
    BY <1>1, MergeFacts DEF Forward
  <1> HIDE DEF row
  <1>3. db'[n] = row /\ \A m \in Node \ {n} : db'[m] = db[m]
    BY DEF Inv, TypeOK, row
  <1>4. ~reopened' => ~reopened /\ \A m \in Node : Honest(db'[m]) /\ Forward(db[m], db'[m])
    BY <1>1, <1>2, <1>3 DEF Forward
  <1>5. \A m \in Local : Carried(m)
    BY <1>4, Snaps
  <1>6. its.owned \in Nat /\ its.booking.stamp \in Nat
    BY HeldFacts DEF Replica
  <1>7. db'[Cloud].owned = db[Cloud].owned /\ \A m \in Local : db'[m].owned <= db'[Cloud].owned
    <2>1. n = Cloud => row.owned = db[Cloud].owned
      BY <1>1, <1>2, <1>6, Nodes DEF MergeOwned
    <2>2. n \in Local => row.owned = its.owned
      BY <1>2 DEF MergeOwned
    <2> QED
      BY <1>1, <1>3, <2>1, <2>2, Nodes
  <1>8. CloudOwnsCatalog'
    BY <1>5, <1>7 DEF CloudOwnsCatalog, Carried
  <1>9. Returned'
    BY <1>4, <1>5 DEF Returned, Carried
  <1>10. row.booking \in {db[n].booking, its.booking}
    BY <1>2 DEF MergeBooking
  <1>11. \A b \in Held' : b \in Held \cup {NoBooking}
    <2>1. \A m \in Node : db'[m].booking \in Held
      BY <1>1, <1>3, <1>10
    <2> QED
      BY <1>5, <2>1 DEF Held, Carried
  <1>12. /\ db'[Cloud].booking.status # "none"
         /\ db'[Cloud].booking.stamp >= db[Cloud].booking.stamp
         /\ db'[Cloud].booking.stamp \in Nat
    <2>1. db[Cloud].booking.status # "none" /\ db[Cloud].booking.stamp \in Nat
      BY <1>1, Nodes DEF Inv, Bookings
    <2>2. CASE n = Cloud
      BY <1>2, <1>3, <1>6, <2>1, <2>2 DEF MergeBooking
    <2>3. CASE n # Cloud
      BY <1>3, <2>1, <2>3, Nodes
    <2> QED
      BY <2>2, <2>3
  <1>13. Bookings'
    <2>1. clock' \in Nat /\ clock' >= clock
      BY DEF Inv, TypeOK
    <2> QED
      BY <1>11, <1>12, <2>1, BookingsKept
  <1>14. Replaced(db[n].booking, row.booking)
    <2> SUFFICES ASSUME Cancelled(db[n].booking), row.booking # db[n].booking
                 PROVE  row.booking.status \in {"started", "completed", "expired"}
                        /\ row.booking.stamp > db[n].booking.stamp
      BY DEF Replaced
    <2>1. /\ row.booking = its.booking /\ its.booking.status # "none"
          /\ its.booking.stamp >= db[n].booking.stamp
      BY <1>2 DEF MergeBooking, Cancelled
    <2>2. ~Cancelled(its.booking) /\ its.booking.status # "confirmed"
          /\ its.booking.stamp # db[n].booking.stamp
      BY <1>1, <1>6, <2>1 DEF Inv, Bookings, Cancelled
    <2>3. its.booking \in Booking
      BY HeldFacts
    <2> QED
      BY <1>1, <1>6, <2>1, <2>2, <2>3 DEF Booking, Cancelled
  <1>15. CancelledStep
    BY <1>3, <1>14 DEF CancelledStep, Replaced
  <1> QED
    BY <1>8, <1>9, <1>13, <1>15 DEF Inv, Sound

-----------------------------------------------------------------------------
(***************************************************************************)
(* The steps of a round.                                                   *)
(***************************************************************************)
Phase == {"idle", "building", "checked", "pull", "pulling", "start"}

\* A round takes or drops a row ...
LEMMA HandsTypes ==
  ASSUME Inv, NEW n \in Local, NEW row \in Replica, NEW p \in Phase, Hold(n, row), Goto(n, p)
  PROVE  /\ snap' \in [Local -> Replica] /\ phase' \in [Local -> Phase]
         /\ snap'[n] = row /\ phase'[n] = p
         /\ \A m \in Local \ {n} : snap'[m] = snap[m] /\ phase'[m] = phase[m]
         /\ \A m \in Local \ {n} : Kept(m)
  <1>1. /\ snap' \in [Local -> Replica] /\ phase' \in [Local -> Phase]
        /\ snap'[n] = row /\ phase'[n] = p
        /\ \A m \in Local \ {n} : snap'[m] = snap[m] /\ phase'[m] = phase[m]
    BY DEF Inv, TypeOK, Hold, Goto, Phase
  <1> QED
    BY <1>1 DEF Kept

\* ... and the databases are as they were, or a session in the Cloud's is over.
LEMMA Hands ==
  ASSUME Inv, NEW n \in Local, NEW row \in Replica, NEW p \in Phase, Hold(n, row), Goto(n, p),
         Unmoved, UNCHANGED clock, db' \in [Node -> Replica], Calm,
         row.owned <= db[Cloud].owned, row.booking \in Held \cup {NoBooking},
         ~reopened => \A m \in Node : Honest(db'[m]) /\ Forward(db[m], db'[m]),
         ~reopened /\ row.returned =>
           IF p \in {"building", "pulling"}
             THEN db'[IF p = "building" THEN n ELSE Cloud].grant = "ended"
             ELSE row.grant = "ended"
  PROVE  Sound
  <1>1. /\ snap' \in [Local -> Replica] /\ phase' \in [Local -> Phase]
        /\ snap'[n] = row /\ phase'[n] = p /\ \A m \in Local \ {n} : Kept(m)
    BY HandsTypes
  <1>2. TypeOK'
    BY <1>1 DEF Inv, TypeOK, Unmoved, Phase
  <1>3. reopened' = reopened
    BY DEF Unmoved
  <1>4. \A m \in Local \ {n} : Carried(m)
    BY <1>1, <1>3, Snaps
  <1>5. Carried(n)
    BY <1>1, <1>3 DEF Carried, SnapHonest, Unread, Origin
  <1> QED
    BY <1>2, <1>3, <1>4, <1>5, QuietStep

\* What a snapshot holds after its later tables.
LEMMA ReadTables ==
  ASSUME NEW early \in Replica, NEW row \in Replica
  PROVE  LET full == LaterTables(early, row)
         IN /\ full \in Replica /\ full.owned = early.owned /\ full.booking = early.booking
            /\ full.returned = early.returned /\ full.grant = row.grant
  BY DEF LaterTables, Replica

LEMMA ExpiredFacts ==
  ASSUME NEW row \in Replica
  PROVE  LET is == Expired(row)
         IN /\ is \in Replica /\ is.owned = row.owned /\ is.booking = row.booking
            /\ Forward(row, is) /\ (Honest(row) => Honest(is))
  BY DEF Expired, Replica, PCStatus, Forward, Honest

LEMMA PushSteps ==
  ASSUME Inv, NEW n \in Local, BeginPush(n) \/ FinishSnapshot(n)
  PROVE  Sound
  <1>1. /\ db \in [Node -> Replica] /\ n \in Node /\ phase \in [Local -> Phase]
        /\ \A m \in Node : ~reopened => Honest(db[m]) /\ Forward(db[m], db[m])
    BY Nodes, RowFacts DEF Inv, TypeOK, Phase, Forward
  <1>2. CASE BeginPush(n)
    <2>1. /\ db[n] \in Replica /\ db[n].booking \in Held /\ db[n].owned <= db[Cloud].owned
          /\ ~reopened => Honest(db[n])
      BY <1>1, RowFacts
    <2>2. Hold(n, db[n]) /\ Goto(n, "building") /\ "building" \in Phase
          /\ Unmoved /\ UNCHANGED <<db, clock>>
      BY <1>2 DEF BeginPush, FirstTables, Phase
    <2> QED
      BY <1>1, <2>1, <2>2, Hands DEF Calm, Honest
  <1>3. CASE FinishSnapshot(n) /\ lease = n
    <2> DEFINE full == LaterTables(snap[n], db[n])
    <2>1. /\ full \in Replica /\ full.owned = snap[n].owned /\ full.booking = snap[n].booking
          /\ full.returned = snap[n].returned /\ full.grant = db[n].grant
      BY <1>1, SnapFacts, ReadTables
    <2>2. full.owned <= db[Cloud].owned /\ full.booking \in Held
      BY <2>1, SnapFacts
    <2>3. ~reopened /\ full.returned => full.grant = "ended"
      BY <1>3, <2>1, SnapFacts DEF FinishSnapshot, SnapHonest, Unread, Origin
    <2>4. Hold(n, full) /\ Goto(n, "checked") /\ "checked" \in Phase
          /\ Unmoved /\ UNCHANGED <<db, clock>>
      BY <1>3 DEF FinishSnapshot, Phase
    <2> HIDE DEF full
    <2> QED
      BY <1>1, <2>1, <2>2, <2>3, <2>4, Hands DEF Calm
  <1>4. CASE FinishSnapshot(n) /\ lease # n
    <2>1. Hold(n, Empty) /\ Goto(n, "pull") /\ "pull" \in Phase
          /\ Unmoved /\ UNCHANGED <<db, clock>>
      BY <1>4 DEF FinishSnapshot, Phase
    <2>2. Empty.owned <= db[Cloud].owned
      BY EmptyRow, RowFacts, Nodes
    <2> QED
      BY <1>1, <2>1, <2>2, EmptyRow, Hands DEF Calm
  <1> QED
    BY <1>2, <1>3, <1>4

LEMMA PullStep ==
  ASSUME Inv, NEW n \in Local, Pull(n)
  PROVE  Sound
  <1> DEFINE row == Expired(db[Cloud])
  <1>1. /\ db \in [Node -> Replica] /\ Cloud \in Node /\ db[Cloud].booking \in Held
        /\ db[Cloud] \in Replica /\ db[Cloud].owned \in Nat
        /\ \A m \in Node : (~reopened => Honest(db[m])) /\ Forward(db[m], db[m])
    BY Nodes, RowFacts DEF Inv, TypeOK, Forward
  <1>2. /\ row \in Replica /\ row.owned = db[Cloud].owned /\ row.booking = db[Cloud].booking
        /\ Forward(db[Cloud], row) /\ (Honest(db[Cloud]) => Honest(row))
    BY <1>1, ExpiredFacts
  <1>3. db' = [db EXCEPT ![Cloud] = row] /\ Hold(n, row) /\ Goto(n, "pulling")
        /\ "pulling" \in Phase /\ Unmoved /\ UNCHANGED clock
    BY <1>1 DEF Pull, FirstTables, Phase
  <1> HIDE DEF row
  <1>4. /\ db' \in [Node -> Replica] /\ Calm /\ db'[Cloud] = row
        /\ ~reopened => \A m \in Node : Honest(db'[m]) /\ Forward(db[m], db'[m])
    BY <1>1, <1>2, <1>3 DEF Calm
  <1> QED
    BY <1>1, <1>2, <1>3, <1>4, Hands DEF Honest

\* What a round holds is merged into a database and dropped.
LEMMA MergeHeld ==
  ASSUME Inv, NEW n \in Local, NEW k \in Node, NEW its \in Replica, NEW p \in Phase,
         db' = [db EXCEPT ![k] = Merge(k, db[k], its)],
         Hold(n, Empty), Goto(n, p), Unmoved, UNCHANGED clock,
         its.owned <= db[Cloud].owned, its.booking \in Held, ~reopened => Honest(its)
  PROVE  Sound
  <1>1. /\ snap' \in [Local -> Replica] /\ phase' \in [Local -> Phase]
        /\ snap'[n] = Empty /\ \A m \in Local \ {n} : Kept(m)
    BY EmptyRow, HandsTypes
  <1>2. \A m \in Local : Kept(m)
    BY <1>1 DEF Kept
  <1>3. db \in [Node -> Replica] /\ Merge(k, db[k], its) \in Replica
    BY RowFacts, MergeFacts DEF Inv, TypeOK
  <1>4. TypeOK'
    BY <1>1, <1>3 DEF Inv, TypeOK, Unmoved, Phase
  <1> QED
    BY <1>2, <1>4, MergeStep DEF Unmoved

LEMMA ApplySteps ==
  ASSUME Inv, NEW n \in Local, ApplyAtCloud(n) \/ ApplyPulled(n)
  PROVE  Sound
  <1>1. /\ snap[n] \in Replica /\ snap[n].booking \in Held /\ snap[n].owned <= db[Cloud].owned
        /\ ~reopened => SnapHonest(n)
    BY SnapFacts
  <1>2. Cloud \in Node /\ n \in Node /\ db[Cloud] \in Replica
    BY Nodes, RowFacts
  <1>3. CASE ApplyAtCloud(n)
    <2>1. ~reopened => Honest(snap[n])
      BY <1>1, <1>3 DEF ApplyAtCloud, SnapHonest, Unread, Honest
    <2>2. /\ db' = [db EXCEPT ![Cloud] = Merge(Cloud, db[Cloud], snap[n])] /\ Hold(n, Empty)
          /\ Goto(n, "pull") /\ "pull" \in Phase /\ Unmoved /\ UNCHANGED clock
      BY <1>3 DEF ApplyAtCloud, Phase
    <2> QED
      BY <1>1, <1>2, <2>1, <2>2, MergeHeld
  <1>4. CASE ApplyPulled(n)
    <2> DEFINE full == LaterTables(snap[n], db[Cloud])
    <2>1. /\ full \in Replica /\ full.owned = snap[n].owned /\ full.booking = snap[n].booking
          /\ full.returned = snap[n].returned /\ full.grant = db[Cloud].grant
      BY <1>1, <1>2, ReadTables
    <2>2. ~reopened => Honest(full)
      BY <1>1, <1>4, <2>1 DEF ApplyPulled, SnapHonest, Unread, Origin, Honest
    <2>3. /\ db' = [db EXCEPT ![n] = Merge(n, db[n], full)] /\ Hold(n, Empty)
          /\ \E p \in Phase : Goto(n, p)
          /\ Unmoved /\ UNCHANGED clock
      BY <1>4 DEF ApplyPulled, Phase
    <2> HIDE DEF full
    <2> QED
      BY <1>1, <1>2, <2>1, <2>2, <2>3, MergeHeld
  <1> QED
    BY <1>3, <1>4

-----------------------------------------------------------------------------
(***************************************************************************)
(* The writes of one node.                                                 *)
(***************************************************************************)
\* What is neither in a database nor in the hands of a round.
Outside ==
  /\ nodes \subseteq Local /\ lease \in Local
  /\ session \in {"none", "running", "stopped", "over"}
  /\ relayed \subseteq Event
  /\ hour \in Nat /\ left \in [Kind -> Nat] /\ reopened \in BOOLEAN

LEMMA OutsideNow == Inv => Outside
  BY DEF Inv, TypeOK, Outside

LEMMA Writes ==
  ASSUME Inv, Outside', UNCHANGED snap, NEW n \in Node, NEW row \in Replica, Put(n, row),
         phase' \in [Local -> Phase],
         \A m \in Local : phase'[m] = phase[m] \/ ~(Unread(m) \/ Unread(m)'),
         row.owned = db[n].owned \/ (n = Cloud /\ row.owned >= db[Cloud].owned),
         Written(n, row.booking),
         ~reopened' => ~reopened /\ Honest(row) /\ Forward(db[n], row)
  PROVE  Sound
  <1>1. db' \in [Node -> Replica] /\ clock' \in Nat
    BY PutTypes
  <1>2. TypeOK'
    BY <1>1 DEF Inv, TypeOK, Outside, Phase
  <1>3. \A m \in Local : Kept(m)
    BY DEF Kept
  <1> QED
    BY <1>2, <1>3, PutStep

\* The new versions of a booking.
LEMMA Versions ==
  ASSUME Inv, NEW n \in Node, NEW b \in Booking, db[n].booking = b
  PROVE  /\ Written(n, b)
         /\ \A status \in {"started", "expired", "completed"} :
              b.status \in Open => Written(n, Stamped(b, status))
         /\ Written(n, Claimed(b)) /\ Written(n, Consumed(b))
         /\ Claimed(b) \in Booking /\ Consumed(b) \in Booking
         /\ \A status \in {"started", "expired", "completed"} : Stamped(b, status) \in Booking
  <1>1. clock + 1 \in Nat
    BY DEF Inv, TypeOK
  <1>2. ASSUME NEW status \in {"started", "expired", "completed"}
        PROVE  /\ Stamped(b, status) \in Booking /\ Stamped(b, status).status = status
               /\ Stamped(b, status).stamp = clock + 1
    <2> DEFINE next == clock + 1
    <2> HIDE DEF next
    <2>1. next \in Nat
      BY <1>1 DEF next
    <2>2. Stamped(b, status) = [b EXCEPT !.status = status, !.stamp = next]
      BY DEF Stamped, next
    <2>3. /\ Stamped(b, status) \in Booking /\ Stamped(b, status).status = status
          /\ Stamped(b, status).stamp = next
      BY <2>1, <2>2 DEF Booking
    <2> QED
      BY <2>3 DEF next
  <1>3. \A status \in {"started", "expired", "completed"} :
          b.status \in Open => Written(n, Stamped(b, status))
    BY <1>2 DEF Written, Open
  <1>4. Written(n, b)
    BY DEF Written
  <1>5. Written(n, Claimed(b)) /\ Claimed(b) \in Booking
    BY <1>2, <1>3, <1>4 DEF Claimed, Open
  <1>6. Written(n, Consumed(b)) /\ Consumed(b) \in Booking
    BY <1>2, <1>3, <1>4 DEF Consumed
  <1> QED
    BY <1>2, <1>3, <1>4, <1>5, <1>6

LEMMA FinishedFacts ==
  ASSUME Inv, NEW n \in Node
  PROVE  LET row == Finished(db[n])
         IN /\ row \in Replica /\ row.owned = db[n].owned /\ row.grant = "ended"
            /\ Written(n, row.booking)
  <1> DEFINE b == Consumed(db[n].booking)
             back == db[n].returned \/ session # "over"
  <1>1. db[n] \in Replica /\ db[n].booking \in Booking
    BY RowFacts
  <1>2. b \in Booking /\ Written(n, b)
    BY <1>1, Versions
  <1>3. back \in BOOLEAN /\ "available" \in PCStatus
    BY <1>1 DEF Replica, PCStatus
  <1>4. Finished(db[n]) =
          [db[n] EXCEPT !.grant = "ended", !.status = "available", !.booking = b, !.returned = back]
    BY <1>1 DEF Finished, Replica
  <1> HIDE DEF b, back
  <1> DEFINE is == [db[n] EXCEPT !.grant = "ended", !.status = "available", !.booking = b, !.returned = back]
  <1>5. is \in Replica /\ is.owned = db[n].owned /\ is.booking = b /\ is.grant = "ended"
    BY <1>1, <1>2, <1>3 DEF Replica
  <1> HIDE DEF is
  <1>6. Finished(db[n]) = is
    BY <1>4 DEF is
  <1> QED
    BY <1>2, <1>5, <1>6

LEMMA StartPendingStep ==
  ASSUME Inv, NEW n \in Local, StartPending(n)
  PROVE  Sound
  <1>1. /\ db[n] \in Replica /\ db[n].booking \in Booking /\ n \in Node
        /\ ~reopened => Honest(db[n])
    BY RowFacts, Nodes
  <1>2. /\ UNCHANGED <<nodes, snap, lease, hour, left, reopened>>
        /\ phase[n] = "start" /\ Goto(n, "idle")
    BY DEF StartPending
  <1>3. /\ phase' \in [Local -> Phase]
        /\ \A m \in Local : phase'[m] = phase[m] \/ ~(Unread(m) \/ Unread(m)')
    <2>1. /\ phase' \in [Local -> Phase] /\ phase'[n] = "idle"
          /\ \A m \in Local \ {n} : phase'[m] = phase[m]
      BY <1>2 DEF Goto, Inv, TypeOK, Phase
    <2> QED
      BY <1>2, <2>1 DEF Unread
  <1>4. ASSUME NEW row \in Replica, Put(n, row), row.owned = db[n].owned, Written(n, row.booking),
               db[n].grant = "pending", row.returned = db[n].returned,
               session' \in {"none", "running", "stopped", "over"}, relayed' \subseteq Event
        PROVE  Sound
    <2>1. Outside'
      BY <1>2, <1>4 DEF Outside, Inv, TypeOK
    <2>2. ~reopened' => ~reopened /\ Honest(row) /\ Forward(db[n], row)
      BY <1>1, <1>2, <1>4 DEF Honest, Forward
    <2> QED
      BY <1>1, <1>2, <1>3, <1>4, <2>1, <2>2, Writes
  <1>5. CASE /\ lease = n /\ db[n].grant = "pending" /\ db[n].status = "available"
             /\ session \in {"none", "running"}
    <2> DEFINE b == Claimed(db[n].booking)
               back == db[n].returned
               is == [db[n] EXCEPT !.grant = "accepted", !.status = "occupied",
                                   !.booking = b, !.returned = back]
    <2>1. b \in Booking /\ Written(n, b) /\ back \in BOOLEAN /\ "occupied" \in PCStatus
      BY <1>1, Versions DEF Replica, PCStatus
    <2>2. [db[n] EXCEPT !.grant = "accepted", !.status = "occupied", !.booking = Claimed(@)] = is
      BY <1>1 DEF Replica
    <2>3. Put(n, is)
      <3>1. Put(n, [db[n] EXCEPT !.grant = "accepted", !.status = "occupied", !.booking = Claimed(@)])
        BY <1>5 DEF StartPending
      <3> HIDE DEF is
      <3> QED
        BY <2>2, <3>1
    <2>4. /\ session' \in {"none", "running", "stopped", "over"} /\ relayed' \subseteq Event
      BY <1>5 DEF StartPending, Relay, Event, Inv, TypeOK
    <2> HIDE DEF b, back
    <2>5. /\ is \in Replica /\ is.owned = db[n].owned /\ is.booking = b /\ is.returned = back
      BY <1>1, <2>1 DEF Replica
    <2> HIDE DEF is
    <2> QED
      BY <1>4, <1>5, <2>1, <2>3, <2>4, <2>5 DEF back
  <1>6. CASE /\ lease = n /\ db[n].grant = "pending" /\ db[n].status = "available"
             /\ session \notin {"none", "running"}
    <2> DEFINE is == [db[n] EXCEPT !.grant = "failed"]
    <2>1. Put(n, is) /\ UNCHANGED <<session, relayed>>
      BY <1>6 DEF StartPending
    <2>2. /\ is \in Replica /\ is.owned = db[n].owned /\ is.booking = db[n].booking
          /\ is.returned = db[n].returned
      BY <1>1 DEF Replica
    <2>3. session' \in {"none", "running", "stopped", "over"} /\ relayed' \subseteq Event
      BY <2>1 DEF Inv, TypeOK
    <2>4. Written(n, is.booking)
      BY <2>2 DEF Written
    <2> HIDE DEF is
    <2> QED
      BY <1>4, <1>6, <2>1, <2>2, <2>3, <2>4
  <1>7. CASE ~(lease = n /\ db[n].grant = "pending" /\ db[n].status = "available")
    <2>1. UNCHANGED <<db, clock, session, relayed>>
      BY <1>7 DEF StartPending
    <2>2. TypeOK'
      BY <1>2, <1>3, <2>1 DEF Inv, TypeOK, Phase
    <2>3. \A m \in Local : Kept(m)
      BY <1>2, <1>3 DEF Kept
    <2> QED
      BY <1>2, <2>1, <2>2, <2>3, Undisturbed
  <1> QED
    BY <1>5, <1>6, <1>7

\* A step that is no step of a round.
LEMMA PlainWrite ==
  ASSUME Inv, Outside', UNCHANGED <<snap, phase>>, NEW n \in Node, NEW row \in Replica, Put(n, row),
         row.owned = db[n].owned \/ (n = Cloud /\ row.owned >= db[Cloud].owned),
         Written(n, row.booking),
         ~reopened' => ~reopened /\ Honest(row) /\ Forward(db[n], row)
  PROVE  Sound
  <1>1. phase' \in [Local -> Phase]
    BY DEF Inv, TypeOK, Phase
  <1> QED
    BY <1>1, Writes

LEMMA SweepStep ==
  ASSUME Inv, NEW n \in Node, Sweep(n)
  PROVE  Sound
  <1>1. /\ db[n] \in Replica /\ db[n].booking \in Booking /\ (~reopened => Honest(db[n]))
    BY RowFacts
  <1>2. PICK status \in {"expired", "completed"} :
          Put(n, [db[n] EXCEPT !.booking = Stamped(db[n].booking, status)])
    BY DEF Sweep
  <1>3. db[n].booking.status \in Open /\ UNCHANGED <<snap, phase, reopened>> /\ Outside'
    BY OutsideNow DEF Sweep, Unmoved, Outside
  <1> DEFINE b == Stamped(db[n].booking, status)
             row == [db[n] EXCEPT !.booking = b]
  <1>4. b \in Booking /\ Written(n, b)
    BY <1>1, <1>3, Versions
  <1> HIDE DEF b
  <1>5. /\ row \in Replica /\ row.owned = db[n].owned /\ row.booking = b
        /\ row.grant = db[n].grant /\ row.returned = db[n].returned
    BY <1>1, <1>4 DEF Replica
  <1>6. Put(n, row)
    BY <1>2 DEF b
  <1> HIDE DEF row
  <1> QED
    BY <1>1, <1>3, <1>4, <1>5, <1>6, PlainWrite DEF Honest, Forward

LEMMA ExpireStep ==
  ASSUME Inv, NEW n \in Node, Expire(n)
  PROVE  Sound
  <1> DEFINE row == Expired(db[n])
  <1>1. db[n] \in Replica /\ (~reopened => Honest(db[n]))
    BY RowFacts
  <1>2. /\ row \in Replica /\ row.owned = db[n].owned /\ row.booking = db[n].booking
        /\ Forward(db[n], row) /\ (Honest(db[n]) => Honest(row))
    BY <1>1, ExpiredFacts
  <1>3. Put(n, row) /\ UNCHANGED <<snap, phase, reopened>> /\ Outside'
    BY OutsideNow DEF Expire, Unmoved, Outside
  <1> HIDE DEF row
  <1> QED
    BY <1>1, <1>2, <1>3, PlainWrite DEF Written

LEMMA SessionEndedStep ==
  ASSUME Inv, SessionEnded
  PROVE  Sound
  <1> DEFINE row == Finished(db[lease])
  <1>1. lease \in Node
    BY Nodes DEF Inv, TypeOK
  <1>2. /\ row \in Replica /\ row.owned = db[lease].owned /\ row.grant = "ended"
        /\ Written(lease, row.booking)
    BY <1>1, FinishedFacts
  <1>3. Put(lease, row) /\ UNCHANGED <<snap, phase, reopened>> /\ Outside'
    BY OutsideNow DEF SessionEnded, Relay, Event, Outside, Inv, TypeOK
  <1> HIDE DEF row
  <1> QED
    BY <1>1, <1>2, <1>3, PlainWrite DEF Honest, Forward

LEMMA ApplyFacts ==
  ASSUME Inv, NEW e \in Event
  PROVE  LET row == Apply(db[Cloud], e)
         IN /\ row \in Replica /\ row.owned = db[Cloud].owned /\ Written(Cloud, row.booking)
            /\ Forward(db[Cloud], row) /\ Honest(db[Cloud]) => Honest(row)
  <1> DEFINE row == Apply(db[Cloud], e)
  <1>1. db[Cloud] \in Replica /\ Cloud \in Node
    BY Nodes, RowFacts
  <1>2. CASE e.type = "started" /\ db[Cloud].grant # "none"
    <2> DEFINE is == [db[Cloud] EXCEPT !.grant = "accepted", !.status = "occupied"]
    <2>1. row = is
      BY <1>2 DEF Apply
    <2>2. /\ is \in Replica /\ is.owned = db[Cloud].owned /\ is.booking = db[Cloud].booking
          /\ is.grant = "accepted" /\ is.returned = db[Cloud].returned
      BY <1>1 DEF Replica, PCStatus
    <2> HIDE DEF is, row
    <2> QED
      BY <2>1, <2>2 DEF Written, Honest, Forward, row
  <1>3. CASE e.type = "ended" /\ db[Cloud].grant = "accepted"
    <2> DEFINE is == Finished(db[Cloud])
    <2>1. row = is
      BY <1>3 DEF Apply
    <2>2. /\ is \in Replica /\ is.owned = db[Cloud].owned /\ is.grant = "ended"
          /\ Written(Cloud, is.booking)
      BY <1>1, FinishedFacts
    <2> HIDE DEF is, row
    <2> QED
      BY <2>1, <2>2 DEF Honest, row
  <1>4. CASE ~(e.type = "started" /\ db[Cloud].grant # "none")
             /\ ~(e.type = "ended" /\ db[Cloud].grant = "accepted")
    <2>1. row = db[Cloud]
      BY <1>4 DEF Apply
    <2> HIDE DEF row
    <2> QED
      BY <1>1, <2>1 DEF Written, row
  <1> QED
    BY <1>2, <1>3, <1>4

LEMMA ArriveStep ==
  ASSUME Inv, NEW e \in relayed, Arrive(e)
  PROVE  Sound
  <1> DEFINE row == IF lease = e.from THEN Apply(db[Cloud], e) ELSE db[Cloud]
  <1>1. /\ Cloud \in Node /\ db[Cloud] \in Replica /\ e \in Event
        /\ ~reopened => Honest(db[Cloud])
    BY Nodes, RowFacts DEF Inv, TypeOK
  <1>2. /\ row \in Replica /\ row.owned = db[Cloud].owned /\ Written(Cloud, row.booking)
        /\ Forward(db[Cloud], row) /\ Honest(db[Cloud]) => Honest(row)
    <2>1. CASE lease = e.from
      BY <1>1, <2>1, ApplyFacts
    <2>2. CASE lease # e.from
      BY <1>1, <2>2 DEF Written
    <2> QED
      BY <2>1, <2>2
  <1>3. /\ Put(Cloud, row)
        /\ reopened' = (reopened \/ (db[Cloud].grant = "ended" /\ row.grant # "ended"))
    BY DEF Arrive
  <1> HIDE DEF row
  <1>4. UNCHANGED <<nodes, phase, snap, lease, session, hour, left>> /\ relayed' = relayed \ {e}
    BY DEF Arrive
  <1>5. reopened' \in BOOLEAN
    BY <1>3
  <1>6. Outside'
    BY <1>4, <1>5, OutsideNow DEF Outside
  <1>7. ~reopened' => ~reopened /\ Honest(row) /\ Forward(db[Cloud], row)
    BY <1>1, <1>2, <1>3 DEF Forward
  <1> QED
    BY <1>1, <1>2, <1>3, <1>4, <1>6, <1>7, PlainWrite

LEMMA HeartbeatStep ==
  ASSUME Inv, Heartbeat
  PROVE  Sound
  <1>1. /\ Unmoved /\ UNCHANGED <<phase, snap, clock>> /\ AgentStatus \in PCStatus
        /\ lease \in Node /\ Cloud \in Node /\ lease # Cloud /\ db \in [Node -> Replica]
    BY Nodes DEF Heartbeat, Inv, TypeOK, AgentStatus, PCStatus
  <1> DEFINE next(m) == IF m \in {lease, Cloud} THEN [db[m] EXCEPT !.status = AgentStatus] ELSE db[m]
  <1>2. db' \in [Node -> Replica] /\ \A m \in Node : db'[m] = next(m)
    <2>1. \A m \in Node : next(m) \in Replica
      BY <1>1 DEF Replica
    <2>2. db' = [[db EXCEPT ![lease] = next(lease)] EXCEPT ![Cloud] = next(Cloud)]
      BY <1>1 DEF Heartbeat
    <2> HIDE DEF next
    <2>3. \A m \in Node : db'[m] = IF m = Cloud THEN next(Cloud) ELSE
                                   IF m = lease THEN next(lease) ELSE db[m]
      BY <1>1, <2>2
    <2>4. \A m \in Node : m \notin {lease, Cloud} => next(m) = db[m]
      BY DEF next
    <2> QED
      BY <1>1, <2>1, <2>2, <2>3, <2>4
  <1>3. ASSUME NEW m \in Node
        PROVE  /\ db'[m].owned = db[m].owned /\ db'[m].booking = db[m].booking
               /\ db'[m].grant = db[m].grant /\ db'[m].returned = db[m].returned
    BY <1>1, <1>2 DEF Replica
  <1>4. TypeOK'
    BY <1>1, <1>2 DEF Inv, TypeOK, Unmoved
  <1>5. ~reopened' => ~reopened /\ \A m \in Node : Honest(db'[m]) /\ Forward(db[m], db'[m])
    BY <1>1, <1>3, RowFacts DEF Unmoved, Honest, Forward
  <1>6. \A m \in Local : Carried(m)
    BY <1>1, <1>5, Snaps DEF Kept
  <1> QED
    BY <1>1, <1>3, <1>4, <1>5, <1>6, QuietStep DEF Calm

(***************************************************************************)
(* The changes from outside, and the faults.                               *)
(***************************************************************************)
LEMMA Counted ==
  ASSUME Inv, NEW kind \in Kind, Change(kind)
  PROVE  left' \in [Kind -> Nat]
  BY DEF Inv, TypeOK, Change

LEMMA CloudWrites ==
  ASSUME Inv, EditCatalog \/ PaymentSucceeds
  PROVE  Sound
  <1>1. /\ db[Cloud] \in Replica /\ Cloud \in Node /\ db[Cloud].owned \in Nat
        /\ ~reopened => Honest(db[Cloud])
    BY Nodes, RowFacts
  <1>2. left' \in [Kind -> Nat]
    BY Counted DEF EditCatalog, PaymentSucceeds, Kind
  <1>3. CASE EditCatalog
    <2> DEFINE is == [db[Cloud] EXCEPT !.owned = @ + 1]
    <2>1. /\ is \in Replica /\ is.owned = db[Cloud].owned + 1 /\ is.booking = db[Cloud].booking
          /\ is.grant = db[Cloud].grant /\ is.returned = db[Cloud].returned
      BY <1>1 DEF Replica
    <2>2. Put(Cloud, is) /\ UNCHANGED <<snap, phase, reopened>> /\ Outside'
      BY <1>2, <1>3, OutsideNow DEF EditCatalog, AtCloud, Outside
    <2> HIDE DEF is
    <2>3. Written(Cloud, is.booking) /\ is.owned >= db[Cloud].owned
      BY <1>1, <2>1 DEF Written
    <2> QED
      BY <1>1, <2>1, <2>2, <2>3, PlainWrite DEF Honest, Forward
  <1>4. CASE PaymentSucceeds
    <2> DEFINE is == [db[Cloud] EXCEPT !.order = "paid", !.grant = "pending"]
    <2>1. /\ is \in Replica /\ is.owned = db[Cloud].owned /\ is.booking = db[Cloud].booking
          /\ is.returned = db[Cloud].returned
      BY <1>1 DEF Replica
    <2>2. Put(Cloud, is) /\ UNCHANGED <<snap, phase>>
          /\ reopened' = (reopened \/ db[Cloud].grant = "ended")
      BY <1>4 DEF PaymentSucceeds, AtCloud
    <2>3. reopened' \in BOOLEAN
      BY <2>2
    <2>4. Outside'
      BY <1>2, <1>4, <2>3, OutsideNow DEF PaymentSucceeds, AtCloud, Outside
    <2> HIDE DEF is
    <2> QED
      BY <1>1, <2>1, <2>2, <2>4, PlainWrite DEF Written, Honest, Forward
  <1> QED
    BY <1>3, <1>4

LEMMA BookSteps ==
  ASSUME Inv, CancelBooking \/ RescheduleBooking \/ StartBooking
  PROVE  Sound
  <1> DEFINE b == db[Cloud].booking
  <1>1. /\ db[Cloud] \in Replica /\ Cloud \in Node /\ b \in Booking /\ clock \in Nat
        /\ ~reopened => Honest(db[Cloud])
    BY Nodes, RowFacts DEF Inv, TypeOK
  <1>2. ASSUME NEW is \in Booking, Written(Cloud, is), Book(is)
        PROVE  Sound
    <2> DEFINE row == [db[Cloud] EXCEPT !.booking = is]
    <2>1. /\ row \in Replica /\ row.owned = db[Cloud].owned /\ row.booking = is
          /\ row.grant = db[Cloud].grant /\ row.returned = db[Cloud].returned
      BY <1>1 DEF Replica
    <2>2. Put(Cloud, row) /\ UNCHANGED <<snap, phase, reopened>>
      BY <1>2 DEF Book, AtCloud
    <2>3. Outside'
      BY <1>2, Counted, OutsideNow DEF Book, AtCloud, Outside, Kind
    <2> HIDE DEF row
    <2> QED
      BY <1>1, <1>2, <2>1, <2>2, <2>3, PlainWrite DEF Honest, Forward
  <1>3. CASE CancelBooking
    <2> DEFINE next == clock + 1
               is == [b EXCEPT !.status = "cancelled", !.stamp = next]
    <2>1. next \in Nat
      BY <1>1
    <2>2. Book(is) /\ b.status = "confirmed"
      BY <1>3 DEF CancelBooking, Stamped
    <2> HIDE DEF next
    <2>3. is \in Booking /\ is.status = "cancelled" /\ is.stamp = next
      BY <1>1, <2>1 DEF Booking
    <2> HIDE DEF is
    <2> QED
      BY <1>2, <2>2, <2>3 DEF Written, next
  <1>4. CASE RescheduleBooking
    <2> DEFINE next == clock + 1
               later == b.slot + 1
               is == [b EXCEPT !.status = "confirmed", !.stamp = next, !.slot = later]
    <2>1. next \in Nat /\ later \in Nat
      BY <1>1 DEF Booking
    <2>2. b.status = "confirmed"
      BY <1>4 DEF RescheduleBooking
    <2>3. [Stamped(b, "confirmed") EXCEPT !.slot = @ + 1] = is
      BY <1>1 DEF Stamped, Booking
    <2>4. Book(is)
      <3>1. Book([Stamped(b, "confirmed") EXCEPT !.slot = @ + 1])
        BY <1>4 DEF RescheduleBooking
      <3> HIDE DEF is
      <3> QED
        BY <2>3, <3>1
    <2> HIDE DEF next, later
    <2>5. is \in Booking /\ is.status = "confirmed" /\ is.stamp = next
      BY <1>1, <2>1 DEF Booking
    <2> HIDE DEF is
    <2> QED
      BY <1>2, <2>2, <2>4, <2>5 DEF Written, next
  <1>5. CASE StartBooking
    <2>1. Book(Claimed(b))
      BY <1>5 DEF StartBooking
    <2>2. Claimed(b) \in Booking /\ Written(Cloud, Claimed(b))
      BY <1>1, Versions
    <2> QED
      BY <1>2, <2>1, <2>2
  <1> QED
    BY <1>3, <1>4, <1>5

LEMMA OtherSteps ==
  ASSUME Inv, \/ TimeOver \/ HourPasses \/ AgentStops \/ LeaseMoves
              \/ (\E n \in nodes : RoundFails(n)) \/ (\E e \in relayed : LoseRelayed(e))
  PROVE  Sound
  <1>1. left' \in [Kind -> Nat]
    BY Counted DEF TimeOver, HourPasses, AgentStops, LeaseMoves, RoundFails, LoseRelayed, Kind, Inv, TypeOK
  <1>2. UNCHANGED <<nodes, db, clock, reopened>>
    BY DEF TimeOver, HourPasses, AgentStops, LeaseMoves, RoundFails, LoseRelayed
  <1>3. /\ session' \in {"none", "running", "stopped", "over"} /\ relayed' \subseteq Event
        /\ hour' \in Nat /\ lease' \in Local
    BY DEF TimeOver, HourPasses, AgentStops, LeaseMoves, RoundFails, LoseRelayed, Inv, TypeOK
  <1>4. snap' \in [Local -> Replica] /\ phase' \in [Local -> Phase] /\ \A m \in Local : Kept(m)
    <2>1. CASE TimeOver \/ HourPasses \/ AgentStops \/ LeaseMoves \/ (\E e \in relayed : LoseRelayed(e))
      <3>1. UNCHANGED <<snap, phase>>
        BY <2>1 DEF TimeOver, HourPasses, AgentStops, LeaseMoves, LoseRelayed
      <3> QED
        BY <3>1 DEF Inv, TypeOK, Kept, Phase
    <2>2. ASSUME NEW n \in nodes, RoundFails(n)
          PROVE  snap' \in [Local -> Replica] /\ phase' \in [Local -> Phase] /\ \A m \in Local : Kept(m)
      <3>1. n \in Local /\ Hold(n, Empty) /\ Goto(n, "idle") /\ "idle" \in Phase
        BY <2>2 DEF RoundFails, Inv, TypeOK, Phase
      <3>2. /\ snap' \in [Local -> Replica] /\ phase' \in [Local -> Phase]
            /\ snap'[n] = Empty /\ \A m \in Local \ {n} : Kept(m)
        BY <3>1, EmptyRow, HandsTypes
      <3> QED
        BY <3>2 DEF Kept
    <2> QED
      BY <2>1, <2>2
  <1>5. TypeOK'
    BY <1>1, <1>2, <1>3, <1>4 DEF Inv, TypeOK, Phase
  <1> QED
    BY <1>2, <1>4, <1>5, Undisturbed

-----------------------------------------------------------------------------
LEMMA NextSound == Inv /\ [Next]_vars => Sound
  <1> SUFFICES ASSUME Inv, [Next]_vars PROVE Sound
    OBVIOUS
  <1>1. nodes \subseteq Local /\ Local \subseteq Node /\ Cloud \in Node
    BY Nodes DEF Inv, TypeOK
  <1>2. CASE UNCHANGED vars
    <2>1. TypeOK' /\ UNCHANGED <<db, clock, reopened>> /\ \A m \in Local : Kept(m)
      BY <1>2 DEF vars, Inv, TypeOK, Kept
    <2> QED
      BY <2>1, Undisturbed
  <1>3. ASSUME NEW n \in nodes, Round(n)
        PROVE  Sound
    BY <1>1, <1>3, PushSteps, PullStep, ApplySteps, StartPendingStep DEF Round
  <1>4. ASSUME NEW n \in nodes \cup {Cloud}, Sweep(n) \/ Expire(n)
        PROVE  Sound
    BY <1>1, <1>4, SweepStep, ExpireStep
  <1>5. ASSUME NEW e \in relayed, Arrive(e)
        PROVE  Sound
    BY <1>5, ArriveStep
  <1>6. CASE Environment
    BY <1>6, CloudWrites, BookSteps, OtherSteps DEF Environment
  <1>7. CASE Faults
    BY <1>7, OtherSteps DEF Faults
  <1>8. CASE Heartbeat \/ SessionEnded \/ TimeOver
    BY <1>8, HeartbeatStep, SessionEndedStep, OtherSteps
  <1> QED
    BY <1>2, <1>3, <1>4, <1>5, <1>6, <1>7, <1>8 DEF Next

LEMMA Invariant == Spec => []Inv
  <1>1. Inv /\ [Next]_vars => Inv'
    BY NextSound DEF Sound
  <1> QED
    BY InitInv, <1>1, PTL DEF Spec

(***************************************************************************)
(* The state is well typed: the steps of rounds, relayed events and writes *)
(* keep every row, every snapshot and every budget within its range.       *)
(***************************************************************************)
THEOREM TypeCorrect == Spec => []TypeOK
  BY Invariant, PTL DEF Inv

(***************************************************************************)
(* No round, whatever it read before another one finished, makes a local   *)
(* node newer than the Cloud in what applyEdgeSnapshotData lets only the   *)
(* Cloud write.                                                            *)
(***************************************************************************)
THEOREM CatalogOwned == Spec => []CloudOwnsCatalog
  BY Invariant, PTL DEF Inv

(***************************************************************************)
(* The session-return credit travels with the end of the session: no node  *)
(* that has the one in player_time_ledger still takes the session for      *)
(* open, unless a late session_started or a repeated payment callback has  *)
(* set an ended grant back.                                                *)
(***************************************************************************)
THEOREM ReturnedEnded == Spec => []ReturnedOnlyIfEnded
  BY Invariant, PTL DEF Inv, Returned, ReturnedOnlyIfEnded, Honest

(***************************************************************************)
(* A cancelled reservation is confirmed again on no node, by no merge and  *)
(* no writer: what replaces it was written later, by a node at which a     *)
(* session started or ended or the window was over, and says so.           *)
(***************************************************************************)
THEOREM CancelledForGood == Spec => CancelledStays
  BY NextSound, Invariant, PTL
     DEF Spec, Sound, CancelledStays, CancelledStep, Replaced, Cancelled
=============================================================================
