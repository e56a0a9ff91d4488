------------------------------ MODULE EdgeSync ------------------------------
(***************************************************************************)
(* Synchronisation of the databases of one club: the Cloud, the primary    *)
(* Controller and a stand-by Manager.  Every second a local node runs one  *)
(* round (syncEdgeOnce, serialised by edgeSyncMu): the primary posts a     *)
(* full snapshot of its database and then pulls the Cloud's; the Manager   *)
(* only pulls.  applyEdgeSnapshotData merges a snapshot table by table,    *)
(* each table by its own rule.  Besides, the node that holds the Agent's   *)
(* connection relays the Agent's events, fire and forget.                  *)
(*                                                                         *)
(* A replica is one record: a single row per table is enough, the merge    *)
(* works row by row.  The grant, the order it was bought with and the      *)
(* booking are those of one player for one PC.                             *)
(***************************************************************************)
EXTENDS Naturals, FiniteSets

CONSTANTS Cloud, Primary, Manager,
          Mixes,           \* which nodes a club has, which are new, and bounds on
                           \* the changes and the faults: a behaviour has one
          MaxInFlight      \* bound on the relayed events under way at a time

\* What comes from outside: a payment callback, an edit of the catalogue, a
\* request about the booking, a quarter of an hour, the Agent's session stopping,
\* the Agent moving to the other node, a failed round, a lost event.
Kind == {"pay", "edit", "book", "hour", "stop", "lease", "fail", "lose"}

ASSUME NodesAssumption == Cardinality({Cloud, Primary, Manager}) = 3
Local == {Primary, Manager}
Node == Local \cup {Cloud}

ASSUME BoundsAssumption ==
  /\ Mixes \subseteq [nodes : SUBSET Local, new : SUBSET Local, at : Local,
                      changes : [Kind -> Nat]]
  /\ \A mix \in Mixes : {Primary, mix.at} \subseteq mix.nodes
  /\ MaxInFlight \in Nat

VARIABLES
  nodes,    \* the local nodes the club has
  db,       \* the database of a node
  phase,    \* where the round of a local node stands
  snap,     \* the snapshot in the hands of the round
  lease,    \* the node whose Agent connection the Cloud recognises
  session,  \* the session on the Agent, and whether its time is over
  relayed,  \* event messages on the way to the Cloud
  hour,     \* the time, in quarters of an hour
  clock,    \* the number of writes to a booking: the next updated_at
  left,     \* the changes and faults still to come
  reopened  \* observer: an ended grant has been set back

vars == <<nodes, db, phase, snap, lease, session, relayed, hour, clock, left, reopened>>

(***************************************************************************)
(* A replica.  owned is the version of what the Cloud owns (name, slug and *)
(* visibility of the club, numbers and labels of PCs, the credentials of   *)
(* global administrators), 0 on a node that has no club row yet.  order    *)
(* stands for the tables whose rows are overwritten: payment orders,       *)
(* vouchers, cash payments.                                                *)
(***************************************************************************)
PCStatus == {"available", "occupied"}

\* slot is starts_at, less the 15 minutes before it; stamp is updated_at.
Booking == [status : {"none", "confirmed", "started", "cancelled", "expired", "completed"},
            slot : Nat, stamp : Nat]

Replica == [owned : Nat, status : PCStatus,
            order : {"none", "created", "paid"},
            grant : {"none", "pending", "accepted", "failed", "ended"},
            booking : Booking,
            returned : BOOLEAN]     \* is the session-return row in player_time_ledger

NoBooking == [status |-> "none", slot |-> 0, stamp |-> 0]
Empty == [owned |-> 0, status |-> "available", order |-> "none", grant |-> "none",
          booking |-> NoBooking, returned |-> FALSE]

Event == [type : {"started", "ended"}, from : Local]

TypeOK ==
  /\ nodes \subseteq Local
  /\ db \in [Node -> Replica]
  /\ snap \in [Local -> Replica]
  /\ phase \in [Local -> {"idle", "building", "checked",
                          "pull", "pulling", "start"}]
  /\ lease \in Local
  /\ session \in {"none", "running", "stopped", "over"}
  /\ relayed \subseteq Event
  /\ hour \in Nat /\ clock \in Nat
  /\ left \in [Kind -> Nat]
  /\ reopened \in BOOLEAN

\* An order to be paid, and a booking that can be cancelled for a quarter yet.
Ordered ==
  [Empty EXCEPT !.owned = 1, !.order = "created",
                !.booking = [status |-> "confirmed", slot |-> 1, stamp |-> 0]]

Init ==
  /\ \E mix \in Mixes :
       /\ nodes = mix.nodes /\ lease = mix.at /\ left = mix.changes
       /\ db = [n \in Node |-> IF n \in mix.new THEN Empty ELSE Ordered]
  /\ phase = [n \in Local |-> "idle"]
  /\ snap = [n \in Local |-> Empty]
  /\ session = "none"
  /\ relayed = {}
  /\ hour = 0 /\ clock = 0
  /\ reopened = FALSE

-----------------------------------------------------------------------------
(***************************************************************************)
(* applyEdgeSnapshotData: mine is the replica of the node n that applies,  *)
(* its is the snapshot.                                                    *)
(***************************************************************************)
\* Mutant: every node accepts what the snapshot holds.
MergeOwnedAlways(n, mine, its) == IF its.owned = 0 THEN mine.owned ELSE its.owned

\* acceptCatalogSettings, localNodeMode(): only local nodes take what the Cloud owns.
MergeOwned(n, mine, its) ==
  IF n \in Local \/ mine.owned = 0 THEN its.owned ELSE mine.owned

\* Mutant: the older booking wins too.
MergeBookingUnstamped(mine, its) == IF its.status # "none" THEN its ELSE mine

\* The row that was changed last wins; a row the snapshot does not have stays.
MergeBooking(mine, its) ==
  IF its.status # "none" /\ (mine.status = "none" \/ its.stamp >= mine.stamp) THEN its ELSE mine

\* Mutant: ON CONFLICT DO NOTHING.
MergeOrderKeep(mine, its) == IF mine.order = "none" THEN its.order ELSE mine.order

\* A row the snapshot does not have stays; another one is overwritten.
MergeOrder(mine, its) == IF its.order = "none" THEN mine.order ELSE its.order

\* Mutant: an ended session is overwritten.
MergeGrantAlways(mine, its) == IF its.grant = "none" THEN mine.grant ELSE its.grant

MergeGrant(mine, its) ==
  IF its.grant = "none" \/ (mine.grant = "ended" /\ its.grant # "ended")
    THEN mine.grant
    ELSE its.grant

\* A PC marked occupied without an accepted session becomes available again.
MergeStatus(its, grant) ==
  IF its.status = "occupied" /\ grant # "accepted" THEN "available" ELSE its.status

Merge(n, mine, its) ==
  LET grant == MergeGrant(mine, its)
  IN [owned |-> MergeOwned(n, mine, its), status |-> MergeStatus(its, grant),
      order |-> MergeOrder(mine, its), grant |-> grant,
      booking |-> MergeBooking(mine.booking, its.booking),
      returned |-> mine.returned \/ its.returned]

\* edgeSnapshotData queries table after table, outside a transaction.
FirstTables(row) == row
LaterTables(early, row) == [early EXCEPT !.order = row.order, !.grant = row.grant]

-----------------------------------------------------------------------------
(***************************************************************************)
(* A round.  It ends in "idle"; a failed request ends it early, and the    *)
(* Cloud may or may not have applied what was posted.                      *)
(***************************************************************************)
Goto(n, p) == phase' = [phase EXCEPT ![n] = p]
Hold(n, row) == snap' = [snap EXCEPT ![n] = row]

PushesFirst(n) == n = Primary /\ db[n].owned # 0

Unmoved == UNCHANGED <<nodes, lease, session, relayed, hour, left, reopened>>

BeginPush(n) ==
  /\ phase[n] = "idle" /\ PushesFirst(n)
  /\ Hold(n, FirstTables(db[n]))
  /\ Goto(n, "building")
  /\ Unmoved /\ UNCHANGED <<db, clock>>

\* Mutant: no fence.
FinishSnapshotUnfenced(n) ==
  /\ phase[n] = "building"
  /\ Goto(n, "checked") /\ Hold(n, LaterTables(snap[n], db[n]))
  /\ Unmoved /\ UNCHANGED <<db, clock>>

\* The snapshot is posted; handleEdgeEvents drops it while another node holds
\* the Agent ...
FinishSnapshot(n) ==
  /\ phase[n] = "building"
  /\ IF lease = n THEN Goto(n, "checked") /\ Hold(n, LaterTables(snap[n], db[n]))
                  ELSE Goto(n, "pull") /\ Hold(n, Empty)
  /\ Unmoved /\ UNCHANGED <<db, clock>>

\* ... and applies the snapshot in a transaction of its own.
ApplyAtCloud(n) ==
  /\ phase[n] = "checked"
  /\ db' = [db EXCEPT ![Cloud] = Merge(Cloud, @, snap[n])]
  /\ Hold(n, Empty)
  /\ Goto(n, "pull")
  /\ Unmoved /\ UNCHANGED clock

\* expireElapsedGrants: a session whose time, and grace, are over ends.
Expired(row) ==
  IF row.grant = "accepted" /\ session = "over"
    THEN [row EXCEPT !.grant = "ended", !.status = "available"]
    ELSE row

\* Sessions that are over end before the Cloud builds a snapshot.
Pull(n) ==
  /\ phase[n] = "pull" \/ (phase[n] = "idle" /\ ~PushesFirst(n))
  /\ db' = [db EXCEPT ![Cloud] = Expired(@)]
  /\ Hold(n, FirstTables(Expired(db[Cloud])))
  /\ Goto(n, "pulling")
  /\ Unmoved /\ UNCHANGED clock

\* The later tables are read and all is applied.  What happens between the two
\* might as well happen before or after both: nothing else reads the snapshot.
\* The initial pull of the primary ends its round.
ApplyPulled(n) ==
  /\ phase[n] = "pulling"
  /\ db' = [db EXCEPT ![n] = Merge(n, @, LaterTables(snap[n], db[Cloud]))]
  /\ Hold(n, Empty)
  /\ Goto(n, IF n = Manager \/ PushesFirst(n) THEN "start" ELSE "idle")
  /\ Unmoved /\ UNCHANGED clock

(***************************************************************************)
(* The booking, written by whichever node a request or a session reaches,  *)
(* with updated_at = now().  Its owner may claim it for 15 minutes before  *)
(* and after its start; checked_in is still read, but never written.       *)
(***************************************************************************)
Open == {"confirmed", "started"}
Early(b) == hour < b.slot
Begun(b) == hour > b.slot
Past(b) == hour > b.slot + 1

Stamped(b, status) == [b EXCEPT !.status = status, !.stamp = clock + 1]

\* A session of its owner starts: startPendingEdgeGrants.
Claimed(b) ==
  IF b.status = "confirmed" /\ ~Early(b) /\ ~Past(b) THEN Stamped(b, "started") ELSE b

\* A session of its owner ends: finishGrant.
Consumed(b) == IF b.status \in Open /\ Begun(b) THEN Stamped(b, "completed") ELSE b

\* A node writes its replica, and maybe a booking in it.
Put(n, row) ==
  /\ db' = [db EXCEPT ![n] = row]
  /\ clock' = IF row.booking.stamp = db[n].booking.stamp THEN clock ELSE clock + 1

\* The sweep of the kiosk's bootstrap and of the list of bookings, on any node;
\* resolveCompletedReservations looks for an ended session in the window.
Sweep(n) ==
  LET b == db[n].booking IN
  /\ b.status \in Open
  /\ \/ /\ Past(b)
        /\ Put(n, [db[n] EXCEPT !.booking = Stamped(b, "expired")])
     \/ /\ Begun(b) /\ ~Past(b) /\ db[n].grant = "ended"
        /\ Put(n, [db[n] EXCEPT !.booking = Stamped(b, "completed")])
  /\ Unmoved /\ UNCHANGED <<phase, snap>>

(***************************************************************************)
(* Relayed events (forwardEdgeCoreEvent, forwardManagerCoreEvent): each in *)
(* a goroutine of its own, so they overtake one another; an error is       *)
(* ignored, so they get lost, at once or later.                            *)
(***************************************************************************)
Relay(n, type) ==
  relayed' = IF Cardinality(relayed) < MaxInFlight
               THEN relayed \cup {[type |-> type, from |-> n]}
               ELSE relayed

\* startPendingEdgeGrants, startPendingManagerEdgeGrants: only the node with
\* the Agent's connection can.  The Agent runs a grant once and confirms it while
\* it runs; its session_started is relayed.
StartPending(n) ==
  /\ phase[n] = "start"
  /\ Goto(n, "idle")
  /\ IF lease = n /\ db[n].grant = "pending" /\ db[n].status = "available"
       THEN IF session \in {"none", "running"}
              THEN /\ Put(n, [db[n] EXCEPT !.grant = "accepted", !.status = "occupied",
                                           !.booking = Claimed(@)])
                   /\ session' = "running"
                   /\ IF session = "none" THEN Relay(n, "started") ELSE UNCHANGED relayed
              ELSE /\ Put(n, [db[n] EXCEPT !.grant = "failed"])
                   /\ UNCHANGED <<session, relayed>>
       ELSE UNCHANGED <<db, clock, session, relayed>>
  /\ UNCHANGED <<nodes, snap, lease, hour, left, reopened>>

Round(n) ==
  \/ BeginPush(n) \/ FinishSnapshot(n) \/ ApplyAtCloud(n)
  \/ Pull(n) \/ ApplyPulled(n) \/ StartPending(n)

\* finishGrant: time is returned unless it is over.
Finished(row) ==
  [row EXCEPT !.grant = "ended", !.status = "available", !.booking = Consumed(@),
              !.returned = @ \/ session # "over"]

\* handleEdgeEvents: an event from a node without the lease is skipped.
Apply(row, e) ==
  CASE e.type = "started" /\ row.grant # "none" ->
         [row EXCEPT !.grant = "accepted", !.status = "occupied"]
    [] e.type = "ended" /\ row.grant = "accepted" -> Finished(row)
    [] OTHER -> row

Arrive(e) ==
  /\ e \in relayed
  /\ relayed' = relayed \ {e}
  /\ LET row == IF lease = e.from THEN Apply(db[Cloud], e) ELSE db[Cloud]
     IN /\ Put(Cloud, row)
        /\ reopened' = (reopened \/ (db[Cloud].grant = "ended" /\ row.grant # "ended"))
  /\ UNCHANGED <<nodes, phase, snap, lease, session, hour, left>>

AgentStatus == IF session = "running" THEN "occupied" ELSE "available"

\* The Agent's heartbeat, processed and relayed by the node that holds it.  One
\* the relay loses is left out: the next one carries the same status again.
Heartbeat ==
  /\ db' = [db EXCEPT ![lease].status = AgentStatus, ![Cloud].status = AgentStatus]
  /\ Unmoved /\ UNCHANGED <<phase, snap, clock>>

\* The Agent's session_ended.
SessionEnded ==
  /\ session # "running"
  /\ db[lease].grant = "accepted"
  /\ Put(lease, Finished(db[lease]))
  /\ Relay(lease, "ended")
  /\ UNCHANGED <<nodes, phase, snap, lease, session, hour, left, reopened>>

\* The same code on any node, called by its lists and checkouts.
Expire(n) ==
  /\ Expired(db[n]) # db[n]
  /\ Put(n, Expired(db[n]))
  /\ Unmoved /\ UNCHANGED <<phase, snap>>

\* The session's time passes, and the Agent stops it if it runs.
TimeOver ==
  /\ session \in {"running", "stopped"}
  /\ session' = "over"
  /\ UNCHANGED <<nodes, db, phase, snap, lease, relayed, hour, clock, left, reopened>>

-----------------------------------------------------------------------------
(***************************************************************************)
(* What people and the Agent do, and faults: each within its bound.        *)
(***************************************************************************)
Change(kind) == left[kind] > 0 /\ left' = [left EXCEPT ![kind] = @ - 1]

AtCloud(row) ==
  /\ Put(Cloud, row)
  /\ UNCHANGED <<nodes, phase, snap, lease, session, relayed, hour>>

EditCatalog ==
  /\ Change("edit")
  /\ AtCloud([db[Cloud] EXCEPT !.owned = @ + 1])
  /\ UNCHANGED reopened

\* applyPaymentSuccess: the order is paid, its grant waits for the Controller.  A
\* repeated callback does the same to every grant but an accepted one.
PaymentSucceeds ==
  /\ Change("pay")
  /\ db[Cloud].order # "none" /\ db[Cloud].grant # "accepted"
  /\ AtCloud([db[Cloud] EXCEPT !.order = "paid", !.grant = "pending"])
  /\ reopened' = (reopened \/ db[Cloud].grant = "ended")

\* handleMobileReservationCancel, handleMobileReservationReschedule and
\* handleMobileReservationStart; the app talks to the Cloud.
Book(b) ==
  /\ Change("book")
  /\ AtCloud([db[Cloud] EXCEPT !.booking = b])
  /\ UNCHANGED reopened

CancelBooking ==
  LET b == db[Cloud].booking IN
  b.status = "confirmed" /\ Early(b) /\ Book(Stamped(b, "cancelled"))

RescheduleBooking ==
  LET b == db[Cloud].booking IN
  b.status = "confirmed" /\ Early(b)
    /\ Book([Stamped(b, "confirmed") EXCEPT !.slot = @ + 1])

StartBooking ==
  LET b == db[Cloud].booking IN
  Claimed(b) # b /\ Book(Claimed(b))

HourPasses ==
  /\ Change("hour")
  /\ hour' = hour + 1
  /\ UNCHANGED <<nodes, db, phase, snap, lease, session, relayed, clock, reopened>>

AgentStops ==
  /\ Change("stop")
  /\ session = "running"
  /\ session' = "stopped"
  /\ UNCHANGED <<nodes, db, phase, snap, lease, relayed, hour, clock, reopened>>

\* The Agent connects to another node and its agent_online reaches the Cloud.
LeaseMoves ==
  /\ Change("lease")
  /\ \E n \in nodes \ {lease} : lease' = n
  /\ UNCHANGED <<nodes, db, phase, snap, session, relayed, hour, clock, reopened>>

\* A request of a round fails; whatever the Cloud did with it remains.
RoundFails(n) ==
  /\ Change("fail")
  /\ phase[n] \in {"checked", "pull", "pulling"}
  /\ Hold(n, Empty)
  /\ Goto(n, "idle")
  /\ UNCHANGED <<nodes, db, lease, session, relayed, hour, clock, reopened>>

LoseRelayed(e) ==
  /\ Change("lose")
  /\ e \in relayed
  /\ relayed' = relayed \ {e}
  /\ UNCHANGED <<nodes, db, phase, snap, lease, session, hour, clock, reopened>>

Environment ==
  \/ EditCatalog \/ PaymentSucceeds
  \/ CancelBooking \/ RescheduleBooking \/ StartBooking \/ HourPasses
  \/ AgentStops \/ LeaseMoves

Faults == (\E n \in nodes : RoundFails(n)) \/ (\E e \in relayed : LoseRelayed(e))

Next ==
  \/ \E n \in nodes : Round(n)
  \/ \E n \in nodes \cup {Cloud} : Sweep(n) \/ Expire(n)
  \/ \E e \in relayed : Arrive(e)
  \/ Heartbeat
  \/ SessionEnded
  \/ TimeOver
  \/ Environment
  \/ Faults

(***************************************************************************)
(* Fairness.  A round starts every second (RunEdgeSync), its own steps are *)
(* taken, the Agent keeps sending heartbeats, and a relayed event that is  *)
(* not lost arrives.  Faults are bounded: they stop.  Whether the time of  *)
(* a session is over is left to the properties.                            *)
(***************************************************************************)
Fairness ==
  /\ \A n \in Local : WF_vars(n \in nodes /\ Round(n))
  /\ WF_vars(Heartbeat)
  /\ WF_vars(\E e \in relayed : Arrive(e))

Spec == Init /\ [][Next]_vars /\ Fairness

-----------------------------------------------------------------------------
(***************************************************************************)
(* The session-return credit of a grant is never known to a node that      *)
(* still takes the grant for open: the time would be playable twice.       *)
(* Rests on finishGrant writing both in one transaction, on snapshots      *)
(* reading the ledger before the grants, and on ended rows staying ended.  *)
(* Excepted are behaviours in which an ended grant has been set back: by a *)
(* session_started that arrives after the end (processCoreEvent looks at   *)
(* no status) or a repeated payment callback (applyPaymentSuccess makes    *)
(* every grant pending that is neither accepted nor extended).             *)
(***************************************************************************)
ReturnedOnlyIfEnded ==
  ~reopened => \A n \in Node : db[n].returned => db[n].grant = "ended"

(***************************************************************************)
(* No node is ever ahead of the Cloud in what the Cloud owns, so no        *)
(* snapshot can carry an older catalogue or administrator upwards.         *)
(***************************************************************************)
CloudOwnsCatalog == \A n \in Local : db[n].owned <= db[Cloud].owned /\ snap[n].owned <= db[Cloud].owned

(***************************************************************************)
(* A cancelled reservation never blocks the PC again because of a snapshot *)
(* or a rescheduling from before: on no node does it become confirmed.  It *)
(* is replaced only by what a node that had not heard of the cancellation  *)
(* wrote later, when a session started or ended or the window was over.    *)
(***************************************************************************)
CancelledStays ==
  [][\A n \in Node : LET was == db[n].booking is == db'[n].booking IN
       was.status = "cancelled" /\ is # was
         => is.status \in {"started", "completed", "expired"} /\ is.stamp > was.stamp]_vars

(***************************************************************************)
(* Once the changes stop, the primary keeps the Agent and the session, if  *)
(* one was started, is over by its time, the replicas of the Cloud and the *)
(* primary agree and go on agreeing, and the Manager follows the Cloud.    *)
(* What the Manager wrote itself goes nowhere: a later change of a         *)
(* booking, and the end of a session whose events the Cloud never took,    *)
(* which the primary then cannot start again.                              *)
(***************************************************************************)
Agree ==
  LET view(row) == <<row.owned, row.order, row.grant, row.booking, row.returned>>
  IN view(db[Primary]) = view(db[Cloud])

Follows ==
  LET mine == db[Manager] its == db[Cloud]
  IN /\ mine.owned = its.owned /\ mine.order = its.order
     /\ mine.grant = its.grant \/ (mine.grant = "ended" /\ its.grant = "failed")
     /\ mine.booking = its.booking \/ mine.booking.stamp > its.booking.stamp
     /\ its.returned => mine.returned

Settled == lease = Primary /\ session \in {"none", "over"}

Converges == <>[]Settled => <>[](Agree /\ (Manager \in nodes => Follows))

(***************************************************************************)
(* While a Manager holds the Agent, snapshots of the returned primary do   *)
(* not keep overwriting the live state of the PC in the Cloud, however     *)
(* long its session runs.                                                  *)
(***************************************************************************)
OwnerStatusWins ==
  <>[](lease = Manager) => <>[](db[Cloud].status = AgentStatus)
=============================================================================
