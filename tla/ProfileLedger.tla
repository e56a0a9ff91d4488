--------------------------- MODULE ProfileLedger ---------------------------
(***************************************************************************)
(* The time a player keeps in the profile of a club, on the two nodes that *)
(* spend and refill it: an append-only ledger in value units (seconds      *)
(* times the price of the zone), and a projection of it for quick reads.   *)
(* The nodes exchange snapshots; rows are imported by idempotency key and  *)
(* the projection only where there is none yet.                            *)
(***************************************************************************)
EXTENDS Integers, FiniteSets, Sums

CONSTANTS Cloud, Controller, None,
          Grant,        \* grants bought with the profile's balance
          Old,          \* a child extension a retired Controller returned time of
          Prices,       \* what a zone may cost, in units per second
          Credit,       \* value the profile has at first
          OldReturn,    \* value of the impossible return
          MaxRepairs    \* bound on the integrity repairs

ASSUME NodesAssumption == Cardinality({Cloud, Controller, None}) = 3
ASSUME ValueAssumption ==
  /\ Prices \subseteq Nat \ {0} /\ Credit \in Nat \ {0} /\ OldReturn \in Nat \ {0}
  /\ MaxRepairs \in Nat
ASSUME OldAssumption == Old \notin Grant /\ None \notin Grant \cup {Old}

Node == {Cloud, Controller}
Other(n) == CHOOSE m \in Node : m # n

VARIABLES
  ledger,    \* player_time_ledger of each node
  units,     \* player_club_balances.time_value_units, None without a row
  status,    \* game_access_grants.status on each node
  rate,      \* game_access_grants.time_value_rate, 0 before the grant
  secs,      \* game_access_grants.duration_seconds
  repairs    \* how often the ledger was repaired

balanceVars == <<ledger, units>>
grantVars == <<status, rate, secs>>
vars == <<balanceVars, grantVars, repairs>>

Total(rows) == Sum(rows, [r \in rows |-> r.delta])
Keys(rows) == {r.key : r \in rows}
Of(n, kind, g) == {r \in ledger[n] : r.kind = kind /\ r.grant = g}
Kind == {"session_start", "session_start_refund", "session_remaining", "reversal"}
Status == {"none", "pending", "accepted", "start_failed", "ended"}

\* The id of a row tells who wrote it; only a reversal's key refers to an id.
Row(n, kind, g, value) ==
  [key |-> <<kind, g>>, kind |-> kind, grant |-> g, by |-> n, delta |-> value]
Reversal(n, r) == [Row(n, "reversal", r.grant, -r.delta) EXCEPT !.key = <<"reversal", r.grant, r.by>>]

IsRow(r) ==
  /\ r.kind \in Kind /\ r.grant \in Grant \cup {Old, None} /\ r.by \in Node /\ r.delta \in Int
  /\ r.key \in {<<r.kind, r.grant>>} \cup {<<r.kind, r.grant, n>> : n \in Node}

\* The unique key of the ledger, its signs, and the CHECK of the projection.
TypeOK ==
  /\ \A n \in Node :
       /\ \A r \in ledger[n] : IsRow(r) /\ (r.kind \in {"session_start", "reversal"} <=> r.delta < 0)
       /\ Cardinality(Keys(ledger[n])) = Cardinality(ledger[n])
       /\ units[n] = None \/ units[n] \in Nat
  /\ status \in [Node -> [Grant -> Status]]
  /\ rate \in [Grant -> Prices \cup {0}] /\ secs \in [Grant -> Nat]
  /\ repairs \in 0..MaxRepairs

\* What earlier sessions left; the Controller is new and knows nothing.
Init ==
  LET first == {Row(Cloud, "session_remaining", None, Credit),
                Row(Controller, "session_remaining", Old, OldReturn)}
  IN /\ ledger = [n \in Node |-> IF n = Cloud THEN first ELSE {}]
     /\ units = [n \in Node |-> IF n = Cloud THEN Total(first) ELSE None]
     /\ status = [n \in Node |-> [g \in Grant |-> "none"]]
     /\ rate = [g \in Grant |-> 0] /\ secs = [g \in Grant |-> 0]
     /\ repairs = 0

-----------------------------------------------------------------------------
Projection(n) == IF units[n] = None THEN 0 ELSE units[n]

\* Mutant: the projection is trusted where there is one.
ProjectedValue(n) == Projection(n)

(***************************************************************************)
(* lockTimeValue: what can be spent is the ledger's total as soon as there *)
(* is a ledger; the projection only counts without one.                    *)
(***************************************************************************)
LockTimeValue(n) ==
  IF ledger[n] = {} THEN Projection(n)
  ELSE IF Total(ledger[n]) < 0 THEN 0 ELSE Total(ledger[n])

TimeAtRate(value, r) == value \div r

\* recordTimeValue: a known key is a completed no-op, a debit needs the value.
RecordTimeValue(n, row) ==
  LET value == LockTimeValue(n)
  IN IF row.key \in Keys(ledger[n])
       THEN units' = [units EXCEPT ![n] = value] /\ UNCHANGED ledger
       ELSE /\ value + row.delta >= 0
            /\ ledger' = [ledger EXCEPT ![n] = @ \cup {row}]
            /\ units' = [units EXCEPT ![n] = value + row.delta]

(***************************************************************************)
(* redeemPlayerBalanceToPC: all the seconds the balance buys at the price  *)
(* of the zone, which the grant keeps as its rate.  A grant that was       *)
(* redeemed at the Cloud is left to the Controller.                        *)
(***************************************************************************)
RedeemPlayerBalance(n, g) ==
  /\ rate[g] = 0 /\ g = CHOOSE h \in Grant : rate[h] = 0
  /\ \E price \in Prices :
       LET seconds == TimeAtRate(LockTimeValue(n), price)
       IN /\ seconds > 0
          /\ RecordTimeValue(n, Row(n, "session_start", g, -(seconds * price)))
          /\ rate' = [rate EXCEPT ![g] = price]
          /\ secs' = [secs EXCEPT ![g] = seconds]
  /\ status' = [status EXCEPT ![n][g] = "pending"]
  /\ UNCHANGED repairs

\* refundPlayerBalance of the Controller's own handler, which has sent nothing
\* (the edge loop may have): exactly what session_start took.
RefundPlayerBalance(g) ==
  /\ status[Controller][g] = "pending"
  /\ \E r \in Of(Controller, "session_start", g) : r.by = Controller
  /\ status' = [status EXCEPT ![Controller][g] = "start_failed"]
  /\ LET taken == Total(Of(Controller, "session_start", g))
     IN RecordTimeValue(Controller, Row(Controller, "session_start_refund", g, -taken))
  /\ UNCHANGED <<rate, secs, repairs>>

\* The start of a pending grant is confirmed.  The edge loop may have sent it
\* before the handler refunded the grant; the confirmation is written whatever
\* the row has become.
ConfirmStart(g) ==
  /\ status[Controller][g] \in {"pending", "start_failed"}
  /\ status' = [status EXCEPT ![Controller][g] = "accepted"]
  /\ UNCHANGED <<balanceVars, rate, secs, repairs>>

\* Mutant: unused time is worth what the zone costs now.
FinishGrantAtPrice(n, g) ==
  /\ status[n][g] = "accepted"
  /\ status' = [status EXCEPT ![n][g] = "ended"]
  /\ \E left \in 0..secs[g], price \in Prices :
       IF left > 0
         THEN RecordTimeValue(n, Row(n, "session_remaining", g, left * price))
         ELSE UNCHANGED balanceVars
  /\ UNCHANGED <<rate, secs, repairs>>

(***************************************************************************)
(* finishGrant, from the Agent's event on the Controller, from its relay,  *)
(* or from an expiry: each node settles its own row, with the countdown it *)
(* believes in, at the rate the grant was bought at.                       *)
(***************************************************************************)
FinishGrant(n, g) ==
  /\ status[n][g] = "accepted"
  /\ status' = [status EXCEPT ![n][g] = "ended"]
  /\ \E left \in 0..secs[g] :
       IF left > 0
         THEN RecordTimeValue(n, Row(n, "session_remaining", g, left * rate[g]))
         ELSE UNCHANGED balanceVars
  /\ UNCHANGED <<rate, secs, repairs>>

-----------------------------------------------------------------------------
(***************************************************************************)
(* Repairs.                                                                *)
(***************************************************************************)
\* repairProfileBalanceProjection skips a ledger whose total is not positive.
RepairProjection(n) ==
  /\ Total(ledger[n]) > 0
  /\ units' = [units EXCEPT ![n] = Total(ledger[n])]
  /\ UNCHANGED <<ledger, grantVars, repairs>>

Reversed(n, r) == <<"reversal", r.grant, r.by>> \in Keys(ledger[n])

\* Mutant: only children are recognised.
ImpossibleOfChildren(n) ==
  {r \in ledger[n] : r.kind = "session_remaining" /\ ~Reversed(n, r) /\ r.grant = Old}

\* Returns of a child grant, or of a grant that was refunded.
Impossible(n) ==
  {r \in ledger[n] : r.kind = "session_remaining" /\ ~Reversed(n, r)
     /\ (r.grant = Old \/ (r.grant \in Grant /\ Of(n, "session_start_refund", r.grant) # {}))}

\* repairKnownProfileLedgerInflation; what is spent already is not taken back.
RepairLedger(n) ==
  /\ repairs < MaxRepairs
  /\ Total(Impossible(n)) <= LockTimeValue(n)
  /\ ledger' = [ledger EXCEPT ![n] = @ \cup {Reversal(n, r) : r \in Impossible(n)}]
  /\ units' = [units EXCEPT ![n] = LockTimeValue(n) - Total(Impossible(n))]
  /\ repairs' = repairs + 1
  /\ UNCHANGED grantVars

-----------------------------------------------------------------------------
\* The administrator's two requests for a grant of the player, on either node.
AdminRepair(n) == RepairProjection(n) \/ RepairLedger(n)

MergeStatus(own, incoming) ==
  IF incoming = "none" \/ (own = "ended" /\ incoming # "ended") THEN own ELSE incoming

\* Mutant: like the projection, the ledger is imported only where there is none.
ImportFirst(own, rows) == IF own = {} THEN rows ELSE own
\* Mutant: rows are told apart by their ids.
ImportById(own, rows) == own \cup rows

\* ON CONFLICT DO NOTHING: a row whose key is known is not imported.
Import(own, rows) == own \cup {r \in rows : r.key \notin Keys(own)}

(***************************************************************************)
(* One direction of a round of synchronisation: edgeSnapshotData of the    *)
(* other node, then applyEdgeSnapshotData with grants, ledger and, where   *)
(* there is no balance row and so no ledger yet, the projection.  What     *)
(* either node does while the snapshot is on its way is, for append-only   *)
(* rows, the same as doing it before or after; a lost one is one not made. *)
(***************************************************************************)
Synchronise(n) ==
  LET m == Other(n)
  IN /\ status' = [status EXCEPT ![n] = [g \in Grant |-> MergeStatus(@[g], status[m][g])]]
     /\ ledger' = [ledger EXCEPT ![n] = Import(@, ledger[m])]
     /\ units' = [units EXCEPT ![n] = IF @ = None THEN units[m] ELSE @]
     /\ UNCHANGED <<rate, secs, repairs>>

Next ==
  \/ \E n \in Node, g \in Grant : RedeemPlayerBalance(n, g) \/ FinishGrant(n, g)
  \/ \E g \in Grant : RefundPlayerBalance(g) \/ ConfirmStart(g)
  \/ \E n \in Node : AdminRepair(n) \/ Synchronise(n)

\* The rounds of synchronisation go on.
Fairness == \A n \in Node : WF_vars(Synchronise(n))

Spec == Init /\ [][Next]_vars /\ Fairness

-----------------------------------------------------------------------------
(***************************************************************************)
(* "Never debit that projection as if it were money" (lockTimeValue): what *)
(* a node spends is covered by the ledger it knows, however stale the      *)
(* projection became by imports, races of the nodes and repairs.           *)
(***************************************************************************)
SpendsOnlyLedger ==
  [][\A n \in Node : \A r \in ledger'[n] \ ledger[n] :
        r.by = n /\ r.kind = "session_start" => Total(ledger'[n]) >= 0]_vars

(***************************************************************************)
(* Editing prices makes no value: neither the refund nor the return of a   *)
(* grant gives back more than its start took, on any node.                 *)
(***************************************************************************)
NoProfit ==
  \A n \in Node, g \in Grant : Of(n, "session_start", g) # {} =>
    \A kind \in {"session_start_refund", "session_remaining"} :
      Total(Of(n, "session_start", g) \cup Of(n, kind, g)) <= 0

(***************************************************************************)
(* The integrity repair works: when a node has made it, no grant there has *)
(* given back more than it took, also one that was refunded by its handler *)
(* and started by the edge loop all the same.                              *)
(***************************************************************************)
RepairIsClean ==
  [][\A n \in Node : repairs' > repairs /\ (\E r \in ledger'[n] \ ledger[n] : r.by = n) =>
        \A g \in Grant \cup {Old} : Total({r \in ledger'[n] : r.grant = g}) <= 0]_vars

(***************************************************************************)
(* The nodes end up with the same entries: nothing that was spent, refunded*)
(* or returned on one stays unknown to the other.                          *)
(***************************************************************************)
LedgersMeet == <>[](Keys(ledger[Cloud]) = Keys(ledger[Controller]))
=============================================================================
