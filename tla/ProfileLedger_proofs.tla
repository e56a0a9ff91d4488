------------------------ MODULE ProfileLedger_proofs ------------------------
(***************************************************************************)
(* For every set of grants and prices and every bound: the ledger's rows   *)
(* are what their keys say, nobody gets back more than he spent, a repair  *)
(* leaves nothing to repair, and a purchase takes what the rows of its     *)
(* node cover.  The inductive invariant says what a row is worth: a start  *)
(* takes what its seconds cost, nothing gives back more than that, and a   *)
(* reversal takes back what its writer had returned.  A key names one row, *)
(* a node has no row of a grant without the row of its start, and what it  *)
(* wrote itself it still has.                                              *)
(***************************************************************************)
EXTENDS ProfileLedger, Sums_proofs, TLAPS

AnyGrant == Grant \cup {Old, None}
Rows == [key : (Kind \X AnyGrant) \cup (Kind \X AnyGrant \X Node), kind : Kind,
         grant : AnyGrant, by : Node, delta : Int]

\* The key of a row says what it is; only a reversal's names a writer.
Keyed(r) ==
  IF r.kind = "reversal" THEN r.key \in {<<"reversal", r.grant, x>> : x \in Node}
                         ELSE r.key = <<r.kind, r.grant>>
Signed(r) ==
  /\ r.kind \in {"session_start", "reversal"} <=> r.delta < 0
  /\ r.kind = "session_remaining" => r.delta > 0

\* What the start of a grant took.
Taken(g) == secs[g] * rate[g]
Started(n, g) == Of(n, "session_start", g) # {}

LedgerOK ==
  /\ ledger \in [Node -> SUBSET Rows]
  /\ \A n \in Node : IsFiniteSet(ledger[n]) /\ \A r \in ledger[n] : Keyed(r) /\ Signed(r)
UniqueKeys == \A n \in Node : \A r, s \in ledger[n] : r.key = s.key => r = s
UnitsOK ==
  /\ units \in [Node -> Nat \cup {None}]
  /\ \A n \in Node : ledger[n] = {} => units[n] \in {None, 0}
GrantsOK ==
  /\ status \in [Node -> [Grant -> Status]]
  /\ rate \in [Grant -> Prices \cup {0}] /\ secs \in [Grant -> Nat]
  /\ repairs \in 0..MaxRepairs

\* What a node wrote about the grants is in its own ledger.
OwnRows == \A n \in Node : \A r \in ledger[n] : r.grant \in Grant => r \in ledger[r.by]

\* A grant that is known was bought, and its start is in the ledger.
Bought ==
  \A n \in Node, g \in Grant :
    /\ status[n][g] # "none" => Started(n, g)
    /\ \A r \in ledger[n] : r.grant = g => rate[g] > 0 /\ Started(n, g)

\* What the rows are worth.  A reversal takes back what its writer returned.
Reverses(r) ==
  \E s \in ledger[r.key[3]] :
    s.kind = "session_remaining" /\ s.grant = r.grant /\ s.by = r.key[3] /\ r.delta = -s.delta
Worth(r) ==
  /\ r.grant \in Grant => /\ r.kind = "session_start" => r.delta = -Taken(r.grant)
                          /\ r.delta <= Taken(r.grant)
                          /\ r.kind = "reversal" => Reverses(r)
  /\ r.grant = Old => /\ r.kind = "session_remaining" => r.delta = OldReturn
                      /\ r.kind = "reversal" => r.delta = -OldReturn
                      /\ r.kind \in {"session_remaining", "reversal"}
  /\ r.grant = None => r.kind = "session_remaining"
Valued == \A n \in Node : \A r \in ledger[n] : Worth(r)

Inv == LedgerOK /\ UniqueKeys /\ UnitsOK /\ GrantsOK /\ OwnRows /\ Bought /\ Valued

-----------------------------------------------------------------------------
\* Totals.

LEMMA TotalInt ==
  ASSUME NEW D, IsFiniteSet(D), \A r \in D : r.delta \in Int
  PROVE  Total(D) \in Int
BY SumInt DEF Total

LEMMA TotalEmpty == Total({}) = 0
BY SumEmpty DEF Total

LEMMA TotalRemove ==
  ASSUME NEW D, IsFiniteSet(D), \A r \in D : r.delta \in Int, NEW r \in D
  PROVE  Total(D) = r.delta + Total(D \ {r})
<1> DEFINE f == [x \in D |-> x.delta]
           g == [x \in D \ {r} |-> x.delta]
<1>1. \A x \in D : f[x] \in Int
  OBVIOUS
<1>2. Sum(D, f) = f[r] + Sum(D \ {r}, f)
  <2> HIDE DEF f
  <2> QED BY <1>1, SumRemove
<1>3. IsFiniteSet(D \ {r}) /\ \A x \in D \ {r} : f[x] = g[x]
  BY FS_Subset
<1>4. Sum(D \ {r}, f) = Sum(D \ {r}, g)
  <2> HIDE DEF f, g
  <2> QED BY <1>3, SumAgree
<1> QED BY <1>2, <1>4 DEF Total

LEMMA TotalOne == ASSUME NEW r, r.delta \in Int PROVE Total({r}) = r.delta
<1>1. IsFiniteSet({r}) /\ {r} \ {r} = {}
  BY FS_Singleton
<1>2. Total({r}) = r.delta + Total({r} \ {r})
  BY <1>1, TotalRemove
<1> QED BY <1>1, <1>2, TotalEmpty

\* One row more.
LEMMA TotalAdd ==
  ASSUME NEW D, IsFiniteSet(D), \A x \in D : x.delta \in Int, NEW r, r \notin D, r.delta \in Int
  PROVE  Total(D \cup {r}) = Total(D) + r.delta
<1>1. IsFiniteSet(D \cup {r}) /\ (D \cup {r}) \ {r} = D
  BY FS_AddElement
<1>2. Total(D \cup {r}) = r.delta + Total((D \cup {r}) \ {r})
  BY <1>1, TotalRemove
<1>3. Total(D) \in Int
  BY TotalInt
<1>4. Total(D \cup {r}) = r.delta + Total(D)
  BY <1>1, <1>2
<1> QED BY <1>3, <1>4

LEMMA TotalSign ==
  ASSUME NEW D, IsFiniteSet(D), \A r \in D : r.delta \in Int /\ r.delta <= 0
  PROVE  Total(D) <= 0
<1> DEFINE f == [x \in D |-> x.delta]
<1>1. \A x \in D : f[x] \in Int /\ f[x] <= 0
  OBVIOUS
<1> HIDE DEF f
<1>2. Sum(D, f) <= 0
  BY <1>1, SumSign
<1> QED BY <1>2 DEF Total, f

-----------------------------------------------------------------------------
\* Rows.

LEMMA Constants ==
  /\ Cloud # Controller /\ None \notin Node /\ Cloud # None /\ Controller # None
  /\ Old \notin Grant /\ None \notin Grant /\ None # Old
<1>1. Cloud # Controller /\ Cloud # None /\ Controller # None
  <2>1. \A x, y : IsFiniteSet({x, y}) /\ Cardinality({x, y}) <= 2
    <3> TAKE x, y
    <3>1. IsFiniteSet({x}) /\ Cardinality({x}) = 1
      BY FS_Singleton
    <3>2. {x, y} = {x} \cup {y}
      OBVIOUS
    <3> QED BY <3>1, <3>2, FS_AddElement
  <2>2. ~ (Cardinality({Cloud, Controller, None}) <= 2)
    BY NodesAssumption
  <2>3. ASSUME Cloud = Controller PROVE FALSE
    <3>1. {Cloud, Controller, None} = {Cloud, None}
      BY <2>3
    <3> QED BY <2>1, <2>2, <3>1
  <2>4. ASSUME Cloud = None PROVE FALSE
    <3>1. {Cloud, Controller, None} = {Cloud, Controller}
      BY <2>4
    <3> QED BY <2>1, <2>2, <3>1
  <2>5. ASSUME Controller = None PROVE FALSE
    <3>1. {Cloud, Controller, None} = {Cloud, Controller}
      BY <2>5
    <3> QED BY <2>1, <2>2, <3>1
  <2> QED BY <2>3, <2>4, <2>5
<1> QED BY <1>1, OldAssumption DEF Node

LEMMA RowFields ==
  ASSUME NEW n \in Node, NEW kind \in Kind, NEW g \in AnyGrant, NEW v \in Int
  PROVE  LET r == Row(n, kind, g, v)
         IN  /\ r \in Rows /\ r.key = <<kind, g>> /\ r.kind = kind /\ r.grant = g /\ r.by = n
             /\ r.delta = v
BY DEF Row, Rows

LEMMA ReversalFields ==
  ASSUME NEW n \in Node, NEW s \in Rows
  PROVE  LET r == Reversal(n, s)
         IN  /\ r \in Rows /\ r.key = <<"reversal", s.grant, s.by>> /\ r.kind = "reversal"
             /\ r.grant = s.grant /\ r.by = n /\ r.delta = -s.delta
<1>1. "reversal" \in Kind /\ s.grant \in AnyGrant /\ s.by \in Node /\ s.delta \in Int
  BY DEF Rows, Kind
<1>2. -s.delta \in Int
  BY <1>1
<1>3. <<"reversal", s.grant, s.by>> \in Kind \X AnyGrant \X Node
  BY <1>1
<1>4. Reversal(n, s) = [key |-> <<"reversal", s.grant, s.by>>, kind |-> "reversal",
                        grant |-> s.grant, by |-> n, delta |-> -s.delta]
  BY DEF Reversal, Row
<1> QED BY <1>1, <1>2, <1>3, <1>4 DEF Rows

\* A key tells the kind and the grant of its row, and who wrote what is reversed.
LEMMA SameKey ==
  ASSUME NEW r \in Rows, NEW s \in Rows, Keyed(r), Keyed(s)
  PROVE  /\ r.key = s.key => r.kind = s.kind /\ r.grant = s.grant
         /\ r.kind = s.kind /\ r.grant = s.grant /\ r.kind # "reversal" => r.key = s.key
<1>1. r.key[1] = r.kind /\ r.key[2] = r.grant
  BY DEF Keyed
<1>2. s.key[1] = s.kind /\ s.key[2] = s.grant
  BY DEF Keyed
<1> QED BY <1>1, <1>2 DEF Keyed

\* Two rows that cancel each other leave the rest.
LEMMA TotalPair ==
  ASSUME NEW D, IsFiniteSet(D), \A x \in D : x.delta \in Int,
         NEW r \in D, NEW s \in D, r # s, r.delta + s.delta <= 0,
         \A x \in D \ {r, s} : x.delta <= 0
  PROVE  Total(D) <= 0
<1>1. IsFiniteSet(D \ {r}) /\ IsFiniteSet((D \ {r}) \ {s}) /\ s \in D \ {r}
  BY FS_Subset
<1>2. Total(D) = r.delta + Total(D \ {r})
  BY TotalRemove
<1>3. Total(D \ {r}) = s.delta + Total((D \ {r}) \ {s})
  BY <1>1, TotalRemove
<1>4. Total((D \ {r}) \ {s}) <= 0
  BY <1>1, TotalSign
<1>5. Total((D \ {r}) \ {s}) \in Int /\ r.delta \in Int /\ s.delta \in Int
  BY <1>1, TotalInt
<1> QED BY <1>2, <1>3, <1>4, <1>5

LEMMA TotalPairs ==
  ASSUME NEW D, IsFiniteSet(D), \A x \in D : x.delta \in Int,
         NEW r \in D, NEW s \in D, r # s, r.delta + s.delta <= 0,
         NEW t \in D \ {r, s}, NEW u \in D \ {r, s}, t # u, t.delta + u.delta <= 0,
         \A x \in D \ {r, s, t, u} : x.delta <= 0
  PROVE  Total(D) <= 0
<1>1. IsFiniteSet(D \ {r}) /\ IsFiniteSet((D \ {r}) \ {s}) /\ s \in D \ {r}
  BY FS_Subset
<1>2. Total(D) = r.delta + Total(D \ {r})
  BY TotalRemove
<1>3. Total(D \ {r}) = s.delta + Total((D \ {r}) \ {s})
  BY <1>1, TotalRemove
<1>4. Total((D \ {r}) \ {s}) <= 0
  BY <1>1, TotalPair
<1>5. Total((D \ {r}) \ {s}) \in Int /\ r.delta \in Int /\ s.delta \in Int
  BY <1>1, TotalInt
<1> QED BY <1>2, <1>3, <1>4, <1>5

-----------------------------------------------------------------------------
\* What can be spent is a number, and nothing without a ledger.
LEMMA Spendable ==
  ASSUME LedgerOK, UnitsOK, NEW n \in Node
  PROVE  /\ LockTimeValue(n) \in Nat /\ Total(ledger[n]) \in Int
         /\ ledger[n] = {} => LockTimeValue(n) = 0
         /\ ledger[n] # {} /\ LockTimeValue(n) > 0 => LockTimeValue(n) = Total(ledger[n])
<1>1. IsFiniteSet(ledger[n]) /\ \A r \in ledger[n] : r.delta \in Int
  BY DEF LedgerOK, Rows
<1>2. Total(ledger[n]) \in Int
  BY <1>1, TotalInt
<1>3. Projection(n) \in Nat /\ (ledger[n] = {} => Projection(n) = 0)
  BY DEF UnitsOK, Projection
<1> QED BY <1>2, <1>3 DEF LockTimeValue

\* New rows of a node that know their keys, whose keys are new.
LEMMA Grow ==
  ASSUME LedgerOK, UniqueKeys, OwnRows, NEW n \in Node, NEW new, new \subseteq Rows, IsFiniteSet(new),
         \A r \in new : Keyed(r) /\ Signed(r) /\ r.key \notin Keys(ledger[n]),
         \A r, s \in new : r.key = s.key => r = s,
         \A r \in new : r.grant \in Grant => r.by = n \/ r \in ledger[r.by],
         ledger' = [ledger EXCEPT ![n] = @ \cup new]
  PROVE  /\ LedgerOK' /\ UniqueKeys' /\ OwnRows'
         /\ \A m \in Node : ledger[m] \subseteq ledger'[m]
         /\ ledger'[n] = ledger[n] \cup new /\ \A m \in Node : m # n => ledger'[m] = ledger[m]
<1>1. ledger'[n] = ledger[n] \cup new /\ \A m \in Node : m # n => ledger'[m] = ledger[m]
  BY DEF LedgerOK
<1>2. \A m \in Node : ledger[m] \subseteq ledger'[m]
  BY <1>1
<1>3. LedgerOK'
  <2>1. ledger' \in [Node -> SUBSET Rows]
    BY DEF LedgerOK
  <2>2. ASSUME NEW m \in Node PROVE IsFiniteSet(ledger'[m])
    <3>1. IsFiniteSet(ledger[n] \cup new) /\ IsFiniteSet(ledger[m])
      BY FS_Union DEF LedgerOK
    <3> QED BY <1>1, <3>1
  <2>3. ASSUME NEW m \in Node, NEW r \in ledger'[m] PROVE Keyed(r) /\ Signed(r)
    BY <1>1, <2>3 DEF LedgerOK
  <2>4. ASSUME NEW m \in Node, NEW r \in ledger'[m] PROVE Keyed(r)' /\ Signed(r)'
    BY <2>3 DEF Keyed, Signed
  <2> QED BY <2>1, <2>2, <2>4 DEF LedgerOK
<1>4. UniqueKeys'
  BY <1>1 DEF UniqueKeys, Keys
<1>5. OwnRows'
  <2> SUFFICES ASSUME NEW m \in Node, NEW r \in ledger'[m], r.grant \in Grant PROVE r \in ledger'[r.by]
    BY DEF OwnRows
  <2>1. r.by \in Node
    BY <1>1 DEF LedgerOK, Rows
  <2>2. CASE r \in ledger[m]
    BY <1>2, <2>1, <2>2 DEF OwnRows
  <2>3. CASE r \notin ledger[m]
    <3>1. m = n /\ r \in new
      BY <1>1, <2>3
    <3> QED BY <1>1, <1>2, <2>1, <3>1
  <2> QED BY <2>2, <2>3
<1> QED BY <1>1, <1>2, <1>3, <1>4, <1>5

\* One row recorded, or found.
LEMMA Recorded ==
  ASSUME LedgerOK, UniqueKeys, UnitsOK, OwnRows, NEW n \in Node,
         NEW row \in Rows, Keyed(row), Signed(row), row.by = n, RecordTimeValue(n, row)
  PROVE  /\ LedgerOK' /\ UniqueKeys' /\ UnitsOK' /\ OwnRows'
         /\ \A m \in Node : ledger[m] \subseteq ledger'[m]
         /\ \A m \in Node : \A r \in ledger'[m] \ ledger[m] : r = row /\ m = n
         /\ \/ row.key \in Keys(ledger[n])
            \/ ledger'[n] = ledger[n] \cup {row} /\ LockTimeValue(n) + row.delta >= 0
<1> DEFINE value == LockTimeValue(n)
<1>1. value \in Nat /\ row.delta \in Int
  BY Spendable DEF Rows
<1> HIDE DEF value
<1>2. CASE row.key \in Keys(ledger[n])
  <2>1. units' = [units EXCEPT ![n] = value] /\ ledger' = ledger
    BY <1>2 DEF RecordTimeValue, value
  <2>2. ledger[n] # {}
    BY <1>2 DEF Keys
  <2>3. UnitsOK'
    BY <1>1, <2>1, <2>2 DEF UnitsOK
  <2> QED BY <1>2, <2>1, <2>3 DEF LedgerOK, UniqueKeys, OwnRows, Keyed, Signed
<1>3. CASE row.key \notin Keys(ledger[n])
  <2>1. /\ units' = [units EXCEPT ![n] = value + row.delta] /\ value + row.delta >= 0
        /\ ledger' = [ledger EXCEPT ![n] = @ \cup {row}]
    BY <1>3 DEF RecordTimeValue, value
  <2>2. IsFiniteSet({row})
    BY FS_Singleton
  <2>3. /\ LedgerOK' /\ UniqueKeys' /\ OwnRows' /\ \A m \in Node : ledger[m] \subseteq ledger'[m]
        /\ ledger'[n] = ledger[n] \cup {row} /\ \A m \in Node : m # n => ledger'[m] = ledger[m]
    BY <1>3, <2>1, <2>2, Grow
  <2>4. value + row.delta \in Nat
    BY <1>1, <2>1
  <2>5. UnitsOK'
    BY <2>1, <2>3, <2>4 DEF UnitsOK
  <2> QED BY <2>1, <2>3, <2>5 DEF value
<1> QED BY <1>2, <1>3

\* A row keeps its worth while its grant keeps its price.
LEMMA WorthStays ==
  ASSUME NEW r \in Rows, Keyed(r), Worth(r), \A m \in Node : ledger[m] \subseteq ledger'[m],
         r.grant \in Grant => secs'[r.grant] = secs[r.grant] /\ rate'[r.grant] = rate[r.grant]
  PROVE  Worth(r)'
<1>1. r.grant \in Grant /\ r.kind = "reversal" => Reverses(r)'
  <2> SUFFICES ASSUME r.grant \in Grant, r.kind = "reversal" PROVE Reverses(r)'
    OBVIOUS
  <2>1. r.key[3] \in Node
    BY DEF Keyed
  <2>2. PICK s \in ledger[r.key[3]] :
          s.kind = "session_remaining" /\ s.grant = r.grant /\ s.by = r.key[3] /\ r.delta = -s.delta
    BY DEF Worth, Reverses
  <2> QED BY <2>1, <2>2 DEF Reverses
<1>2. r.grant \in Grant => Taken(r.grant)' = Taken(r.grant)
  BY DEF Taken
<1> QED BY <1>1, <1>2 DEF Worth

\* When all rows were known to some node before.
LEMMA ValuedStays ==
  ASSUME Inv, \A m \in Node : ledger[m] \subseteq ledger'[m],
         UNCHANGED <<rate, secs>>,
         \A m \in Node : \A r \in ledger'[m] \ ledger[m] : Worth(r)' \/ \E k \in Node : r \in ledger[k]
  PROVE  Valued'
<1> SUFFICES ASSUME NEW m \in Node, NEW r \in ledger'[m] PROVE Worth(r)'
  BY DEF Valued
<1>1. CASE \E k \in Node : r \in ledger[k]
  <2>1. r \in Rows /\ Keyed(r) /\ Worth(r)
    BY <1>1 DEF Inv, LedgerOK, Valued
  <2> QED BY <2>1, WorthStays
<1> QED BY <1>1

\* Starts stay, and with them what is known of the grants.
LEMMA BoughtStays ==
  ASSUME Inv, \A m \in Node : ledger[m] \subseteq ledger'[m],
         UNCHANGED rate,
         \A m \in Node : \A r \in ledger'[m] \ ledger[m] :
            r.grant \in Grant => rate[r.grant] > 0 /\ Started(m, r.grant)',
         \A m \in Node, g \in Grant : status'[m][g] # "none" => Started(m, g)'
  PROVE  Bought'
<1> SUFFICES ASSUME NEW m \in Node, NEW g \in Grant, NEW r \in ledger'[m], r.grant = g
             PROVE  rate[g] > 0 /\ Started(m, g)'
  BY DEF Bought
<1>1. CASE r \in ledger[m]
  <2>1. rate[g] > 0 /\ Started(m, g)
    BY <1>1 DEF Inv, Bought
  <2> QED BY <2>1 DEF Started, Of
<1> QED BY <1>1

LEMMA StartedStays ==
  ASSUME NEW n \in Node, NEW g, ledger[n] \subseteq ledger'[n], Started(n, g)
  PROVE  Started(n, g)'
BY DEF Started, Of

\* The start of a grant is one row, and took what the grant is worth.
LEMMA OneStart ==
  ASSUME Inv, NEW n \in Node, NEW g \in Grant, Started(n, g)
  PROVE  /\ \E r \in ledger[n] : /\ r.kind = "session_start" /\ r.grant = g /\ r.delta = -Taken(g)
                                /\ Of(n, "session_start", g) = {r}
         /\ Taken(g) \in Nat /\ rate[g] \in Nat \ {0} /\ secs[g] \in Nat
<1>1. PICK r \in ledger[n] : r.kind = "session_start" /\ r.grant = g
  BY DEF Started, Of
<1>2. r.delta = -Taken(g)
  BY <1>1 DEF Inv, Valued, Worth
<1>3. ASSUME NEW s \in ledger[n], s.kind = "session_start", s.grant = g PROVE s = r
  <2>1. r.key = s.key
    BY <1>1, <1>3, SameKey DEF Inv, LedgerOK
  <2> QED BY <2>1 DEF Inv, UniqueKeys
<1>4. Of(n, "session_start", g) = {r}
  BY <1>1, <1>3 DEF Of
<1>5. rate[g] \in Nat /\ secs[g] \in Nat /\ rate[g] > 0
  <2>1. rate[g] \in Prices \cup {0} /\ secs[g] \in Nat
    BY DEF Inv, GrantsOK
  <2>2. rate[g] > 0
    BY <1>1 DEF Inv, Bought
  <2>3. \A p \in Prices \cup {0} : p \in Nat
    BY ValueAssumption
  <2> QED BY <2>1, <2>2, <2>3
<1>6. Taken(g) \in Nat
  BY <1>5 DEF Taken
<1> QED BY <1>1, <1>2, <1>4, <1>5, <1>6

-----------------------------------------------------------------------------
\* The initial state and the steps.

LEMMA InitInv == Init => Inv
<1> SUFFICES ASSUME Init PROVE Inv
  OBVIOUS
<1> DEFINE a == Row(Cloud, "session_remaining", None, Credit)
           b == Row(Controller, "session_remaining", Old, OldReturn)
<1>1. /\ a \in Rows /\ a.key = <<"session_remaining", None>> /\ a.kind = "session_remaining"
      /\ a.grant = None /\ a.by = Cloud /\ a.delta = Credit /\ Credit \in Nat \ {0}
  BY ValueAssumption DEF Row, Rows, Kind, AnyGrant, Node
<1>2. /\ b \in Rows /\ b.key = <<"session_remaining", Old>> /\ b.kind = "session_remaining"
      /\ b.grant = Old /\ b.by = Controller /\ b.delta = OldReturn /\ OldReturn \in Nat \ {0}
  BY ValueAssumption DEF Row, Rows, Kind, AnyGrant, Node
<1>3. ledger = [n \in Node |-> IF n = Cloud THEN {a, b} ELSE {}]
  BY DEF Init
<1>4. units = [n \in Node |-> IF n = Cloud THEN Total({a, b}) ELSE None]
  BY DEF Init
<1>5. GrantsOK
  BY ValueAssumption DEF Init, GrantsOK, Status
<1> HIDE DEF a, b
<1>6. Cloud \in Node /\ \A n \in Node : n # Cloud => ledger[n] = {} /\ units[n] = None
  BY <1>3, <1>4 DEF Node
<1>7. a # b /\ ledger[Cloud] = {a, b}
  BY <1>1, <1>2, <1>3, <1>6, Constants
<1>8. LedgerOK
  <2>1. IsFiniteSet({a, b}) /\ IsFiniteSet({})
    <3>1. IsFiniteSet({b}) /\ {a, b} = {b} \cup {a}
      BY FS_Singleton
    <3> QED BY <3>1, FS_AddElement, FS_EmptySet
  <2>2. Keyed(a) /\ Signed(a) /\ Keyed(b) /\ Signed(b)
    BY <1>1, <1>2 DEF Keyed, Signed
  <2> QED BY <1>1, <1>2, <1>3, <2>1, <2>2 DEF LedgerOK
<1>9. UniqueKeys
  <2>1. a.key # b.key
    BY <1>1, <1>2, Constants
  <2> QED BY <1>6, <1>7, <2>1 DEF UniqueKeys
<1>10. UnitsOK
  <2>1. IsFiniteSet({b}) /\ {a, b} = {b} \cup {a}
    BY FS_Singleton
  <2>2. Total({b}) = OldReturn
    BY <1>2, TotalOne
  <2>3. Total({b} \cup {a}) = Total({b}) + a.delta
    BY <1>1, <1>2, <1>7, <2>1, TotalAdd
  <2>4. Total({a, b}) \in Nat
    BY <1>1, <1>2, <2>1, <2>2, <2>3
  <2> QED BY <1>4, <1>6, <1>7, <2>4 DEF UnitsOK
<1>11. \A n \in Node : \A r \in ledger[n] : r.grant \notin Grant /\ (r = a \/ r = b)
  BY <1>1, <1>2, <1>6, <1>7, Constants
<1>12. OwnRows
  BY <1>11 DEF OwnRows
<1>13. Bought
  BY <1>11 DEF Bought, Init
<1>14. Worth(a) /\ Worth(b)
  BY <1>1, <1>2, Constants DEF Worth
<1>15. Valued
  BY <1>11, <1>14 DEF Valued
<1> QED BY <1>5, <1>8, <1>9, <1>10, <1>12, <1>13, <1>15 DEF Inv

\* A purchase takes what it will be worth.
LEMMA RedeemKeeps ==
  ASSUME Inv, NEW n \in Node, NEW g \in Grant, RedeemPlayerBalance(n, g)
  PROVE  /\ Inv'
         /\ \A m \in Node : ledger[m] \subseteq ledger'[m]
         /\ Total(ledger'[n]) >= 0 /\ \A m \in Node : m # n => ledger'[m] = ledger[m]
<1>1. PICK price \in Prices :
        LET seconds == TimeAtRate(LockTimeValue(n), price)
        IN  /\ seconds > 0
            /\ RecordTimeValue(n, Row(n, "session_start", g, -(seconds * price)))
            /\ rate' = [rate EXCEPT ![g] = price] /\ secs' = [secs EXCEPT ![g] = seconds]
  BY DEF RedeemPlayerBalance
<1> DEFINE seconds == TimeAtRate(LockTimeValue(n), price)
           cost == seconds * price
           row == Row(n, "session_start", g, -cost)
<1>2. LedgerOK /\ UniqueKeys /\ UnitsOK /\ GrantsOK /\ OwnRows /\ Bought /\ Valued
  BY DEF Inv
<1>3. price \in Nat \ {0} /\ LockTimeValue(n) \in Nat
  BY <1>2, Spendable, ValueAssumption
<1>4. seconds \in Nat /\ seconds > 0 /\ LockTimeValue(n) > 0
  <2>1. seconds > 0
    BY <1>1
  <2>2. seconds \in Nat
    BY <1>3 DEF TimeAtRate
  <2>3. LockTimeValue(n) # 0
    <3>1. 0 \div price = 0
      BY <1>3
    <3> QED BY <2>1, <3>1 DEF TimeAtRate
  <2> QED BY <1>3, <2>1, <2>2, <2>3
<1>5. /\ RecordTimeValue(n, row) /\ rate' = [rate EXCEPT ![g] = price]
      /\ secs' = [secs EXCEPT ![g] = seconds] /\ status' = [status EXCEPT ![n][g] = "pending"]
      /\ rate[g] = 0 /\ repairs' = repairs
  BY <1>1 DEF RedeemPlayerBalance
<1> HIDE DEF seconds
<1>6. cost \in Nat /\ cost > 0
  BY <1>3, <1>4
<1> HIDE DEF cost
<1>7. /\ row \in Rows /\ row.key = <<"session_start", g>> /\ row.kind = "session_start"
      /\ row.grant = g /\ row.by = n /\ row.delta = -cost /\ -cost < 0
  BY <1>6, RowFields DEF Kind, AnyGrant
<1> HIDE DEF row
<1>8. Keyed(row) /\ Signed(row)
  BY <1>7 DEF Keyed, Signed
<1>9. \A m \in Node : \A r \in ledger[m] : r.grant # g
  BY <1>2, <1>5 DEF Bought
<1>10. row.key \notin Keys(ledger[n])
  <2> SUFFICES ASSUME NEW r \in ledger[n], r.key = row.key PROVE FALSE
    BY DEF Keys
  <2>1. r \in Rows /\ Keyed(r)
    BY <1>2 DEF LedgerOK
  <2> QED BY <1>7, <1>8, <1>9, <2>1, SameKey
<1>11. /\ LedgerOK' /\ UniqueKeys' /\ UnitsOK' /\ OwnRows'
       /\ \A m \in Node : ledger[m] \subseteq ledger'[m]
       /\ \A m \in Node : \A r \in ledger'[m] \ ledger[m] : r = row /\ m = n
       /\ ledger'[n] = ledger[n] \cup {row} /\ LockTimeValue(n) + row.delta >= 0
  BY <1>2, <1>5, <1>7, <1>8, <1>10, Recorded
<1>12. GrantsOK'
  BY <1>2, <1>4, <1>5 DEF GrantsOK, Status
<1>13. Started(n, g)'
  BY <1>7, <1>11 DEF Started, Of
<1>14. rate'[g] = price /\ secs'[g] = seconds /\ \A h \in Grant \ {g} : rate'[h] = rate[h] /\ secs'[h] = secs[h]
  BY <1>2, <1>5 DEF GrantsOK
<1>15. Bought'
  <2>1. ASSUME NEW m \in Node, NEW h \in Grant, status'[m][h] # "none" PROVE Started(m, h)'
    <3>1. CASE m = n /\ h = g
      BY <1>13, <3>1
    <3>2. CASE ~ (m = n /\ h = g)
      <4>1. status'[m][h] = status[m][h]
        BY <1>2, <1>5, <3>2 DEF GrantsOK
      <4>2. Started(m, h)
        BY <1>2, <2>1, <4>1 DEF Bought
      <4> QED BY <1>11, <4>2, StartedStays
    <3> QED BY <3>1, <3>2
  <2>2. ASSUME NEW m \in Node, NEW h \in Grant, NEW r \in ledger'[m], r.grant = h
        PROVE  rate'[h] > 0 /\ Started(m, h)'
    <3>1. CASE r = row /\ m = n
      BY <1>3, <1>7, <1>13, <1>14, <2>2, <3>1
    <3>2. CASE ~ (r = row /\ m = n)
      <4>1. r \in ledger[m]
        BY <1>11, <3>2
      <4>2. h # g /\ rate[h] > 0 /\ Started(m, h)
        BY <1>2, <1>9, <2>2, <4>1 DEF Bought
      <4> QED BY <1>11, <1>14, <4>2, StartedStays
    <3> QED BY <3>1, <3>2
  <2> QED BY <2>1, <2>2 DEF Bought
<1>16. Valued'
  <2> SUFFICES ASSUME NEW m \in Node, NEW r \in ledger'[m] PROVE Worth(r)'
    BY DEF Valued
  <2>1. CASE r = row
    <3>1. Taken(g)' = cost
      BY <1>14 DEF Taken, cost
    <3> QED BY <1>6, <1>7, <2>1, <3>1, Constants DEF Worth
  <2>2. CASE r # row
    <3>1. r \in ledger[m]
      BY <1>11, <2>2
    <3>2. r \in Rows /\ Keyed(r) /\ Worth(r)
      BY <1>2, <3>1 DEF LedgerOK, Valued
    <3>3. r.grant # g
      BY <1>9, <3>1
    <3> QED BY <1>11, <1>14, <3>2, <3>3, WorthStays
  <2> QED BY <2>1, <2>2
<1>17. Total(ledger'[n]) >= 0
  <2>1. IsFiniteSet(ledger[n]) /\ \A r \in ledger[n] : r.delta \in Int
    BY <1>2 DEF LedgerOK, Rows
  <2>2. row \notin ledger[n] /\ row.delta \in Int
    BY <1>7, <1>10 DEF Keys, Rows
  <2>3. Total(ledger'[n]) = Total(ledger[n]) + row.delta
    BY <1>11, <2>1, <2>2, TotalAdd
  <2>4. ledger[n] # {} /\ LockTimeValue(n) = Total(ledger[n])
    BY <1>2, <1>4, Spendable
  <2> QED BY <1>11, <2>3, <2>4
<1>18. \A m \in Node : m # n => ledger'[m] = ledger[m]
  BY <1>11
<1> QED BY <1>11, <1>12, <1>15, <1>16, <1>17, <1>18 DEF Inv

\* A return that is at most what the start took.
LEMMA ReturnKeeps ==
  ASSUME Inv, NEW n \in Node, NEW g \in Grant, Started(n, g), NEW v \in Nat, v <= Taken(g),
         NEW kind \in {"session_start_refund", "session_remaining"},
         kind = "session_remaining" => v > 0,
         RecordTimeValue(n, Row(n, kind, g, v)), UNCHANGED <<rate, secs, repairs>>,
         status' \in [Node -> [Grant -> Status]],
         \A m \in Node, h \in Grant : status'[m][h] # "none" => status[m][h] # "none"
  PROVE  /\ Inv' /\ \A m \in Node : ledger[m] \subseteq ledger'[m]
         /\ \A m \in Node : \A r \in ledger'[m] \ ledger[m] : r.kind = kind
<1> DEFINE row == Row(n, kind, g, v)
<1>1. LedgerOK /\ UniqueKeys /\ UnitsOK /\ GrantsOK /\ OwnRows /\ Bought /\ Valued
  BY DEF Inv
<1>2. /\ row \in Rows /\ row.key = <<kind, g>> /\ row.kind = kind
      /\ row.grant = g /\ row.by = n /\ row.delta = v
  <2>1. kind \in Kind /\ g \in AnyGrant
    BY DEF Kind, AnyGrant
  <2>2. v \in Int
    OBVIOUS
  <2> QED BY <2>1, <2>2, RowFields
<1>3. RecordTimeValue(n, row)
  OBVIOUS
<1> HIDE DEF row
<1>4. Keyed(row) /\ Signed(row)
  BY <1>2 DEF Keyed, Signed
<1>5. /\ LedgerOK' /\ UniqueKeys' /\ UnitsOK' /\ OwnRows'
      /\ \A m \in Node : ledger[m] \subseteq ledger'[m]
      /\ \A m \in Node : \A r \in ledger'[m] \ ledger[m] : r = row /\ m = n
  BY <1>1, <1>2, <1>3, <1>4, Recorded
<1>6. GrantsOK'
  BY <1>1 DEF GrantsOK
<1>7. Worth(row)'
  <2>1. row.grant \in Grant /\ row.grant # Old /\ row.grant # None
    BY <1>2, Constants
  <2>2. row.kind # "session_start" /\ row.kind # "reversal"
    BY <1>2
  <2>3. row.delta <= Taken(row.grant)'
    BY <1>2 DEF Taken
  <2> QED BY <2>1, <2>2, <2>3 DEF Worth
<1>8. Valued'
  BY <1>5, <1>7, ValuedStays
<1>9. \A m \in Node, h \in Grant : status'[m][h] # "none" => Started(m, h)'
  BY <1>1, <1>5, StartedStays DEF Bought
<1>10. rate[g] > 0 /\ Started(n, g)'
  BY <1>5, OneStart, StartedStays
<1>11. Bought'
  BY <1>2, <1>5, <1>9, <1>10, BoughtStays
<1> QED BY <1>2, <1>5, <1>6, <1>8, <1>11 DEF Inv

LEMMA RefundKeeps ==
  ASSUME Inv, NEW g \in Grant, RefundPlayerBalance(g)
  PROVE  /\ Inv' /\ \A m \in Node : ledger[m] \subseteq ledger'[m]
         /\ \A m \in Node : \A r \in ledger'[m] \ ledger[m] : r.kind = "session_start_refund"
<1>1. Controller \in Node
  BY DEF Node
<1>2. Started(Controller, g)
  BY <1>1 DEF RefundPlayerBalance, Inv, Bought
<1>3. PICK r : r.delta = -Taken(g) /\ Of(Controller, "session_start", g) = {r} /\ Taken(g) \in Nat
  BY <1>1, <1>2, OneStart
<1>4. Total(Of(Controller, "session_start", g)) = -Taken(g)
  BY <1>3, TotalOne
<1>5. RecordTimeValue(Controller, Row(Controller, "session_start_refund", g, Taken(g)))
  <2>1. -Total(Of(Controller, "session_start", g)) = Taken(g)
    BY <1>3, <1>4
  <2> QED BY <2>1 DEF RefundPlayerBalance
<1>6. /\ status' \in [Node -> [Grant -> Status]] /\ UNCHANGED <<rate, secs, repairs>>
      /\ \A m \in Node, h \in Grant : status'[m][h] # "none" => status[m][h] # "none"
  <2>1. status \in [Node -> [Grant -> Status]]
    BY DEF Inv, GrantsOK
  <2> QED BY <1>1, <2>1 DEF RefundPlayerBalance, Status
<1>7. Taken(g) <= Taken(g)
  BY <1>3
<1>8. "session_start_refund" \in {"session_start_refund", "session_remaining"}
  OBVIOUS
<1> HIDE DEF Inv
<1> QED BY <1>1, <1>2, <1>3, <1>5, <1>6, <1>7, <1>8, ReturnKeeps

\* A step that records nothing and starts no grant.
LEMMA QuietKeeps ==
  ASSUME Inv, UNCHANGED <<ledger, rate, secs, repairs>>, UnitsOK',
         status' \in [Node -> [Grant -> Status]],
         \A m \in Node, h \in Grant : status'[m][h] # "none" => status[m][h] # "none"
  PROVE  Inv'
<1>1. LedgerOK' /\ UniqueKeys' /\ OwnRows'
  BY DEF Inv, LedgerOK, UniqueKeys, OwnRows, Keyed, Signed
<1>2. GrantsOK'
  BY DEF Inv, GrantsOK
<1>3. Valued'
  BY DEF Inv, Valued, Worth, Reverses, Taken
<1>4. Bought'
  BY DEF Inv, Bought, Started, Of
<1> QED BY <1>1, <1>2, <1>3, <1>4 DEF Inv

LEMMA FinishKeeps ==
  ASSUME Inv, NEW n \in Node, NEW g \in Grant, FinishGrant(n, g)
  PROVE  /\ Inv' /\ \A m \in Node : ledger[m] \subseteq ledger'[m]
         /\ \A m \in Node : \A r \in ledger'[m] \ ledger[m] : r.kind = "session_remaining"
<1>1. Started(n, g)
  BY DEF FinishGrant, Inv, Bought
<1>2. /\ status' \in [Node -> [Grant -> Status]] /\ UNCHANGED <<rate, secs, repairs>>
      /\ \A m \in Node, h \in Grant : status'[m][h] # "none" => status[m][h] # "none"
  <2>1. status \in [Node -> [Grant -> Status]]
    BY DEF Inv, GrantsOK
  <2> QED BY <2>1 DEF FinishGrant, Status
<1>3. PICK left \in 0..secs[g] :
        IF left > 0 THEN RecordTimeValue(n, Row(n, "session_remaining", g, left * rate[g]))
                    ELSE UNCHANGED balanceVars
  BY DEF FinishGrant
<1>4. rate[g] \in Nat \ {0} /\ secs[g] \in Nat
  BY <1>1, OneStart
<1>5. CASE left > 0
  <2>1. left * rate[g] \in Nat /\ left * rate[g] > 0 /\ left * rate[g] <= secs[g] * rate[g]
    BY <1>4, <1>5
  <2>2. RecordTimeValue(n, Row(n, "session_remaining", g, left * rate[g]))
    BY <1>3, <1>5
  <2>3. left * rate[g] <= Taken(g)
    BY <2>1 DEF Taken
  <2>4. "session_remaining" \in {"session_start_refund", "session_remaining"}
    OBVIOUS
  <2> HIDE DEF Inv
  <2> QED BY <1>1, <1>2, <2>1, <2>2, <2>3, <2>4, ReturnKeeps
<1>6. CASE ~ (left > 0)
  <2>1. UNCHANGED <<ledger, units>>
    BY <1>3, <1>6 DEF balanceVars
  <2>2. UnitsOK'
    BY <2>1 DEF Inv, UnitsOK
  <2> QED BY <1>2, <2>1, <2>2, QuietKeeps
<1> QED BY <1>5, <1>6

LEMMA ConfirmKeeps == ASSUME Inv, NEW g \in Grant, ConfirmStart(g) PROVE Inv' /\ UNCHANGED ledger
<1>1. UNCHANGED <<ledger, units, rate, secs, repairs>>
  BY DEF ConfirmStart, balanceVars
<1>2. /\ status' \in [Node -> [Grant -> Status]]
      /\ \A m \in Node, h \in Grant : status'[m][h] # "none" => status[m][h] # "none"
  <2>1. status \in [Node -> [Grant -> Status]] /\ Controller \in Node
    BY DEF Inv, GrantsOK, Node
  <2> QED BY <2>1 DEF ConfirmStart, Status
<1>3. UnitsOK'
  BY <1>1 DEF Inv, UnitsOK
<1> QED BY <1>1, <1>2, <1>3, QuietKeeps

LEMMA ProjectionKeeps ==
  ASSUME Inv, NEW n \in Node, RepairProjection(n)
  PROVE  Inv' /\ UNCHANGED <<ledger, repairs>>
<1>1. UNCHANGED <<ledger, status, rate, secs, repairs>>
  BY DEF RepairProjection, grantVars
<1>2. UnitsOK'
  <2>1. Total(ledger[n]) \in Int /\ Total(ledger[n]) > 0
    BY Spendable DEF Inv, RepairProjection
  <2>2. ledger[n] # {}
    BY <2>1, TotalEmpty
  <2> QED BY <1>1, <2>1, <2>2 DEF Inv, UnitsOK, RepairProjection
<1>3. status' \in [Node -> [Grant -> Status]]
  BY <1>1 DEF Inv, GrantsOK
<1> QED BY <1>1, <1>2, <1>3, QuietKeeps

LEMMA StutterKeeps == ASSUME Inv, UNCHANGED vars PROVE Inv' /\ UNCHANGED ledger
<1>1. UNCHANGED <<ledger, units, status, rate, secs, repairs>>
  BY DEF vars, balanceVars, grantVars
<1>2. UnitsOK' /\ status' \in [Node -> [Grant -> Status]]
  BY <1>1 DEF Inv, UnitsOK, GrantsOK
<1> QED BY <1>1, <1>2, QuietKeeps

\* Each impossible return is taken back once, to what it gave.
LEMMA RepairKeeps ==
  ASSUME Inv, NEW n \in Node, RepairLedger(n)
  PROVE  /\ Inv' /\ \A m \in Node : ledger[m] \subseteq ledger'[m]
         /\ \A m \in Node : \A r \in ledger'[m] \ ledger[m] : m = n /\ r.kind = "reversal"
         /\ \A r \in Impossible(n) : \E v \in ledger'[n] : v.key = <<"reversal", r.grant, r.by>>
<1> DEFINE back == Impossible(n)
           new == {Reversal(n, r) : r \in back}
<1>1. LedgerOK /\ UniqueKeys /\ UnitsOK /\ GrantsOK /\ OwnRows /\ Bought /\ Valued
  BY DEF Inv
<1>2. \A r \in back : /\ r \in ledger[n] /\ r \in Rows /\ r.kind = "session_remaining"
                        /\ <<"reversal", r.grant, r.by>> \notin Keys(ledger[n])
                        /\ (r.grant = Old \/ r.grant \in Grant)
                        /\ Keyed(r) /\ Signed(r) /\ Worth(r)
  BY <1>1 DEF Impossible, Reversed, LedgerOK, Valued
<1>3. /\ ledger' = [ledger EXCEPT ![n] = @ \cup new]
      /\ units' = [units EXCEPT ![n] = LockTimeValue(n) - Total(back)]
      /\ Total(back) <= LockTimeValue(n) /\ repairs' = repairs + 1 /\ repairs < MaxRepairs
      /\ UNCHANGED <<status, rate, secs>>
  BY DEF RepairLedger, grantVars
<1>4. IsFiniteSet(back)
  <2>1. back \subseteq ledger[n] /\ IsFiniteSet(ledger[n])
    BY <1>1 DEF Impossible, LedgerOK
  <2> QED BY <2>1, FS_Subset
<1> HIDE DEF back
<1>5. IsFiniteSet(new)
  <2> DEFINE f == [r \in back |-> Reversal(n, r)]
  <2>1. f \in Surjection(back, new)
    BY DEF Surjection
  <2> QED BY <1>4, <2>1, FS_Surjection
<1>6. \A r \in back : LET v == Reversal(n, r)
                       IN  /\ v \in Rows /\ v.key = <<"reversal", r.grant, r.by>>
                           /\ v.kind = "reversal" /\ v.grant = r.grant /\ v.by = n /\ v.delta = -r.delta
  <2> TAKE r \in back
  <2>1. r \in Rows
    BY <1>2
  <2> QED BY <2>1, ReversalFields
<1>7. ASSUME NEW v \in new
      PROVE  /\ v \in Rows /\ Keyed(v) /\ Signed(v) /\ v.key \notin Keys(ledger[n])
             /\ v.by = n /\ v.kind = "reversal"
             /\ \E r \in back : /\ v.key = <<"reversal", r.grant, r.by>> /\ v.grant = r.grant
                               /\ v.delta = -r.delta
  <2>1. PICK r \in back : v = Reversal(n, r)
    OBVIOUS
  <2>2. /\ v \in Rows /\ v.key = <<"reversal", r.grant, r.by>>
        /\ v.kind = "reversal" /\ v.grant = r.grant /\ v.by = n /\ v.delta = -r.delta
    BY <1>6, <2>1
  <2>3. r.by \in Node /\ r.delta \in Int /\ r.delta > 0
    BY <1>2 DEF Rows, Signed
  <2>4. v.delta < 0
    BY <2>2, <2>3
  <2> QED BY <1>2, <2>2, <2>3, <2>4 DEF Keyed, Signed
<1>8. \A v, w \in new : v.key = w.key => v = w
  <2> SUFFICES ASSUME NEW r \in back, NEW s \in back, Reversal(n, r).key = Reversal(n, s).key
               PROVE  r = s
    OBVIOUS
  <2>1. r.grant = s.grant
    BY <1>6
  <2>2. r.key = s.key
    BY <1>2, <2>1, SameKey
  <2> QED BY <1>1, <1>2, <2>2 DEF UniqueKeys
<1> HIDE DEF new
<1>9. /\ LedgerOK' /\ UniqueKeys' /\ OwnRows'
      /\ \A m \in Node : ledger[m] \subseteq ledger'[m]
      /\ ledger'[n] = ledger[n] \cup new /\ \A m \in Node : m # n => ledger'[m] = ledger[m]
  <2>1. new \subseteq Rows
    BY <1>7
  <2> QED BY <1>1, <1>3, <1>5, <1>7, <1>8, <2>1, Grow
<1>10. UnitsOK'
  <2>1. \A r \in back : r.delta \in Int
    BY <1>2 DEF Rows
  <2>2. LockTimeValue(n) \in Nat /\ Total(back) \in Int /\ (ledger[n] = {} => LockTimeValue(n) = 0)
    BY <1>1, <1>4, <2>1, Spendable, TotalInt
  <2>3. LockTimeValue(n) - Total(back) \in Nat
    BY <1>3, <2>2
  <2>4. ledger'[n] = {} => LockTimeValue(n) - Total(back) = 0
    <3> SUFFICES ASSUME ledger'[n] = {} PROVE LockTimeValue(n) - Total(back) = 0
      OBVIOUS
    <3>1. ledger[n] = {} /\ back = {}
      BY <1>2, <1>9
    <3>2. Total(back) = 0
      BY <3>1, TotalEmpty
    <3> QED BY <2>2, <3>1, <3>2
  <2> QED BY <1>1, <1>3, <1>9, <2>3, <2>4 DEF UnitsOK
<1>11. GrantsOK'
  <2>1. repairs' \in 0..MaxRepairs
    BY <1>1, <1>3, ValueAssumption DEF GrantsOK
  <2> QED BY <1>1, <1>3, <2>1 DEF GrantsOK
<1>12. ASSUME NEW v \in new PROVE Worth(v)'
  <2>1. PICK r \in back : v.key = <<"reversal", r.grant, r.by>> /\ v.grant = r.grant /\ v.delta = -r.delta
    BY <1>7
  <2>2. v.kind = "reversal" /\ r.by \in Node /\ r.delta \in Int /\ r.delta > 0 /\ v.grant # None
    BY <1>2, <1>7, <2>1, Constants DEF Rows, Signed
  <2>3. CASE r.grant = Old
    <3>1. v.delta = -OldReturn
      BY <1>2, <2>1, <2>3 DEF Worth
    <3> QED BY <2>1, <2>2, <2>3, <3>1, Constants DEF Worth
  <2>4. CASE r.grant \in Grant
    <3>1. r \in ledger'[r.by]
      BY <1>1, <1>2, <1>9, <2>2, <2>4 DEF OwnRows
    <3>2. v.key[3] = r.by
      BY <2>1
    <3>3. Reverses(v)'
      BY <1>2, <2>1, <3>1, <3>2 DEF Reverses
    <3>4. Started(n, r.grant)
      BY <1>1, <1>2, <2>4 DEF Bought
    <3>5. Taken(r.grant) \in Nat /\ Taken(r.grant)' = Taken(r.grant)
      BY <1>3, <2>4, <3>4, OneStart DEF Taken
    <3>6. v.delta <= Taken(r.grant)
      BY <2>1, <2>2, <3>5
    <3> QED BY <2>1, <2>2, <2>4, <3>3, <3>5, <3>6, Constants DEF Worth
  <2> QED BY <1>2, <2>3, <2>4
<1>13. Valued'
  BY <1>3, <1>9, <1>12, ValuedStays
<1>14. Bought'
  <2>1. ASSUME NEW v \in new, v.grant \in Grant PROVE rate[v.grant] > 0 /\ Started(n, v.grant)'
    <3>1. PICK r \in back : v.grant = r.grant
      BY <1>7
    <3>2. rate[r.grant] > 0 /\ Started(n, r.grant)
      BY <1>1, <1>2, <2>1, <3>1 DEF Bought
    <3> QED BY <1>9, <3>1, <3>2, StartedStays
  <2>2. \A m \in Node, g \in Grant : status'[m][g] # "none" => Started(m, g)'
    BY <1>1, <1>3, <1>9, StartedStays DEF Bought
  <2>3. \A m \in Node : \A r \in ledger'[m] \ ledger[m] : m = n /\ r \in new
    BY <1>9
  <2> QED BY <1>3, <1>9, <2>1, <2>2, <2>3, BoughtStays
<1>15. \A r \in back : \E v \in ledger'[n] : v.key = <<"reversal", r.grant, r.by>>
  BY <1>6, <1>9 DEF new
<1> QED BY <1>7, <1>9, <1>10, <1>11, <1>13, <1>14, <1>15 DEF Inv, back

\* A snapshot brings rows somebody wrote, and with each the start of its grant.
LEMMA SynchroniseKeeps ==
  ASSUME Inv, NEW n \in Node, Synchronise(n)
  PROVE  /\ Inv' /\ UNCHANGED repairs /\ \A m \in Node : ledger[m] \subseteq ledger'[m]
         /\ \A m \in Node : \A r \in ledger'[m] \ ledger[m] : \E k \in Node : r \in ledger[k]
<1> DEFINE m == Other(n)
           new == {r \in ledger[m] : r.key \notin Keys(ledger[n])}
<1>1. LedgerOK /\ UniqueKeys /\ UnitsOK /\ GrantsOK /\ OwnRows /\ Bought /\ Valued
  BY DEF Inv
<1>2. m \in Node
  BY Constants DEF Other, Node
<1>3. /\ status' = [status EXCEPT ![n] = [g \in Grant |-> MergeStatus(@[g], status[m][g])]]
      /\ ledger' = [ledger EXCEPT ![n] = @ \cup new]
      /\ units' = [units EXCEPT ![n] = IF @ = None THEN units[m] ELSE @]
      /\ UNCHANGED <<rate, secs, repairs>>
  BY DEF Synchronise, Import
<1> HIDE DEF m
<1>4. \A r \in new : /\ r \in ledger[m] /\ r \in Rows /\ r.key \notin Keys(ledger[n])
                       /\ Keyed(r) /\ Signed(r)
  BY <1>1, <1>2 DEF LedgerOK
<1>5. IsFiniteSet(new)
  <2>1. new \subseteq ledger[m] /\ IsFiniteSet(ledger[m])
    BY <1>1, <1>2 DEF LedgerOK
  <2> QED BY <2>1, FS_Subset
<1>6. /\ LedgerOK' /\ UniqueKeys' /\ OwnRows'
      /\ \A k \in Node : ledger[k] \subseteq ledger'[k]
      /\ ledger'[n] = ledger[n] \cup new /\ \A k \in Node : k # n => ledger'[k] = ledger[k]
  <2>1. new \subseteq Rows
    BY <1>4
  <2>2. \A r, s \in new : r.key = s.key => r = s
    BY <1>1, <1>2 DEF UniqueKeys
  <2>3. \A r \in new : r.grant \in Grant => r.by = n \/ r \in ledger[r.by]
    BY <1>1, <1>2, <1>4 DEF OwnRows
  <2> HIDE DEF new
  <2> QED BY <1>1, <1>3, <1>4, <1>5, <2>1, <2>2, <2>3, Grow
<1>7. UnitsOK'
  <2>1. units' \in [Node -> Nat \cup {None}]
    BY <1>1, <1>2, <1>3 DEF UnitsOK
  <2>2. ASSUME ledger'[n] = {} PROVE units'[n] \in {None, 0}
    <3>1. ledger[n] = {} /\ ledger[m] = {}
      BY <1>6, <2>2 DEF Keys
    <3> QED BY <1>1, <1>2, <1>3, <3>1 DEF UnitsOK
  <2>3. \A k \in Node : k # n => units'[k] = units[k]
    BY <1>1, <1>3 DEF UnitsOK
  <2> QED BY <1>1, <1>6, <2>1, <2>2, <2>3 DEF UnitsOK
<1>8. /\ \A g \in Grant : status'[n][g] = MergeStatus(status[n][g], status[m][g])
      /\ \A k \in Node : k # n => status'[k] = status[k]
  BY <1>1, <1>3 DEF GrantsOK
<1>9. GrantsOK'
  <2>1. \A g \in Grant : MergeStatus(status[n][g], status[m][g]) \in Status
    BY <1>1, <1>2 DEF GrantsOK, MergeStatus
  <2>2. status' \in [Node -> [Grant -> Status]]
    BY <1>1, <1>3, <2>1 DEF GrantsOK
  <2> QED BY <1>1, <1>3, <2>2 DEF GrantsOK
<1>10. Valued'
  BY <1>2, <1>3, <1>4, <1>6, ValuedStays
<1>11. ASSUME NEW g \in Grant, Started(m, g) PROVE Started(n, g)'
  <2>1. PICK r \in ledger[m] : r.kind = "session_start" /\ r.grant = g
    BY <1>11 DEF Started, Of
  <2>2. CASE r.key \in Keys(ledger[n])
    <3>1. PICK s \in ledger[n] : s.key = r.key
      BY <2>2 DEF Keys
    <3>2. s.kind = r.kind /\ s.grant = r.grant
      BY <1>1, <1>2, <3>1, SameKey DEF LedgerOK
    <3> QED BY <1>6, <2>1, <3>1, <3>2 DEF Started, Of
  <2>3. CASE r.key \notin Keys(ledger[n])
    BY <1>6, <2>1, <2>3 DEF Started, Of
  <2> QED BY <2>2, <2>3
<1>12. Bought'
  <2>1. ASSUME NEW k \in Node, NEW g \in Grant, status'[k][g] # "none" PROVE Started(k, g)'
    <3>1. CASE status[k][g] # "none"
      BY <1>1, <1>6, <3>1, StartedStays DEF Bought
    <3>2. CASE status[k][g] = "none"
      <4>1. k = n /\ status[m][g] # "none"
        BY <1>8, <2>1, <3>2 DEF MergeStatus
      <4> QED BY <1>1, <1>2, <1>11, <4>1 DEF Bought
    <3> QED BY <3>1, <3>2
  <2>2. ASSUME NEW k \in Node, NEW r \in ledger'[k] \ ledger[k], r.grant \in Grant
        PROVE  rate[r.grant] > 0 /\ Started(k, r.grant)'
    <3>1. k = n /\ r \in ledger[m]
      BY <1>6, <2>2
    <3>2. rate[r.grant] > 0 /\ Started(m, r.grant)
      BY <1>1, <1>2, <2>2, <3>1 DEF Bought
    <3> QED BY <1>11, <2>2, <3>1, <3>2
  <2> QED BY <1>3, <1>6, <2>1, <2>2, BoughtStays
<1> QED BY <1>2, <1>3, <1>4, <1>6, <1>7, <1>9, <1>10, <1>12 DEF Inv

LEMMA NextKeeps == Inv /\ [Next]_vars => Inv'
<1> SUFFICES ASSUME Inv, [Next]_vars PROVE Inv'
  OBVIOUS
<1>1. ASSUME NEW n \in Node, NEW g \in Grant, RedeemPlayerBalance(n, g) PROVE Inv'
  BY <1>1, RedeemKeeps
<1>2. ASSUME NEW n \in Node, NEW g \in Grant, FinishGrant(n, g) PROVE Inv'
  BY <1>2, FinishKeeps
<1>3. ASSUME NEW g \in Grant, RefundPlayerBalance(g) PROVE Inv'
  BY <1>3, RefundKeeps
<1>4. ASSUME NEW g \in Grant, ConfirmStart(g) PROVE Inv'
  BY <1>4, ConfirmKeeps
<1>5. ASSUME NEW n \in Node, RepairProjection(n) PROVE Inv'
  BY <1>5, ProjectionKeeps
<1>6. ASSUME NEW n \in Node, RepairLedger(n) PROVE Inv'
  BY <1>6, RepairKeeps
<1>7. ASSUME NEW n \in Node, Synchronise(n) PROVE Inv'
  BY <1>7, SynchroniseKeeps
<1>8. CASE UNCHANGED vars
  BY <1>8, StutterKeeps
<1> QED BY <1>1, <1>2, <1>3, <1>4, <1>5, <1>6, <1>7, <1>8 DEF Next, AdminRepair

\* The above holds in every state, whatever purchases, refunds, returns, repairs
\* and exchanges of the two nodes led to it.
THEOREM Invariant == Spec => []Inv
<1> QED BY InitInv, NextKeeps, PTL DEF Spec

-----------------------------------------------------------------------------
\* The keys of a ledger are as many as its rows: each row has its own.
LEMMA KeysCount ==
  ASSUME Inv, NEW n \in Node
  PROVE  Cardinality(Keys(ledger[n])) = Cardinality(ledger[n])
<1> DEFINE f == [r \in ledger[n] |-> r.key]
<1>1. f \in Surjection(ledger[n], Keys(ledger[n]))
  BY DEF Keys, Surjection
<1>2. f \in Injection(ledger[n], Keys(ledger[n]))
  <2>1. f \in [ledger[n] -> Keys(ledger[n])]
    BY DEF Keys
  <2>2. \A r, s \in ledger[n] : f[r] = f[s] => r = s
    BY DEF Inv, UniqueKeys
  <2> HIDE DEF f
  <2> QED BY <2>1, <2>2 DEF Injection, IsInjective
<1>3. f \in Bijection(ledger[n], Keys(ledger[n]))
  BY <1>1, <1>2 DEF Bijection
<1>4. ExistsBijection(ledger[n], Keys(ledger[n])) /\ IsFiniteSet(ledger[n])
  BY <1>3 DEF ExistsBijection, Inv, LedgerOK
<1> QED BY <1>4, FS_Bijection

LEMMA InvTypeOK == Inv => TypeOK
<1> SUFFICES ASSUME Inv PROVE TypeOK
  OBVIOUS
<1>1. ASSUME NEW n \in Node, NEW r \in ledger[n]
      PROVE  IsRow(r) /\ (r.kind \in {"session_start", "reversal"} <=> r.delta < 0)
  <2>1. r \in Rows /\ Keyed(r) /\ Signed(r)
    BY DEF Inv, LedgerOK
  <2> QED BY <2>1 DEF Rows, Keyed, Signed, IsRow, AnyGrant
<1>2. \A n \in Node : units[n] = None \/ units[n] \in Nat
  BY DEF Inv, UnitsOK
<1> QED BY <1>1, <1>2, KeysCount DEF TypeOK, Inv, GrantsOK

\* Every state is well typed: each row's key is its own and says what the row
\* is, debits and only they are negative, and no projection is (the unique
\* index and the CHECKs of the tables, which no sequence of purchases, returns,
\* repairs and imports runs into).
THEOREM TypeCorrect == Spec => []TypeOK
<1> QED BY Invariant, InvTypeOK, PTL

-----------------------------------------------------------------------------
\* What a ledger says of one grant adds up to nothing positive when each return
\* in it is the start's own, or taken back.
LEMMA InvNoProfit == Inv => NoProfit
<1> SUFFICES ASSUME Inv, NEW n \in Node, NEW g \in Grant, Of(n, "session_start", g) # {},
                    NEW kind \in {"session_start_refund", "session_remaining"}
             PROVE  Total(Of(n, "session_start", g) \cup Of(n, kind, g)) <= 0
  BY DEF NoProfit
<1> DEFINE D == Of(n, "session_start", g) \cup Of(n, kind, g)
<1>1. PICK r \in ledger[n] : /\ r.kind = "session_start" /\ r.grant = g /\ r.delta = -Taken(g)
                             /\ Of(n, "session_start", g) = {r} /\ Taken(g) \in Nat
  BY OneStart DEF Started
<1>2. D \subseteq ledger[n] /\ r \in D
  BY <1>1 DEF Of
<1>3. IsFiniteSet(D) /\ \A x \in D : x.delta \in Int
  <2>1. IsFiniteSet(ledger[n]) /\ \A x \in ledger[n] : x.delta \in Int
    BY DEF Inv, LedgerOK, Rows
  <2> QED BY <1>2, <2>1, FS_Subset
<1>4. CASE Of(n, kind, g) = {}
  <2>1. \A x \in D : x.delta \in Int /\ x.delta <= 0
    BY <1>1, <1>4
  <2> QED BY <1>3, <2>1, TotalSign
<1>5. CASE Of(n, kind, g) # {}
  <2>1. PICK s \in ledger[n] : s.kind = kind /\ s.grant = g
    BY <1>5 DEF Of
  <2>2. \A t \in Of(n, kind, g) : t = s
    <3> TAKE t \in Of(n, kind, g)
    <3>1. t \in ledger[n] /\ t.kind = kind /\ t.grant = g
      BY DEF Of
    <3>2. t.key = s.key
      BY <2>1, <3>1, SameKey DEF Inv, LedgerOK
    <3> QED BY <2>1, <3>1, <3>2 DEF Inv, UniqueKeys
  <2>3. D = {r, s} /\ r # s
    BY <1>1, <2>1, <2>2 DEF Of
  <2>4. s.delta <= Taken(g) /\ s.delta \in Int
    BY <1>3, <2>1, <2>3 DEF Inv, Valued, Worth
  <2>5. r.delta + s.delta <= 0
    BY <1>1, <2>4
  <2>6. \A x \in D \ {r, s} : x.delta <= 0
    BY <2>3
  <2>7. s \in D
    BY <2>3
  <2> HIDE DEF D
  <2> QED BY <1>2, <1>3, <2>3, <2>5, <2>6, <2>7, TotalPair DEF D
<1> QED BY <1>4, <1>5

\* NoProfit is an invariant, for every set of grants and prices: neither the
\* refund of a purchase nor the return of its unused time is more than its
\* start took, whatever the zone's price became, on either node.
THEOREM NoProfitHolds == Spec => []NoProfit
<1> QED BY Invariant, InvNoProfit, PTL

-----------------------------------------------------------------------------
\* A ledger whose refunded grants have their returns reversed is clean.
Settled(n) ==
  \A r \in ledger[n] :
    /\ r.kind = "session_remaining"
    /\ r.grant = Old \/ (r.grant \in Grant /\ Of(n, "session_start_refund", r.grant) # {})
    => \E v \in ledger[n] : v.key = <<"reversal", r.grant, r.by>>
Clean(n) == \A g \in Grant \cup {Old} : Total({r \in ledger[n] : r.grant = g}) <= 0

LEMMA CleanGrant ==
  ASSUME Inv, NEW n \in Node, NEW g \in Grant \cup {Old}, Settled(n)
  PROVE  Total({r \in ledger[n] : r.grant = g}) <= 0
<1> DEFINE D == {r \in ledger[n] : r.grant = g}
<1>1. /\ IsFiniteSet(D) /\ \A x \in D : x.delta \in Int
      /\ \A x \in D : /\ x \in ledger[n] /\ x.grant = g /\ x.kind \in Kind
                      /\ x.by \in Node /\ x \in Rows /\ Keyed(x) /\ Signed(x) /\ Worth(x)
  <2>1. IsFiniteSet(ledger[n]) /\ D \subseteq ledger[n]
    BY DEF Inv, LedgerOK
  <2>2. IsFiniteSet(D)
    BY <2>1, FS_Subset
  <2>3. ASSUME NEW x \in D
        PROVE  /\ x \in ledger[n] /\ x.grant = g /\ x.kind \in Kind /\ x.delta \in Int
               /\ x.by \in Node /\ x \in Rows /\ Keyed(x) /\ Signed(x) /\ Worth(x)
    BY DEF Inv, LedgerOK, Rows, Valued
  <2> HIDE DEF D
  <2> QED BY <2>2, <2>3
<1>2. \A x, y \in D : x.kind = y.kind /\ x.kind # "reversal" => x = y
  <2> SUFFICES ASSUME NEW x \in D, NEW y \in D, x.kind = y.kind, x.kind # "reversal" PROVE x = y
    OBVIOUS
  <2>1. x.key = y.key
    BY <1>1, SameKey
  <2> QED BY <1>1, <2>1 DEF Inv, UniqueKeys
<1>3. \A x \in D : x.kind \notin {"session_start_refund", "session_remaining"} => x.delta <= 0
  BY <1>1 DEF Kind, Signed
\* A return that is taken back is cancelled by its reversal.
<1>4. ASSUME NEW s \in D, s.kind = "session_remaining",
             g = Old \/ Of(n, "session_start_refund", g) # {}
      PROVE  \E v \in D : v.kind = "reversal" /\ v.delta + s.delta = 0
  <2>1. PICK v \in ledger[n] : v.key = <<"reversal", g, s.by>>
    BY <1>1, <1>4 DEF Settled
  <2>2. v \in Rows /\ Keyed(v) /\ Worth(v)
    BY DEF Inv, LedgerOK, Valued
  <2>3. v.kind = "reversal" /\ v.grant = g
    <3>1. v.key[1] = v.kind /\ v.key[2] = v.grant
      BY <2>2 DEF Keyed
    <3> QED BY <2>1, <3>1
  <2>4. CASE g = Old
    <3>1. v.delta = -OldReturn /\ s.delta = OldReturn
      BY <1>1, <1>4, <2>2, <2>3, <2>4 DEF Worth
    <3> QED BY <2>3, <3>1, ValueAssumption
  <2>5. CASE g \in Grant
    <3>1. PICK t \in ledger[s.by] :
            t.kind = "session_remaining" /\ t.grant = g /\ v.delta = -t.delta
      BY <2>1, <2>2, <2>3, <2>5 DEF Worth, Reverses
    <3>2. s \in ledger[s.by]
      BY <1>1, <2>5 DEF Inv, OwnRows
    <3>3. t.key = s.key
      BY <1>1, <1>4, <3>1, SameKey DEF Inv, LedgerOK
    <3>4. t = s
      BY <1>1, <3>1, <3>2, <3>3 DEF Inv, UniqueKeys
    <3> QED BY <1>1, <2>3, <3>1, <3>4
  <2> QED BY <2>4, <2>5
\* A return or refund of a purchase is at most what the start took.
<1>5. ASSUME NEW s \in D, g \in Grant
      PROVE  \E r \in D : r.kind = "session_start" /\ r.delta + s.delta <= 0
  <2>1. Started(n, g)
    BY <1>1, <1>5 DEF Inv, Bought
  <2>2. PICK r \in ledger[n] : r.kind = "session_start" /\ r.grant = g /\ r.delta = -Taken(g)
    BY <1>5, <2>1, OneStart
  <2>3. Taken(g) \in Nat
    BY <1>5, <2>1, OneStart
  <2>4. s.delta <= Taken(g) /\ s.delta \in Int
    BY <1>1, <1>5 DEF Worth
  <2> QED BY <2>2, <2>3, <2>4
<1>6. g = Old => \A x \in D : x.kind # "session_start_refund"
  BY <1>1 DEF Worth
<1>7. (\E x \in D : x.kind = "session_start_refund") => Of(n, "session_start_refund", g) # {}
  BY <1>1 DEF Of
<1> HIDE DEF D
<1> SUFFICES Total(D) <= 0
  BY DEF D
<1>8. CASE \A x \in D : x.delta <= 0
  BY <1>1, <1>8, TotalSign
<1>9. ASSUME NEW s \in D, s.kind = "session_remaining", \A x \in D : x.kind # "session_start_refund"
      PROVE  Total(D) <= 0
  <2>1. PICK r \in D : r # s /\ r.delta + s.delta <= 0
    BY <1>1, <1>4, <1>5, <1>9
  <2>2. \A x \in D \ {r, s} : x.delta <= 0
    BY <1>2, <1>3, <1>9
  <2> QED BY <1>1, <1>9, <2>1, <2>2, TotalPair
<1>10. ASSUME NEW s \in D, s.kind = "session_start_refund", \A x \in D : x.kind # "session_remaining"
       PROVE  Total(D) <= 0
  <2>1. PICK r \in D : r # s /\ r.delta + s.delta <= 0
    BY <1>5, <1>6, <1>10
  <2>2. \A x \in D \ {r, s} : x.delta <= 0
    BY <1>2, <1>3, <1>10
  <2> QED BY <1>1, <1>10, <2>1, <2>2, TotalPair
<1>11. ASSUME NEW s \in D, s.kind = "session_remaining", NEW t \in D, t.kind = "session_start_refund"
       PROVE  Total(D) <= 0
  <2>1. PICK v \in D : v.kind = "reversal" /\ v.delta + s.delta = 0
    BY <1>4, <1>7, <1>11
  <2>2. PICK r \in D : r.kind = "session_start" /\ r.delta + t.delta <= 0
    BY <1>5, <1>6, <1>11
  <2>3. s.delta + v.delta <= 0 /\ s # v
    BY <1>1, <1>11, <2>1
  <2>4. t.delta + r.delta <= 0 /\ t # r /\ t \notin {s, v} /\ r \notin {s, v}
    BY <1>1, <1>11, <2>1, <2>2
  <2>5. \A x \in D \ {s, v, t, r} : x.delta <= 0
    BY <1>2, <1>3, <1>11
  <2> QED BY <1>1, <1>11, <2>1, <2>2, <2>3, <2>4, <2>5, TotalPairs
<1> QED BY <1>3, <1>8, <1>9, <1>10, <1>11

LEMMA SettledIsClean == Inv => \A n \in Node : Settled(n) => Clean(n)
BY CleanGrant DEF Clean

LEMMA SettledIsCleanNext == Inv' => (\A n \in Node : Settled(n) => Clean(n))'
BY SettledIsClean, PTL

\* The repair leaves a settled ledger: what was not reversed yet is now.
LEMMA RepairSettles == ASSUME Inv, NEW n \in Node, RepairLedger(n) PROVE Settled(n)'
<1>1. /\ ledger[n] \subseteq ledger'[n]
      /\ \A r \in ledger'[n] \ ledger[n] : r.kind = "reversal"
      /\ \A r \in Impossible(n) : \E v \in ledger'[n] : v.key = <<"reversal", r.grant, r.by>>
  BY RepairKeeps
<1> SUFFICES ASSUME NEW r \in ledger'[n], r.kind = "session_remaining",
                    r.grant = Old \/ (r.grant \in Grant /\ Of(n, "session_start_refund", r.grant)' # {})
             PROVE  \E v \in ledger'[n] : v.key = <<"reversal", r.grant, r.by>>
  BY DEF Settled
<1>2. r \in ledger[n]
  BY <1>1
<1>3. Of(n, "session_start_refund", r.grant)' # {} => Of(n, "session_start_refund", r.grant) # {}
  BY <1>1 DEF Of
<1>4. CASE Reversed(n, r)
  BY <1>1, <1>4 DEF Reversed, Keys
<1>5. CASE ~ Reversed(n, r)
  <2>1. r \in Impossible(n)
    BY <1>2, <1>3, <1>5 DEF Impossible
  <2> QED BY <1>1, <2>1
<1> QED BY <1>4, <1>5

\* What RepairIsClean and SpendsOnlyLedger say of one step.
CleanStep ==
  \A n \in Node : repairs' > repairs /\ (\E r \in ledger'[n] \ ledger[n] : r.by = n) => Clean(n)'
SpendStep ==
  \A n \in Node : \A r \in ledger'[n] \ ledger[n] :
    r.by = n /\ r.kind = "session_start" => Total(ledger'[n]) >= 0

LEMMA StepIsClean == Inv /\ Inv' /\ [Next]_vars => CleanStep
<1> SUFFICES ASSUME Inv, Inv', [Next]_vars, NEW n \in Node, repairs' > repairs,
                    NEW r \in ledger'[n] \ ledger[n]
             PROVE  Clean(n)'
  BY DEF CleanStep
<1>1. repairs \in Nat /\ repairs' # repairs
  BY ValueAssumption DEF Inv, GrantsOK
<1>2. PICK m \in Node : RepairLedger(m)
  <2>1. ASSUME NEW k \in Node, NEW g \in Grant, RedeemPlayerBalance(k, g) \/ FinishGrant(k, g) PROVE FALSE
    BY <1>1, <2>1 DEF RedeemPlayerBalance, FinishGrant
  <2>2. ASSUME NEW g \in Grant, RefundPlayerBalance(g) \/ ConfirmStart(g) PROVE FALSE
    BY <1>1, <2>2 DEF RefundPlayerBalance, ConfirmStart
  <2>3. ASSUME NEW k \in Node, RepairProjection(k) \/ Synchronise(k) PROVE FALSE
    BY <1>1, <2>3 DEF RepairProjection, Synchronise
  <2>4. CASE UNCHANGED vars
    BY <1>1, <2>4 DEF vars
  <2> QED BY <2>1, <2>2, <2>3, <2>4 DEF Next, AdminRepair
<1>3. m = n
  BY <1>2, RepairKeeps
<1>4. Settled(n)'
  BY <1>2, <1>3, RepairSettles
<1> QED BY <1>4, SettledIsCleanNext

LEMMA StepSpends == Inv /\ [Next]_vars => SpendStep
<1> SUFFICES ASSUME Inv, [Next]_vars, NEW n \in Node, NEW r \in ledger'[n] \ ledger[n],
                    r.by = n, r.kind = "session_start"
             PROVE  Total(ledger'[n]) >= 0
  BY DEF SpendStep
<1>1. ASSUME NEW k \in Node, NEW g \in Grant, RedeemPlayerBalance(k, g) PROVE Total(ledger'[n]) >= 0
  BY <1>1, RedeemKeeps
<1>2. ASSUME NEW k \in Node, NEW g \in Grant, FinishGrant(k, g) PROVE FALSE
  BY <1>2, FinishKeeps
<1>3. ASSUME NEW g \in Grant, RefundPlayerBalance(g) PROVE FALSE
  BY <1>3, RefundKeeps
<1>4. ASSUME NEW g \in Grant, ConfirmStart(g) PROVE FALSE
  BY <1>4, ConfirmKeeps
<1>5. ASSUME NEW k \in Node, RepairProjection(k) PROVE FALSE
  BY <1>5, ProjectionKeeps
<1>6. ASSUME NEW k \in Node, RepairLedger(k) PROVE FALSE
  BY <1>6, RepairKeeps
\* A start that is imported was written elsewhere: the node's own are all there.
<1>7. ASSUME NEW k \in Node, Synchronise(k) PROVE FALSE
  <2>1. PICK j \in Node : r \in ledger[j]
    BY <1>7, SynchroniseKeeps
  <2>2. r.grant \in AnyGrant /\ Worth(r)
    BY <2>1 DEF Inv, LedgerOK, Rows, Valued
  <2>3. r.grant \in Grant
    BY <2>2 DEF AnyGrant, Worth
  <2>4. r \in ledger[n]
    BY <2>1, <2>3 DEF Inv, OwnRows
  <2> QED BY <2>4
<1>8. CASE UNCHANGED vars
  BY <1>8, StutterKeeps
<1> QED BY <1>1, <1>2, <1>3, <1>4, <1>5, <1>6, <1>7, <1>8 DEF Next, AdminRepair

\* RepairIsClean holds of every step: a node that made the integrity repair is
\* left with no grant that gave back more than it took, for all grants, also
\* those that were refunded by their handler and started by the edge loop, and
\* whatever the other node had returned, reversed or told it before.
THEOREM RepairCleans == Spec => RepairIsClean
<1>1. Inv /\ Inv' /\ [Next]_vars => CleanStep
  BY StepIsClean
<1>2. CleanStep => (\A n \in Node : repairs' > repairs /\ (\E r \in ledger'[n] \ ledger[n] : r.by = n) =>
                       \A g \in Grant \cup {Old} : Total({r \in ledger'[n] : r.grant = g}) <= 0)
  BY DEF CleanStep, Clean
<1> QED BY Invariant, <1>1, <1>2, PTL DEF Spec, RepairIsClean

\* SpendsOnlyLedger holds of every step: what a purchase takes is covered by the
\* rows of the node, however stale its projection is.
THEOREM SpendingIsCovered == Spec => SpendsOnlyLedger
<1>1. Inv /\ [Next]_vars => SpendStep
  BY StepSpends
<1> QED BY Invariant, <1>1, PTL DEF Spec, SpendsOnlyLedger, SpendStep
=============================================================================
