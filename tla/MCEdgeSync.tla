----------------------------- MODULE MCEdgeSync -----------------------------
(* What may happen together in one behaviour of EdgeSync: the local nodes, *)
(* the new ones among them, where the Agent is, and how many changes.      *)
EXTENDS EdgeSync, TLC

Mix(has, new, at, some) ==
  [nodes |-> has, new |-> new, at |-> at, changes |-> some @@ [k \in Kind |-> 0]]

\* A session that starts at the Manager, and an Agent that goes back.
Failover == Mix(Local, {}, Manager, "pay" :> 1 @@ "lease" :> 1 @@ "stop" :> 1)

\* A payment callback that is repeated, with faults or at a Manager.
Repeated == Mix({Primary}, {}, Primary, "pay" :> 2 @@ "stop" :> 1 @@ "lose" :> 1 @@ "fail" :> 1)
RepeatedAway == Mix(Local, {}, Manager, "pay" :> 2 @@ "stop" :> 1)

\* A booking that is moved or cancelled, claimed by a session, used up by its end.
Booked == Mix({Primary}, {}, Primary, "pay" :> 1 @@ "book" :> 2 @@ "hour" :> 1)
UsedUp == Mix({Primary}, {}, Primary, "pay" :> 1 @@ "book" :> 1 @@ "hour" :> 2 @@ "stop" :> 1)
Overdue == Mix(Local, {}, Manager, "book" :> 2 @@ "lease" :> 1 @@ "hour" :> 3)

\* New nodes, an edited catalogue, rounds that fail and events that get lost.
NewNodes == Mix(Local, Local, Primary, "edit" :> 2 @@ "fail" :> 1)
NewPrimary == Mix({Primary}, {Primary}, Primary,
                  "pay" :> 1 @@ "edit" :> 1 @@ "stop" :> 1 @@ "fail" :> 1 @@ "lose" :> 1)

AllMixes == {Failover, Repeated, RepeatedAway, Booked, UsedUp, Overdue, NewNodes, NewPrimary}
=============================================================================
