---------------------------- MODULE Controllers ----------------------------
(***************************************************************************)
(* Which Controller speaks for a PC, as the Cloud sees it.  The Agent of   *)
(* the PC holds one WebSocket at a time, to the primary or to a Manager;   *)
(* the node that has it relays the Agent's events (a goroutine per event)  *)
(* and the Cloud keeps a lease for the exact connection.  Requests of the  *)
(* dashboard are queued at the Cloud for the node that holds the lease,    *)
(* and each node fetches, executes and completes its own in every round.   *)
(***************************************************************************)
EXTENDS Naturals, Sequences, FiniteSets

CONSTANTS Primary, Manager, None,
          MaxConns,      \* bound on the connections of the Agent
          MaxCommands,   \* bound on the queued commands
          MaxInFlight,   \* bound on the relayed heartbeats under way
          MaxFaults      \* bound on losses, expiries, crashes and time-outs

ASSUME NodesAssumption == Cardinality({Primary, Manager, None}) = 3
ASSUME BoundsAssumption ==
  MaxConns \in Nat /\ MaxCommands \in Nat /\ MaxInFlight \in Nat /\ MaxFaults \in Nat

Node == {Primary, Manager}
Command == 1..MaxCommands
Desired == {"available", "blocked"}        \* edge_pc_commands.desired_status

VARIABLES
  at, conn,      \* the node the Agent is connected to, the number of connections so far
  pc,            \* the state of the PC, as the Agent knows it
  events,        \* relayed events on the way to the Cloud
  lease,         \* controller_agent_leases
  view,          \* pc_refs.status_cache at the Cloud
  queue,         \* edge_pc_commands, by created_at
  todo,          \* the commands a node has fetched and not finished, by created_at as well
  completions,   \* completion requests on the way
  ranBy,         \* observer: the nodes that executed a command on the Agent
  disturbed,     \* observer: the newest connection has lost its lease or its agent_online
  faults

agentVars == <<at, conn, pc>>
leaseVars == <<events, lease, view, disturbed>>
queueVars == <<queue, todo, completions, ranBy>>
vars == <<agentVars, leaseVars, queueVars, faults>>

Event == [type : {"agent_online", "status", "offline"}, node : Node, conn : 1..MaxConns,
          status : Desired \cup {"offline"}]

TypeOK ==
  /\ at \in Node \cup {None} /\ conn \in 0..MaxConns /\ pc \in Desired
  /\ events \subseteq Event
  /\ lease \in [node : Node \cup {None}, conn : 0..MaxConns, live : BOOLEAN]
  /\ view \in Desired \cup {"offline"}
  /\ queue \in Seq([want : Desired, target : Node, state : {"pending", "succeeded", "failed"}])
  /\ Len(queue) <= MaxCommands
  /\ todo \in [Node -> SUBSET Command]
  /\ completions \subseteq [id : Command, from : Node, success : BOOLEAN, awaited : BOOLEAN]
  /\ ranBy \in [Command -> SUBSET Node]
  /\ disturbed \in BOOLEAN
  /\ faults \in 0..MaxFaults

Init ==
  /\ at = None /\ conn = 0 /\ pc = "available"
  /\ events = {}
  /\ lease = [node |-> None, conn |-> 0, live |-> FALSE]
  /\ view = "offline"
  /\ queue = <<>>
  /\ todo = [n \in Node |-> {}]
  /\ completions = {}
  /\ ranBy = [c \in Command |-> {}]
  /\ disturbed = FALSE
  /\ faults = 0

Fault == faults < MaxFaults /\ faults' = faults + 1

-----------------------------------------------------------------------------
(***************************************************************************)
(* The Agent's connections and their events.                               *)
(***************************************************************************)
Connect(n) ==
  /\ at = None /\ conn < MaxConns
  /\ at' = n
  /\ conn' = conn + 1
  /\ events' = events \cup {[type |-> "agent_online", node |-> n, conn |-> conn', status |-> pc]}
  /\ disturbed' = FALSE
  /\ UNCHANGED <<pc, lease, view, queueVars, faults>>

\* Only a Manager relays the loss of the connection, as pc_status_changed; the
\* hub makes that event itself and puts no connection id in it.
Disconnect ==
  /\ at # None
  /\ at' = None
  /\ events' = IF at = Manager
                 THEN events \cup {[type |-> "offline", node |-> at, conn |-> conn, status |-> "offline"]}
                 ELSE events
  /\ UNCHANGED <<conn, pc, lease, view, disturbed, queueVars, faults>>

Heartbeat ==
  /\ at # None
  /\ Cardinality(events) < MaxInFlight
  /\ events' = events \cup {[type |-> "status", node |-> at, conn |-> conn, status |-> pc]}
  /\ UNCHANGED <<agentVars, lease, view, disturbed, queueVars, faults>>

Holds(e) == lease.live /\ lease.node = e.node /\ lease.conn = e.conn

Current(e) == [node |-> e.node, conn |-> e.conn, live |-> TRUE]

\* Mutant: a takeover waits for the lease to run out.
AcceptWhenFree(e) ==
  IF e.type = "agent_online" /\ ~lease.live THEN TRUE ELSE e.type = "offline" \/ Holds(e)

(***************************************************************************)
(* acceptControllerAgentEvent: agent_online takes the lease in any case,   *)
(* an event without a connection id is accepted, every other one must come *)
(* from the connection that holds the lease, and renews it.                *)
(***************************************************************************)
Accept(e) == e.type \in {"agent_online", "offline"} \/ Holds(e)

\* handleEdgeEvents, of one relayed event; they arrive in any order.
Arrive(e) ==
  /\ e \in events
  /\ events' = events \ {e}
  /\ lease' = IF Accept(e) /\ e.type # "offline" THEN Current(e) ELSE lease
  /\ view' = IF Accept(e) THEN e.status ELSE view
  /\ disturbed' = (disturbed \/ lease'.conn < lease.conn)
  /\ UNCHANGED <<agentVars, queueVars, faults>>

Lose(e) ==
  /\ Fault
  /\ e \in events
  /\ events' = events \ {e}
  /\ disturbed' = (disturbed \/ (e.type = "agent_online" /\ e.conn = conn))
  /\ UNCHANGED <<agentVars, lease, view, queueVars>>

\* No event for controllerAgentLeaseTTL, 75 seconds.
LeaseExpires ==
  /\ Fault
  /\ lease.live
  /\ lease' = [lease EXCEPT !.live = FALSE]
  /\ disturbed' = TRUE
  /\ UNCHANGED <<agentVars, events, view, queueVars>>

-----------------------------------------------------------------------------
(***************************************************************************)
(* Commands.  heard are the nodes seen within controllerNodeHealthTTL: a   *)
(* node that is down may have been seen, one that is up may not.           *)
(***************************************************************************)
ActiveControllerNodeForPC(heard) ==
  IF lease.live THEN lease.node
  ELSE IF Primary \in heard THEN Primary
  ELSE IF Manager \in heard THEN Manager
  ELSE None

Pending(c) == queue[c].state = "pending"

\* Mutant: every node sees every pending command.
FetchAll(n) ==
  /\ todo[n] = {}
  /\ todo' = [todo EXCEPT ![n] = {c \in DOMAIN queue : Pending(c)}]
  /\ UNCHANGED <<queue, completions, ranBy, agentVars, leaseVars, faults>>

\* A second request for what is already pending joins it.
Enqueue(want) ==
  /\ \E heard \in SUBSET Node :
       LET target == ActiveControllerNodeForPC(heard)
       IN /\ target # None
          /\ ~\E c \in DOMAIN queue : Pending(c) /\ queue[c].want = want
          /\ Len(queue) < MaxCommands
          /\ queue' = Append(queue, [want |-> want, target |-> target, state |-> "pending"])
  /\ UNCHANGED <<todo, completions, ranBy, agentVars, leaseVars, faults>>

\* processPendingEdgePCCommands: the pending commands of this node ...
Fetch(n) ==
  /\ todo[n] = {}
  /\ LET mine == {c \in DOMAIN queue : Pending(c) /\ queue[c].target = n}
     IN mine # {} /\ todo' = [todo EXCEPT ![n] = mine]
  /\ UNCHANGED <<queue, completions, ranBy, agentVars, leaseVars, faults>>

Awaiting(n) == {m \in completions : m.from = n /\ m.awaited}

Post(n, c, success) ==
  completions' = completions \cup {[id |-> c, from |-> n, success |-> success, awaited |-> TRUE]}

\* ... each, from the oldest on, is sent to the Agent, and its outcome is posted.
\* A time-out leaves open whether the Agent has executed it; without a
\* connection it fails.
Execute(n) ==
  /\ Awaiting(n) = {}
  /\ \E c \in todo[n], ran \in (IF at = n THEN BOOLEAN ELSE {FALSE}), confirmed \in BOOLEAN :
       /\ \A d \in todo[n] : c <= d
       /\ confirmed => ran
       /\ Post(n, c, confirmed)
       /\ pc' = IF ran THEN queue[c].want ELSE pc
       /\ ranBy' = IF ran THEN [ranBy EXCEPT ![c] = @ \cup {n}] ELSE ranBy
  /\ UNCHANGED <<queue, todo, at, conn, leaseVars, faults>>

Done(m) == todo' = [todo EXCEPT ![m.from] = @ \ {m.id}]

\* Mutant: the result of a command is written whatever it is.
CompleteAgain(m) ==
  /\ m \in completions
  /\ completions' = completions \ {m}
  /\ queue' = [queue EXCEPT ![m.id].state = IF m.success THEN "succeeded" ELSE "failed"]
  /\ IF m.awaited THEN Done(m) ELSE UNCHANGED todo
  /\ UNCHANGED <<ranBy, agentVars, leaseVars, faults>>

\* handleEdgePCCommandComplete; the node that still waits goes on.
Complete(m) ==
  /\ m \in completions
  /\ completions' = completions \ {m}
  /\ queue' = IF Pending(m.id) /\ queue[m.id].target = m.from
                THEN [queue EXCEPT ![m.id].state = IF m.success THEN "succeeded" ELSE "failed"]
                ELSE queue
  /\ IF m.awaited THEN Done(m) ELSE UNCHANGED todo
  /\ UNCHANGED <<ranBy, agentVars, leaseVars, faults>>

Abandoned(n) ==
  (completions \ Awaiting(n)) \cup {[m EXCEPT !.awaited = FALSE] : m \in Awaiting(n)}

\* The node gives up waiting; the request arrives later or never.
CompletionTimesOut(n) ==
  /\ Fault
  /\ \E m \in Awaiting(n) : Done(m)
  /\ completions' \in {completions \ Awaiting(n), Abandoned(n)}
  /\ UNCHANGED <<queue, ranBy, agentVars, leaseVars>>

\* A Controller restarts; its Agent connection and its round are gone.
Restart(n) ==
  /\ Fault
  /\ todo' = [todo EXCEPT ![n] = {}]
  /\ completions' = Abandoned(n)
  /\ at' = IF at = n THEN None ELSE at
  /\ UNCHANGED <<conn, pc, leaseVars, queue, ranBy>>

Next ==
  \/ \E n \in Node : Connect(n) \/ Fetch(n) \/ Execute(n)
  \/ Disconnect \/ Heartbeat
  \/ \E e \in events : Arrive(e)
  \/ \E want \in Desired : Enqueue(want)
  \/ \E m \in completions : Complete(m)
  \/ \E e \in events : Lose(e)
  \/ LeaseExpires
  \/ \E n \in Node : CompletionTimesOut(n) \/ Restart(n)

(***************************************************************************)
(* Fairness.  Events and completions that are not lost arrive, the Agent   *)
(* sends a heartbeat every few seconds, every node runs its rounds (a      *)
(* restarted Controller comes back).                                       *)
(***************************************************************************)
Fairness ==
  /\ WF_vars(\E e \in events : e.type = "agent_online" /\ Arrive(e))
  /\ WF_vars(\E e \in events : e.type = "status" /\ Arrive(e))
  /\ WF_vars(\E e \in events : e.type = "offline" /\ Arrive(e))
  /\ WF_vars(Heartbeat)
  /\ \A n \in Node : WF_vars(Fetch(n)) /\ WF_vars(Execute(n))
  /\ WF_vars(\E m \in completions : Complete(m))

Spec == Init /\ [][Next]_vars /\ Fairness

-----------------------------------------------------------------------------
(***************************************************************************)
(* "A Cloud command is delivered to one Controller only": two Controllers  *)
(* never execute the same command, however the lease has moved meanwhile.  *)
(***************************************************************************)
OneExecutor == \A c \in Command : Cardinality(ranBy[c]) <= 1

(***************************************************************************)
(* The lease follows the Agent: once its connection stays, and neither its *)
(* agent_online was lost or followed by an older one nor its lease ran     *)
(* out, the Cloud ends up knowing where the PC is and what state it is in. *)
(***************************************************************************)
LeaseFollowsAgent ==
  <>[](at # None /\ ~disturbed) =>
     <>[](lease = [node |-> at, conn |-> conn, live |-> TRUE] /\ view = pc)

(***************************************************************************)
(* The queue keeps its promise, answers included.                          *)
(***************************************************************************)
Queue == INSTANCE CommandQueue WITH
  Command <- Command,
  state <- [c \in Command |-> IF c \in DOMAIN queue THEN queue[c].state ELSE "none"],
  ran <- {c \in Command : ranBy[c] # {}}

QueueIsKept == Queue!Spec
=============================================================================
