------------------------- MODULE Controllers_proofs -------------------------
(***************************************************************************)
(* For every number of connections, commands and faults: a command is      *)
(* executed by one Controller only, and the queue does what CommandQueue   *)
(* says.  The inductive invariant is about the target of a command, which  *)
(* is written once: whatever a node has fetched is addressed to it, so     *)
(* whatever was executed, was executed there, and a completion that        *)
(* reports success is about a command that ran.  The second part is about  *)
(* AgentHub, the sockets of one Controller.                                *)
(***************************************************************************)
EXTENDS Controllers, AgentHub, TLAPS, SequenceTheorems, FiniteSetTheorems

Entry == [want : Desired, target : Node, state : {"pending", "succeeded", "failed"}]

Completion == [id : Command, from : Node, success : BOOLEAN, awaited : BOOLEAN]

\* The connection's part.
AgentOK ==
  /\ at \in Node \cup {None} /\ conn \in 0..MaxConns /\ pc \in Desired
  /\ at # None => conn \in 1..MaxConns
LeaseOK ==
  /\ lease \in [node : Node \cup {None}, conn : 0..MaxConns, live : BOOLEAN]
  /\ view \in Desired \cup {"offline"}
RestOK == disturbed \in BOOLEAN /\ faults \in 0..MaxFaults
Connection == AgentOK /\ events \subseteq Event /\ LeaseOK /\ RestOK

\* The commands' part.
QueueOK == queue \in Seq(Entry) /\ Len(queue) <= MaxCommands
TodoOK ==
  /\ todo \in [Node -> SUBSET Command]
  /\ \A n \in Node : \A c \in todo[n] : c \in DOMAIN queue /\ queue[c].target = n
CompletionsOK ==
  /\ completions \subseteq Completion
  /\ \A m \in completions : m.id \in DOMAIN queue /\ (m.success => ranBy[m.id] # {})
RanOK ==
  /\ ranBy \in [Command -> SUBSET Node]
  /\ \A c \in Command : ranBy[c] # {} => c \in DOMAIN queue /\ ranBy[c] = {queue[c].target}
Commands == QueueOK /\ TodoOK /\ CompletionsOK /\ RanOK

Inv == Connection /\ Commands

USE DEF Node, Command

LEMMA DomainOfQueue ==
  ASSUME QueueOK
  PROVE  DOMAIN queue = 1..Len(queue) /\ Len(queue) \in Nat /\ DOMAIN queue \subseteq Command
         /\ \A c \in DOMAIN queue : queue[c] \in Entry
<1>1. DOMAIN queue = 1..Len(queue) /\ Len(queue) \in Nat /\ queue \in [1..Len(queue) -> Entry]
  BY LenProperties DEF QueueOK
<1> QED BY <1>1, BoundsAssumption DEF QueueOK

LEMMA FaultKeeps == ASSUME Fault, faults \in 0..MaxFaults PROVE faults' \in 0..MaxFaults
BY BoundsAssumption DEF Fault

-----------------------------------------------------------------------------
LEMMA InitInv == ASSUME Init PROVE Inv
<1>0. disturbed \in BOOLEAN /\ events \subseteq Event
  BY DEF Init
<1>1. AgentOK /\ events \subseteq Event /\ RestOK
  BY <1>0, BoundsAssumption DEF Init, AgentOK, RestOK, Desired
<1>2. LeaseOK
  BY BoundsAssumption DEF Init, LeaseOK
<1>3. queue = << >> /\ Len(queue) = 0 /\ QueueOK
  BY BoundsAssumption, EmptySeq DEF Init, QueueOK
<1>4. TodoOK /\ CompletionsOK /\ RanOK
  BY DEF Init, TodoOK, CompletionsOK, RanOK
<1> QED BY <1>1, <1>2, <1>3, <1>4 DEF Inv, Connection, Commands

LEMMA CommandsStay == ASSUME Commands, UNCHANGED queueVars PROVE Commands'
<1>1. UNCHANGED <<queue, todo, completions, ranBy>>
  BY DEF queueVars
<1> QED BY <1>1 DEF Commands, QueueOK, TodoOK, CompletionsOK, RanOK

LEMMA ConnectionStays ==
  ASSUME Connection, UNCHANGED <<agentVars, leaseVars, faults>> PROVE Connection'
<1>1. UNCHANGED <<at, conn, pc, events, lease, view, disturbed, faults>>
  BY DEF agentVars, leaseVars
<1> QED BY <1>1 DEF Connection, AgentOK, LeaseOK, RestOK

-----------------------------------------------------------------------------
LEMMA ConnectKeeps == ASSUME Inv, NEW n \in Node, Connect(n) PROVE Inv'
<1>1. /\ UNCHANGED <<pc, lease, view, faults>> /\ UNCHANGED queueVars
      /\ at' = n /\ conn' = conn + 1 /\ conn < MaxConns /\ disturbed' = FALSE
      /\ events' = events \cup {[type |-> "agent_online", node |-> n, conn |-> conn', status |-> pc]}
  BY DEF Connect
<1>2. conn' \in 1..MaxConns
  BY <1>1, BoundsAssumption DEF Inv, Connection, AgentOK
<1>3. AgentOK'
  BY <1>1, <1>2 DEF Inv, Connection, AgentOK
<1>4. LeaseOK' /\ RestOK'
  <2>1. disturbed' \in BOOLEAN
    BY <1>1
  <2> QED BY <1>1, <2>1 DEF Inv, Connection, LeaseOK, RestOK
<1>5. events' \subseteq Event
  BY <1>1, <1>2 DEF Inv, Connection, AgentOK, Event
<1> QED BY <1>1, <1>3, <1>4, <1>5, CommandsStay DEF Inv, Connection

LEMMA DisconnectKeeps == ASSUME Inv, Disconnect PROVE Inv'
<1>1. UNCHANGED <<conn, pc, lease, view, disturbed, faults>> /\ UNCHANGED queueVars
      /\ at' = None /\ at # None
      /\ events' \subseteq events \cup {[type |-> "offline", node |-> at, conn |-> conn, status |-> "offline"]}
  BY DEF Disconnect
<1>2. AgentOK' /\ LeaseOK' /\ RestOK'
  BY <1>1 DEF Inv, Connection, AgentOK, LeaseOK, RestOK
<1>3. events' \subseteq Event
  BY <1>1 DEF Inv, Connection, AgentOK, Event
<1> QED BY <1>1, <1>2, <1>3, CommandsStay DEF Inv, Connection

LEMMA HeartbeatKeeps == ASSUME Inv, Heartbeat PROVE Inv'
<1>1. UNCHANGED <<at, conn, pc, lease, view, disturbed, faults>> /\ UNCHANGED queueVars
      /\ at # None
      /\ events' = events \cup {[type |-> "status", node |-> at, conn |-> conn, status |-> pc]}
  BY DEF Heartbeat, agentVars
<1>2. AgentOK' /\ LeaseOK' /\ RestOK'
  BY <1>1 DEF Inv, Connection, AgentOK, LeaseOK, RestOK
<1>3. events' \subseteq Event
  BY <1>1 DEF Inv, Connection, AgentOK, Event
<1> QED BY <1>1, <1>2, <1>3, CommandsStay DEF Inv, Connection

LEMMA ArriveKeeps == ASSUME Inv, NEW e \in events, Arrive(e) PROVE Inv'
<1>1. UNCHANGED <<at, conn, pc, faults>> /\ UNCHANGED queueVars /\ events' \subseteq events
  BY DEF Arrive, agentVars
<1>2. e.node \in Node /\ e.conn \in 0..MaxConns /\ e.status \in Desired \cup {"offline"}
  BY DEF Inv, Connection, Event
<1>3. Current(e) \in [node : Node \cup {None}, conn : 0..MaxConns, live : BOOLEAN]
  BY <1>2 DEF Current
<1>4. lease' \in {lease, Current(e)} /\ view' \in {view, e.status}
  BY DEF Arrive
<1>5. LeaseOK'
  BY <1>2, <1>3, <1>4 DEF Inv, Connection, LeaseOK
<1>6. disturbed' \in BOOLEAN
  BY DEF Arrive
<1>7. AgentOK' /\ RestOK' /\ events' \subseteq Event
  BY <1>1, <1>6 DEF Inv, Connection, AgentOK, RestOK
<1> QED BY <1>1, <1>5, <1>7, CommandsStay DEF Inv, Connection

LEMMA LoseKeeps == ASSUME Inv, NEW e \in events, Lose(e) PROVE Inv'
<1>1. UNCHANGED <<at, conn, pc, lease, view>> /\ UNCHANGED queueVars /\ events' \subseteq events
      /\ disturbed' \in BOOLEAN /\ faults' \in 0..MaxFaults
  BY FaultKeeps DEF Lose, agentVars, Inv, Connection, RestOK
<1>2. AgentOK' /\ LeaseOK' /\ RestOK' /\ events' \subseteq Event
  BY <1>1 DEF Inv, Connection, AgentOK, LeaseOK, RestOK
<1> QED BY <1>1, <1>2, CommandsStay DEF Inv, Connection

LEMMA LeaseExpiresKeeps == ASSUME Inv, LeaseExpires PROVE Inv'
<1>1. UNCHANGED <<at, conn, pc, events, view>> /\ UNCHANGED queueVars
      /\ disturbed' \in BOOLEAN /\ faults' \in 0..MaxFaults
      /\ lease' = [lease EXCEPT !.live = FALSE]
  BY FaultKeeps DEF LeaseExpires, agentVars, Inv, Connection, RestOK
<1>2. LeaseOK'
  BY <1>1 DEF Inv, Connection, LeaseOK
<1>3. AgentOK' /\ RestOK' /\ events' \subseteq Event
  BY <1>1 DEF Inv, Connection, AgentOK, RestOK
<1> QED BY <1>1, <1>2, <1>3, CommandsStay DEF Inv, Connection

-----------------------------------------------------------------------------
(* What a new command changes of the queue.                                 *)
LEMMA Enqueued ==
  ASSUME Inv, NEW want \in Desired, Enqueue(want)
  PROVE  /\ queue' \in Seq(Entry) /\ Len(queue') = Len(queue) + 1 /\ Len(queue) < MaxCommands
         /\ queue'[Len(queue) + 1].state = "pending"
         /\ \A c \in DOMAIN queue : queue'[c] = queue[c]
         /\ UNCHANGED <<todo, completions, ranBy>> /\ UNCHANGED <<agentVars, leaseVars, faults>>
<1>1. PICK heard \in SUBSET Node :
        LET target == ActiveControllerNodeForPC(heard)
        IN target # None
           /\ queue' = Append(queue, [want |-> want, target |-> target, state |-> "pending"])
  BY DEF Enqueue
<1> DEFINE target == ActiveControllerNodeForPC(heard)
           new == [want |-> want, target |-> target, state |-> "pending"]
<1>2. target \in Node
  BY <1>1 DEF ActiveControllerNodeForPC, Inv, Connection, LeaseOK
<1>3. new \in Entry /\ new.state = "pending" /\ queue' = Append(queue, new)
  BY <1>1, <1>2 DEF Entry
<1> HIDE DEF new
<1>4. queue \in Seq(Entry)
  BY DEF Inv, Commands, QueueOK
<1>5. /\ Append(queue, new) \in Seq(Entry) /\ Len(Append(queue, new)) = Len(queue) + 1
      /\ \A i \in 1..Len(queue) : Append(queue, new)[i] = queue[i]
      /\ Append(queue, new)[Len(queue) + 1] = new
  BY <1>3, <1>4, AppendProperties
<1>6. DOMAIN queue = 1..Len(queue)
  BY DomainOfQueue DEF Inv, Commands
<1>7. Len(queue) < MaxCommands /\ UNCHANGED <<todo, completions, ranBy>>
      /\ UNCHANGED <<agentVars, leaseVars, faults>>
  BY DEF Enqueue
<1> QED BY <1>3, <1>5, <1>6, <1>7

LEMMA EnqueueKeeps == ASSUME Inv, NEW want \in Desired, Enqueue(want) PROVE Inv'
<1>1. /\ queue' \in Seq(Entry) /\ Len(queue') = Len(queue) + 1 /\ Len(queue) < MaxCommands
      /\ \A c \in DOMAIN queue : queue'[c] = queue[c]
      /\ UNCHANGED <<todo, completions, ranBy>> /\ UNCHANGED <<agentVars, leaseVars, faults>>
  BY Enqueued
<1>2. DOMAIN queue = 1..Len(queue) /\ Len(queue) \in Nat
  BY DomainOfQueue DEF Inv, Commands
<1>3. DOMAIN queue' = 1..Len(queue')
  BY <1>1, LenProperties
<1>4. DOMAIN queue \subseteq DOMAIN queue'
  BY <1>1, <1>2, <1>3
<1>5. QueueOK'
  BY <1>1, <1>2, BoundsAssumption DEF QueueOK
<1>6. TodoOK' /\ CompletionsOK' /\ RanOK'
  BY <1>1, <1>4 DEF Inv, Commands, TodoOK, CompletionsOK, RanOK
<1> QED BY <1>1, <1>5, <1>6, ConnectionStays DEF Inv, Commands

LEMMA FetchKeeps == ASSUME Inv, NEW n \in Node, Fetch(n) PROVE Inv'
<1> DEFINE mine == {c \in DOMAIN queue : Pending(c) /\ queue[c].target = n}
<1>1. todo' = [todo EXCEPT ![n] = mine] /\ UNCHANGED <<queue, completions, ranBy>>
      /\ UNCHANGED <<agentVars, leaseVars, faults>>
  BY DEF Fetch
<1>2. DOMAIN queue \subseteq Command
  BY DomainOfQueue DEF Inv, Commands
<1>3. mine \subseteq Command /\ \A c \in mine : c \in DOMAIN queue /\ queue[c].target = n
  BY <1>2
<1> HIDE DEF mine
<1>4. TodoOK'
  BY <1>1, <1>3 DEF Inv, Commands, TodoOK
<1>5. QueueOK' /\ CompletionsOK' /\ RanOK'
  BY <1>1 DEF Inv, Commands, QueueOK, CompletionsOK, RanOK
<1> QED BY <1>1, <1>4, <1>5, ConnectionStays DEF Inv, Commands

LEMMA ExecuteKeeps == ASSUME Inv, NEW n \in Node, Execute(n) PROVE Inv'
<1>1. UNCHANGED <<queue, todo, at, conn, faults>> /\ UNCHANGED leaseVars
  BY DEF Execute
<1>2. PICK c \in todo[n], ran \in BOOLEAN, confirmed \in BOOLEAN :
        /\ confirmed => ran
        /\ Post(n, c, confirmed)
        /\ pc' = IF ran THEN queue[c].want ELSE pc
        /\ ranBy' = IF ran THEN [ranBy EXCEPT ![c] = ranBy[c] \cup {n}] ELSE ranBy
  BY DEF Execute
<1>3. c \in Command /\ c \in DOMAIN queue /\ queue[c].target = n
  BY DEF Inv, Commands, TodoOK
<1>4. queue[c].want \in Desired
  BY <1>3, DomainOfQueue DEF Inv, Commands, Entry
<1>5. pc' \in Desired
  BY <1>2, <1>4 DEF Inv, Connection, AgentOK
<1>6. UNCHANGED <<events, lease, view, disturbed>>
  BY <1>1 DEF leaseVars
<1>7. Connection'
  BY <1>1, <1>5, <1>6 DEF Inv, Connection, AgentOK, LeaseOK, RestOK
<1>8. RanOK'
  <2>1. CASE ran
    BY <1>1, <1>2, <1>3, <2>1 DEF Inv, Commands, RanOK
  <2>2. CASE ~ ran
    BY <1>1, <1>2, <2>2 DEF Inv, Commands, RanOK
  <2> QED BY <2>1, <2>2
<1>9. /\ \A d \in Command : ranBy[d] # {} => ranBy'[d] # {}
      /\ ran => ranBy'[c] # {}
  BY <1>2, <1>3 DEF Inv, Commands, RanOK
<1>10. CompletionsOK'
  <2> DEFINE new == [id |-> c, from |-> n, success |-> confirmed, awaited |-> TRUE]
  <2>1. completions' = completions \cup {new}
    BY <1>2 DEF Post
  <2>2. new \in Completion
    BY <1>3 DEF Completion
  <2>3. new.id \in DOMAIN queue /\ (new.success => ranBy'[new.id] # {})
    BY <1>2, <1>3, <1>9
  <2>4. \A m \in completions : m.id \in Command /\ m.id \in DOMAIN queue /\ (m.success => ranBy[m.id] # {})
    BY DEF Inv, Commands, CompletionsOK, Completion
  <2>5. \A m \in completions' : m.id \in DOMAIN queue' /\ (m.success => ranBy'[m.id] # {})
    BY <1>1, <1>9, <2>1, <2>3, <2>4
  <2> QED BY <2>1, <2>2, <2>5 DEF Inv, Commands, CompletionsOK
<1>11. QueueOK' /\ TodoOK'
  BY <1>1 DEF Inv, Commands, QueueOK, TodoOK
<1> QED BY <1>7, <1>8, <1>10, <1>11 DEF Inv, Commands

(* What a completion changes of the queue.                                  *)
LEMMA Completed ==
  ASSUME Inv, NEW m \in completions, Complete(m)
  PROVE  /\ queue' \in Seq(Entry) /\ Len(queue') = Len(queue) /\ DOMAIN queue' = DOMAIN queue
         /\ \A c \in DOMAIN queue : queue'[c].target = queue[c].target
         /\ \/ queue' = queue
            \/ /\ queue[m.id].state = "pending"
               /\ queue'[m.id].state = IF m.success THEN "succeeded" ELSE "failed"
               /\ \A c \in DOMAIN queue \ {m.id} : queue'[c] = queue[c]
<1>1. queue \in Seq(Entry) /\ m.id \in DOMAIN queue
  BY DEF Inv, Commands, QueueOK, CompletionsOK
<1>2. DOMAIN queue = 1..Len(queue) /\ Len(queue) \in Nat /\ queue[m.id] \in Entry
  BY <1>1, DomainOfQueue DEF Inv, Commands
<1>3. CASE queue' = queue
  BY <1>1, <1>3
<1>4. CASE Pending(m.id)
           /\ queue' = [queue EXCEPT ![m.id].state = IF m.success THEN "succeeded" ELSE "failed"]
  <2> DEFINE to == IF m.success THEN "succeeded" ELSE "failed"
             e == [queue[m.id] EXCEPT !.state = to]
  <2>1. to \in {"pending", "succeeded", "failed"} /\ queue' = [queue EXCEPT ![m.id] = e]
    BY <1>4
  <2> HIDE DEF to
  <2>2. e \in Entry /\ e.state = to /\ e.target = queue[m.id].target
    BY <1>2, <2>1 DEF Entry
  <2> HIDE DEF e
  <2>3. /\ queue' \in Seq(Entry) /\ Len(queue') = Len(queue)
        /\ \A j \in 1..Len(queue) : queue'[j] = IF j = m.id THEN e ELSE queue[j]
    BY <1>1, <1>2, <2>1, <2>2, ExceptSeq
  <2>4. DOMAIN queue' = DOMAIN queue
    BY <1>2, <2>3, LenProperties
  <2>5. queue'[m.id].state = to /\ queue[m.id].state = "pending"
    BY <1>1, <1>2, <1>4, <2>2, <2>3 DEF Pending
  <2>6. \A c \in DOMAIN queue : queue'[c].target = queue[c].target
    BY <1>2, <2>2, <2>3
  <2>7. \A c \in DOMAIN queue \ {m.id} : queue'[c] = queue[c]
    BY <1>2, <2>3
  <2> QED BY <2>3, <2>4, <2>5, <2>6, <2>7 DEF to
<1> QED BY <1>3, <1>4 DEF Complete

LEMMA CompleteKeeps == ASSUME Inv, NEW m \in completions, Complete(m) PROVE Inv'
<1>1. /\ completions' \subseteq completions /\ UNCHANGED ranBy
      /\ UNCHANGED <<agentVars, leaseVars, faults>>
  BY DEF Complete
<1>2. m.from \in Node
  BY DEF Inv, Commands, CompletionsOK, Completion
<1>3. todo' \in [Node -> SUBSET Command] /\ \A n \in Node : todo'[n] \subseteq todo[n]
  <2>1. CASE UNCHANGED todo
    BY <2>1 DEF Inv, Commands, TodoOK
  <2>2. CASE Done(m)
    BY <1>2, <2>2 DEF Done, Inv, Commands, TodoOK
  <2> QED BY <2>1, <2>2 DEF Complete
<1>4. /\ queue' \in Seq(Entry) /\ Len(queue') = Len(queue) /\ DOMAIN queue' = DOMAIN queue
      /\ \A c \in DOMAIN queue : queue'[c].target = queue[c].target
  BY Completed
<1>5. QueueOK'
  BY <1>4 DEF Inv, Commands, QueueOK
<1>6. TodoOK'
  BY <1>3, <1>4 DEF Inv, Commands, TodoOK
<1>7. CompletionsOK' /\ RanOK'
  BY <1>1, <1>4 DEF Inv, Commands, CompletionsOK, RanOK
<1> QED BY <1>1, <1>5, <1>6, <1>7, ConnectionStays DEF Inv, Commands

(* A round that is given up leaves completions nobody waits for.            *)
LEMMA AbandonedOK ==
  ASSUME Inv, NEW n \in Node, NEW m \in Abandoned(n)
  PROVE  m \in Completion /\ \E l \in completions : m.id = l.id /\ m.success = l.success
<1>1. \A l \in completions : l \in Completion
  BY DEF Inv, Commands, CompletionsOK
<1>2. CASE m \in completions
  BY <1>1, <1>2
<1>3. ASSUME NEW l \in completions, m = [l EXCEPT !.awaited = FALSE]
      PROVE  m \in Completion /\ m.id = l.id /\ m.success = l.success
  BY <1>1, <1>3 DEF Completion
<1> QED BY <1>2, <1>3 DEF Abandoned, Awaiting

LEMMA RoundEndsKeeps ==
  ASSUME Inv, NEW n \in Node, CompletionTimesOut(n) \/ Restart(n)
  PROVE  Inv'
<1>1. UNCHANGED <<conn, pc, queue, ranBy>> /\ UNCHANGED leaseVars
      /\ at' \in {at, None} /\ faults' \in 0..MaxFaults
  BY FaultKeeps DEF CompletionTimesOut, Restart, agentVars, Inv, Connection, RestOK
<1>2. UNCHANGED <<events, lease, view, disturbed>>
  BY <1>1 DEF leaseVars
<1>3. Connection'
  BY <1>1, <1>2 DEF Inv, Connection, AgentOK, LeaseOK, RestOK
<1>4. todo' \in [Node -> SUBSET Command] /\ \A k \in Node : todo'[k] \subseteq todo[k]
  <2>1. CASE Restart(n)
    BY <2>1 DEF Restart, Inv, Commands, TodoOK
  <2>2. ASSUME NEW m \in Awaiting(n), Done(m) PROVE <1>4
    <3>1. m.from \in Node
      BY DEF Awaiting, Inv, Commands, CompletionsOK, Completion
    <3> QED BY <2>2, <3>1 DEF Done, Inv, Commands, TodoOK
  <2> QED BY <2>1, <2>2 DEF CompletionTimesOut
<1>5. TodoOK'
  BY <1>1, <1>4 DEF Inv, Commands, TodoOK
<1>6. completions' \subseteq completions \cup Abandoned(n)
  BY DEF CompletionTimesOut, Restart
<1>7. \A m \in completions \cup Abandoned(n) :
        m \in Completion /\ m.id \in DOMAIN queue /\ (m.success => ranBy[m.id] # {})
  BY AbandonedOK DEF Inv, Commands, CompletionsOK
<1>8. CompletionsOK'
  BY <1>1, <1>6, <1>7 DEF CompletionsOK
<1>9. QueueOK' /\ RanOK'
  BY <1>1 DEF Inv, Commands, QueueOK, RanOK
<1> QED BY <1>3, <1>5, <1>8, <1>9 DEF Inv, Commands

LEMMA NextKeeps == ASSUME Inv, [Next]_vars PROVE Inv'
<1>1. CASE UNCHANGED vars
  BY <1>1, ConnectionStays, CommandsStay DEF vars, Inv
<1>2. CASE Next
  BY <1>2, ConnectKeeps, DisconnectKeeps, HeartbeatKeeps, ArriveKeeps, LoseKeeps, LeaseExpiresKeeps,
     EnqueueKeeps, FetchKeeps, ExecuteKeeps, CompleteKeeps, RoundEndsKeeps DEF Next
<1> QED BY <1>1, <1>2

THEOREM Invariant == Spec => []Inv
BY InitInv, NextKeeps, PTL DEF Spec

-----------------------------------------------------------------------------
(* Leases, events, commands and completions are well typed: every event of *)
(* a node names a connection there was, every command has a node to go to. *)
THEOREM TypeCorrect == Spec => []TypeOK
<1>1. Inv => TypeOK
  BY DEF Inv, Connection, Commands, AgentOK, LeaseOK, RestOK, QueueOK, TodoOK, CompletionsOK,
         RanOK, TypeOK, Entry, Completion
<1> QED BY <1>1, Invariant, PTL

(* "A Cloud command is delivered to one Controller only", however often    *)
(* the lease has moved and the command was fetched and executed again.     *)
THEOREM ExecutedByOne == Spec => []OneExecutor
<1>1. ASSUME Inv, NEW c \in Command PROVE Cardinality(ranBy[c]) <= 1
  <2>1. ranBy[c] = {} \/ ranBy[c] = {queue[c].target}
    BY <1>1 DEF Inv, Commands, RanOK
  <2>2. Cardinality({}) = 0 /\ Cardinality({queue[c].target}) = 1
    BY FS_EmptySet, FS_Singleton
  <2> QED BY <2>1, <2>2
<1>2. Inv => OneExecutor
  BY <1>1 DEF OneExecutor
<1> QED BY <1>2, Invariant, PTL

-----------------------------------------------------------------------------
\* What the refinement mapping shows of the queue.
Shown == [c \in Command |-> IF c \in DOMAIN queue THEN queue[c].state ELSE "none"]
Ran == {c \in Command : ranBy[c] # {}}

LEMMA SameQueue ==
  ASSUME UNCHANGED <<queue, ranBy>> PROVE [Queue!Next]_(Queue!vars)
BY DEF Queue!vars

LEMMA EnqueueRequests ==
  ASSUME Inv, NEW want \in Desired, Enqueue(want) PROVE [Queue!Next]_(Queue!vars)
<1>0. PICK c : c = Len(queue) + 1
  OBVIOUS
<1>1. /\ queue' \in Seq(Entry) /\ Len(queue') = Len(queue) + 1 /\ Len(queue) < MaxCommands
      /\ queue'[c].state = "pending"
      /\ \A d \in DOMAIN queue : queue'[d] = queue[d]
      /\ UNCHANGED ranBy
  BY <1>0, Enqueued
<1>2. DOMAIN queue = 1..Len(queue) /\ Len(queue) \in Nat
  BY DomainOfQueue DEF Inv, Commands
<1>3. DOMAIN queue' = 1..Len(queue')
  BY <1>1, LenProperties
<1>4. c \in Command /\ c \notin DOMAIN queue /\ DOMAIN queue' = DOMAIN queue \cup {c}
  BY <1>0, <1>1, <1>2, <1>3, BoundsAssumption
<1>5. Shown[c] = "none" /\ Shown' = [Shown EXCEPT ![c] = "pending"] /\ UNCHANGED Ran
  BY <1>1, <1>4 DEF Shown, Ran
<1>6. Queue!Request(c)
  BY <1>5 DEF Queue!Request, Shown, Ran
<1> QED BY <1>4, <1>6 DEF Queue!Next

LEMMA ExecuteExecutes ==
  ASSUME Inv, NEW n \in Node, Execute(n) PROVE [Queue!Next]_(Queue!vars)
<1>1. UNCHANGED queue
  BY DEF Execute
<1>2. PICK c \in todo[n] :
        \/ UNCHANGED ranBy
        \/ ranBy' = [ranBy EXCEPT ![c] = ranBy[c] \cup {n}]
  BY DEF Execute
<1>3. c \in Command /\ c \in DOMAIN queue
  BY DEF Inv, Commands, TodoOK
<1>4. CASE UNCHANGED ranBy
  BY <1>1, <1>4, SameQueue
<1>5. CASE ranBy' = [ranBy EXCEPT ![c] = ranBy[c] \cup {n}]
  <2>1. Ran' = Ran \cup {c} /\ UNCHANGED Shown
    BY <1>1, <1>3, <1>5 DEF Ran, Shown, Inv, Commands, RanOK
  <2>2. Shown[c] # "none"
    BY <1>3, DomainOfQueue DEF Shown, Inv, Commands, Entry
  <2>3. Queue!Execute(c)
    BY <2>1, <2>2 DEF Queue!Execute, Shown, Ran
  <2> QED BY <1>3, <2>3 DEF Queue!Next
<1> QED BY <1>2, <1>4, <1>5

LEMMA CompleteAnswers ==
  ASSUME Inv, NEW m \in completions, Complete(m) PROVE [Queue!Next]_(Queue!vars)
<1>1. UNCHANGED ranBy
  BY DEF Complete
<1>2. m.id \in Command /\ m.id \in DOMAIN queue /\ (m.success => m.id \in Ran)
  BY DomainOfQueue DEF Inv, Commands, CompletionsOK, Ran
<1>3. CASE UNCHANGED queue
  BY <1>1, <1>3, SameQueue
<1>4. CASE /\ queue[m.id].state = "pending" /\ DOMAIN queue' = DOMAIN queue
           /\ queue'[m.id].state = IF m.success THEN "succeeded" ELSE "failed"
           /\ \A c \in DOMAIN queue \ {m.id} : queue'[c] = queue[c]
  <2>1. /\ Shown[m.id] = "pending" /\ UNCHANGED Ran
        /\ Shown' = [Shown EXCEPT ![m.id] = IF m.success THEN "succeeded" ELSE "failed"]
    BY <1>1, <1>2, <1>4 DEF Shown, Ran
  <2>2. CASE m.success
    <3>1. Queue!Answer(m.id)
      BY <1>2, <2>1, <2>2 DEF Queue!Answer, Shown, Ran
    <3> QED BY <1>2, <3>1 DEF Queue!Next
  <2>3. CASE ~ m.success
    <3>1. Queue!Doubt(m.id)
      BY <2>1, <2>3 DEF Queue!Doubt, Shown, Ran
    <3> QED BY <1>2, <3>1 DEF Queue!Next
  <2> QED BY <2>2, <2>3
<1> QED BY <1>3, <1>4, Completed

LEMMA StepsOfTheQueue == ASSUME Inv, [Next]_vars PROVE [Queue!Next]_(Queue!vars)
<1>1. CASE UNCHANGED <<queue, ranBy>>
  BY <1>1, SameQueue
<1>2. CASE \E want \in Desired : Enqueue(want)
  BY <1>2, EnqueueRequests
<1>3. CASE \E n \in Node : Execute(n)
  BY <1>3, ExecuteExecutes
<1>4. CASE \E m \in completions : Complete(m)
  BY <1>4, CompleteAnswers
<1> QED BY <1>1, <1>2, <1>3, <1>4
        DEF Next, vars, queueVars, Connect, Fetch, Disconnect, Heartbeat, Arrive, Lose, LeaseExpires,
            CompletionTimesOut, Restart

(* The queue of the Cloud implements CommandQueue: every step, of whatever *)
(* actor, is a request, an execution or an answer there, or none of them.  *)
(* (That every command is answered is liveness, and left to the run.)      *)
THEOREM Implements == Spec => Queue!Init /\ [][Queue!Next]_(Queue!vars)
<1>1. Init => Queue!Init
  <2>1. ASSUME Init PROVE Shown = [c \in Command |-> "none"] /\ Ran = {}
    <3>1. queue = << >> /\ DOMAIN queue = {}
      BY <2>1 DEF Init
    <3> QED BY <2>1, <3>1 DEF Init, Shown, Ran
  <2> QED BY <2>1 DEF Queue!Init, Shown, Ran
<1>2. Inv /\ [Next]_vars => [Queue!Next]_(Queue!vars)
  BY StepsOfTheQueue
<1> QED BY <1>1, <1>2, Invariant, PTL DEF Spec
-----------------------------------------------------------------------------
(***************************************************************************)
(* The sockets of one Controller (AgentHub), which share no state with the *)
(* leases.  For every number of sockets, calls and restarts and every      *)
(* capacity of the send buffer: the state is well typed, and only the last *)
(* socket of a PC reports its Agent offline.  The invariant: the           *)
(* registered socket is being read, and every other one that is read has   *)
(* been told to close.                                                     *)
(***************************************************************************)
\* The socket of the PC is read, and a call that is past picking one has picked one.
Registered == client # NoSocket => reader[client] = "reading"
OthersTold == \A s \in Socket : reader[s] = "reading" /\ s # client => done[s]
Picked == \A c \in Call : call[c] \in {"sending", "waiting"} => via[c] \in Socket

HubInv == HubTypeOK /\ Registered /\ OthersTold /\ Picked

LEMMA BoundsFacts == MaxSockets \in Nat /\ SendBuffer \in Nat /\ MaxRestarts \in Nat
  BY SocketsAssumption

\* The empty sequence, for every type of its elements.
LEMMA EmptySeqs == <<>> \in Seq(Message) /\ <<>> \in Seq(Call) /\ Len(<<>>) = 0
  OBVIOUS

\* Initially no socket is open, and none is registered.
LEMMA InitHub == HubInit => HubInv
  <1> SUFFICES ASSUME HubInit PROVE HubInv
    OBVIOUS
  <1>1. HubTypeOK
    <2>1. 0 \in 0..MaxSockets /\ 0 \in 0..MaxRestarts
      BY BoundsFacts
    <2>2. inbox \in [Socket -> Seq(Message)] /\ out \in [Socket -> Seq(Call)]
      BY EmptySeqs DEF HubInit
    <2>3. \A s \in Socket : Len(out[s]) <= SendBuffer
      BY BoundsFacts DEF HubInit
    <2> QED
      BY <2>1, <2>2, <2>3 DEF HubInit, HubTypeOK
  <1>2. Registered /\ OthersTold /\ Picked
    BY DEF HubInit, Registered, OthersTold, Picked, callVars
  <1> QED
    BY <1>1, <1>2 DEF HubInv

\* The Agent's steps leave the goroutines alone.
LEMMA AgentSteps ==
  ASSUME HubInv, Dial \/ SendHeartbeat \/ Leave
  PROVE  HubInv'
  <1> USE DEF HubInv
  <1>1. CASE Dial
    <2>1. HubTypeOK'
      BY <1>1, BoundsFacts DEF HubTypeOK, Dial, Socket, Message, hubVars, serverVars, callVars
    <2> QED
      BY <1>1, <2>1 DEF Dial, Registered, OthersTold, Picked, hubVars, callVars
  <1>2. CASE SendHeartbeat
    <2>1. HubTypeOK'
      BY <1>2 DEF HubTypeOK, SendHeartbeat, Message, dialVars, hubVars, serverVars, callVars
    <2> QED
      BY <1>2, <2>1 DEF SendHeartbeat, Registered, OthersTold, Picked, hubVars, callVars
  <1>3. CASE Leave
    <2>1. HubTypeOK'
      BY <1>3 DEF HubTypeOK, Leave, hubVars, serverVars, callVars
    <2> QED
      BY <1>3, <2>1 DEF Leave, Registered, OthersTold, Picked, hubVars, callVars
  <1> QED
    BY <1>1, <1>2, <1>3

\* A socket that registers tells the one it replaces.
LEMMA RegisterStep ==
  ASSUME HubInv, NEW s \in Socket, Register(s)
  PROVE  HubInv'
  <1> USE DEF HubInv
  <1>1. HubTypeOK'
    BY DEF HubTypeOK, Register, dialVars, serverVars, callVars
  <1>2. Registered'
    BY DEF HubTypeOK, Register, Registered
  <1>3. ASSUME NEW t \in Socket, reader'[t] = "reading", t # s
        PROVE  done'[t]
    <2>1. reader[t] = "reading"
      BY <1>3 DEF HubTypeOK, Register
    <2>2. CASE t = client
      <3>1. client # NoSocket
        BY <2>2, CallAssumption DEF Socket
      <3> QED
        BY <2>2, <3>1 DEF HubTypeOK, Register
    <2>3. CASE t # client
      BY <2>1, <2>3 DEF HubTypeOK, Register, OthersTold
    <2> QED
      BY <2>2, <2>3
  <1>4. OthersTold' /\ Picked'
    BY <1>3 DEF Register, OthersTold, Picked, callVars
  <1> QED
    BY <1>1, <1>2, <1>4

\* Reading and writing move messages only.
LEMMA ReadStep ==
  ASSUME HubInv, NEW s \in Socket, Read(s)
  PROVE  HubInv'
  <1> USE DEF HubInv
  <1>1. Tail(inbox[s]) \in Seq(Message)
    BY DEF HubTypeOK, Read
  <1>2. inbox' \in [Socket -> Seq(Message)]
    BY <1>1 DEF HubTypeOK, Read
  <1>3. CASE Head(inbox[s]) = "event"
    <2>1. UNCHANGED <<dialed, agent, link, reader, done, client, out, offlines, call, via, restarts>>
      BY <1>3 DEF Read, dialVars, hubVars, callVars
    <2>2. status' = "available" /\ refreshing' \in [Socket -> {"no", "asking", "answered"}]
      <3>1. /\ status' = "available"
            /\ \/ refreshing' = refreshing
               \/ refreshing' = [refreshing EXCEPT ![s] = "asking"]
        BY <1>3 DEF Read
      <3>2. refreshing \in [Socket -> {"no", "asking", "answered"}]
        BY DEF HubTypeOK
      <3> QED
        BY <3>1, <3>2
    <2>3. missed' \in BOOLEAN
      <3>1. missed' = (client = NoSocket)
        BY <1>3 DEF Read
      <3> QED
        BY <3>1, Zenon
    <2>4. HubTypeOK'
      BY <1>2, <2>1, <2>2, <2>3 DEF HubTypeOK
    <2>5. Registered' /\ OthersTold' /\ Picked'
      BY <2>1 DEF Registered, OthersTold, Picked
    <2> QED
      BY <2>4, <2>5
  <1>4. CASE Head(inbox[s]) # "event"
    <2>1. UNCHANGED <<dialed, agent, link, reader, done, client, out, offlines, refreshing, status,
                      missed, via, restarts>>
      BY <1>4 DEF Read, dialVars, hubVars
    <2>2. call' = call \/ \E c \in Call : call' = [call EXCEPT ![c] = "idle"]
      BY <1>4 DEF HubTypeOK, Read, CompleteCommand
    <2>3. call' \in [Call -> {"idle", "waking", "sending", "waiting"}]
      BY <2>2 DEF HubTypeOK
    <2>4. HubTypeOK'
      BY <1>2, <2>1, <2>3 DEF HubTypeOK
    <2>5. Registered' /\ OthersTold'
      BY <2>1 DEF Registered, OthersTold
    <2>6. Picked'
      BY <2>1, <2>2 DEF HubTypeOK, Picked
    <2> QED
      BY <2>4, <2>5, <2>6
  <1> QED
    BY <1>3, <1>4

LEMMA WriteStep ==
  ASSUME HubInv, NEW s \in Socket, Write(s)
  PROVE  HubInv'
  <1> USE DEF HubInv
  <1>1. Head(out[s]) \in Call /\ Tail(out[s]) \in Seq(Call) /\ Len(Tail(out[s])) <= SendBuffer
    BY BoundsFacts DEF HubTypeOK, Write
  <1>2. Append(inbox[s], Head(out[s])) \in Seq(Message)
    BY <1>1 DEF HubTypeOK, Message
  <1>3. HubTypeOK'
    BY <1>1, <1>2 DEF HubTypeOK, Write, dialVars, serverVars, callVars
  <1> QED
    BY <1>3 DEF Write, Registered, OthersTold, Picked, callVars

\* A goroutine that ends leaves the registered socket registered.
LEMMA ReadFailsStep ==
  ASSUME HubInv, NEW s \in Socket, ReadFails(s)
  PROVE  HubInv'
  <1> USE DEF HubInv, Finish, Unregister
  <1>1. HubTypeOK'
    BY BoundsFacts, EmptySeqs DEF HubTypeOK, ReadFails, dialVars, callVars
  <1>2. Registered' /\ OthersTold' /\ Picked'
    BY DEF HubTypeOK, ReadFails, Registered, OthersTold, Picked, callVars
  <1> QED
    BY <1>1, <1>2

\* Closing a socket wakes its reader, it does not end it.
LEMMA CloseSteps ==
  ASSUME HubInv, NEW s \in Socket, CloseReplaced(s) \/ Watchdog(s)
  PROVE  HubInv'
  <1> USE DEF HubInv, Close
  <1>1. HubTypeOK'
    BY DEF HubTypeOK, CloseReplaced, Watchdog, hubVars, serverVars, callVars
  <1>2. Registered' /\ OthersTold' /\ Picked'
    BY DEF HubTypeOK, CloseReplaced, Watchdog, Registered, OthersTold, Picked, hubVars, callVars
  <1> QED
    BY <1>1, <1>2

\* After a restart nothing is registered or read.
LEMMA RestartStep ==
  ASSUME HubInv, RestartServer
  PROVE  HubInv'
  <1> USE DEF HubInv
  <1>1. HubTypeOK'
    BY BoundsFacts, EmptySeqs DEF HubTypeOK, RestartServer
  <1>2. Registered' /\ OthersTold' /\ Picked'
    BY DEF HubTypeOK, RestartServer, Registered, OthersTold, Picked, callVars
  <1> QED
    BY <1>1, <1>2

\* The Server's steps and the calls leave the goroutines alone.
LEMMA ServerSteps ==
  ASSUME HubInv, NEW s \in Socket, Offline(s) \/ RefreshAnswered(s) \/ RefreshWrites(s)
  PROVE  HubInv'
  <1> USE DEF HubInv
  <1>1. HubTypeOK'
    BY DEF HubTypeOK, Offline, RefreshAnswered, RefreshWrites, dialVars, hubVars, callVars
  <1>2. Registered' /\ OthersTold' /\ Picked'
    BY DEF Offline, RefreshAnswered, RefreshWrites, Registered, OthersTold, Picked, hubVars, callVars
  <1> QED
    BY <1>1, <1>2

LEMMA SendStep ==
  ASSUME HubInv, NEW c \in Call, Send(c)
  PROVE  HubInv'
  <1> USE DEF HubInv
  <1>1. via[c] \in Socket
    BY DEF Picked, Send
  <1>2. Append(out[via[c]], c) \in Seq(Call) /\ Len(Append(out[via[c]], c)) <= SendBuffer
    BY <1>1, BoundsFacts DEF HubTypeOK, Send
  <1>3. HubTypeOK'
    BY <1>1, <1>2 DEF HubTypeOK, Send, Move, dialVars, serverVars
  <1> QED
    BY <1>1, <1>3 DEF HubTypeOK, Send, Move, Registered, OthersTold, Picked

LEMMA CallSteps ==
  ASSUME HubInv, NEW c \in Call, Pick(c) \/ WakeUp(c) \/ WakeFails(c) \/ GiveUp(c)
  PROVE  HubInv'
  <1> USE DEF HubInv, Move
  <1>1. HubTypeOK'
    BY DEF HubTypeOK, Pick, WakeUp, WakeFails, GiveUp, dialVars, hubVars, serverVars
  <1>2. Registered' /\ OthersTold'
    BY DEF Pick, WakeUp, WakeFails, GiveUp, Registered, OthersTold, hubVars
  <1>3. ASSUME NEW d \in Call, call'[d] \in {"sending", "waiting"}
        PROVE  via'[d] \in Socket
    <2>1. CASE Pick(c)
      <3>1. client \in Socket
        BY <2>1 DEF HubTypeOK, Pick
      <3> QED
        BY <1>3, <2>1, <3>1 DEF HubTypeOK, Pick, Picked
    <2>2. CASE WakeUp(c) \/ WakeFails(c) \/ GiveUp(c)
      <3>1. via' = via /\ (d = c => call'[d] \notin {"sending", "waiting"}) /\ (d # c => call'[d] = call[d])
        BY <2>2 DEF HubTypeOK, WakeUp, WakeFails, GiveUp
      <3> QED
        BY <1>3, <3>1 DEF Picked
    <2> QED
      BY <2>1, <2>2
  <1> QED
    BY <1>1, <1>2, <1>3 DEF Picked

LEMMA NextHub == HubInv /\ [HubNext]_wsVars => HubInv'
  <1> SUFFICES ASSUME HubInv, [HubNext]_wsVars PROVE HubInv'
    OBVIOUS
  <1>1. CASE UNCHANGED wsVars
    BY <1>1 DEF HubInv, HubTypeOK, Registered, OthersTold, Picked, wsVars, dialVars, hubVars, serverVars, callVars
  <1>2. CASE Dial \/ SendHeartbeat \/ Leave \/ RestartServer
    BY <1>2, AgentSteps, RestartStep
  <1>3. ASSUME NEW s \in Socket,
               \/ Register(s) \/ Read(s) \/ ReadFails(s) \/ Write(s) \/ CloseReplaced(s) \/ Watchdog(s)
               \/ Offline(s) \/ RefreshAnswered(s) \/ RefreshWrites(s)
        PROVE  HubInv'
    BY <1>3, RegisterStep, ReadStep, ReadFailsStep, WriteStep, CloseSteps, ServerSteps
  <1>4. ASSUME NEW c \in Call, Pick(c) \/ WakeUp(c) \/ WakeFails(c) \/ Send(c) \/ GiveUp(c)
        PROVE  HubInv'
    BY <1>4, CallSteps, SendStep
  <1> QED
    BY <1>1, <1>2, <1>3, <1>4 DEF HubNext

LEMMA HubInvariant == HubSpec => []HubInv
  BY InitHub, NextHub, PTL DEF HubSpec

-----------------------------------------------------------------------------
(***************************************************************************)
(* The state is well typed: registerClient, the goroutines of the sockets, *)
(* the calls and a restart keep every variable within its range, and no    *)
(* buffer of a socket holds more than its capacity.                        *)
(***************************************************************************)
THEOREM HubTyped == HubSpec => []HubTypeOK
  BY HubInvariant, PTL DEF HubInv

(***************************************************************************)
(* Only unregisterClient of the registered socket reports the Agent        *)
(* offline; it was the last one, the others have all been told to close.   *)
(***************************************************************************)
THEOREM LastIsHeard == HubSpec => ReplacedIsSilent
  <1>1. ASSUME HubInv, HubInv', [HubNext]_wsVars, offlines' \ offlines # {}
        PROVE  client' = NoSocket /\ \A s \in Socket : reader'[s] = "reading" => done'[s]
    <2>1. PICK s \in Socket : ReadFails(s)
      BY <1>1 DEF HubNext, Dial, SendHeartbeat, Leave, RestartServer, Register, Read, Write, CloseReplaced, Watchdog,
           Offline, RefreshAnswered, RefreshWrites, Pick, WakeUp, WakeFails, Send, GiveUp,
           wsVars, serverVars
    <2>2. client' = NoSocket
      BY <1>1, <2>1 DEF ReadFails, Finish, Unregister
    <2> QED
      BY <1>1, <2>2, CallAssumption DEF HubInv, OthersTold, Socket
  <1>2. HubInv /\ HubInv' /\ [HubNext]_wsVars
        => [offlines' \ offlines # {} =>
              client' = NoSocket /\ \A s \in Socket : reader'[s] = "reading" => done'[s]]_wsVars
    BY <1>1
  <1> QED
    BY <1>2, HubInvariant, PTL DEF HubSpec, ReplacedIsSilent
=============================================================================
