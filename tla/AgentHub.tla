------------------------------ MODULE AgentHub ------------------------------
(***************************************************************************)
(* The WebSocket hub of a Controller (WSController) for one PC: sockets    *)
(* that register, are replaced, break or fall silent, each with a reader,  *)
(* a writer and a watchdog goroutine; calls that wake the PC, send a       *)
(* command and wait for its result; and the status of the PC the Server    *)
(* keeps from the events (agent_online, heartbeat, agent_offline) and from *)
(* the get_status query that follows each agent_online.  Its names are     *)
(* such that a module can extend it together with Controllers.             *)
(***************************************************************************)
EXTENDS Naturals, Sequences, FiniteSets

CONSTANTS Call,          \* callers of StartSession or Wake
          NoSocket,
          MaxSockets,    \* bound on the sockets the Agent opens
          SendBuffer,    \* capacity of client.send, 16 in the code
          MaxRestarts    \* bound on the restarts of the Controller

ASSUME SocketsAssumption ==
  MaxSockets \in Nat /\ SendBuffer \in Nat /\ MaxRestarts \in Nat
ASSUME CallAssumption == NoSocket \notin Call /\ NoSocket \notin 1..MaxSockets

Socket == 1..MaxSockets

VARIABLES
  dialed,     \* number of sockets opened so far
  agent,      \* the socket the Agent uses
  link,       \* the network's side of a socket
  inbox,      \* messages the Controller has not read
  reader,     \* where the goroutine of a socket stands
  done,       \* client.done is closed
  client,     \* clients[external_pc_id]
  out,        \* client.send
  offlines,   \* agent_offline events on their way to the Server
  refreshing, \* get_status queries: not yet answered, answered
  status,     \* pc_refs.status_cache
  call, via,  \* where a call stands, the socket it has picked
  restarts,
  missed      \* observer: made available with no socket registered, or restarted

dialVars == <<dialed, agent>>
hubVars == <<reader, done, client, out>>
serverVars == <<offlines, refreshing, status, missed>>
callVars == <<call, via>>
wsVars == <<dialVars, link, inbox, hubVars, serverVars, callVars, restarts>>

Message == {"event"} \cup Call      \* an event, or the result of a call's command

HubTypeOK ==
  /\ dialed \in 0..MaxSockets /\ agent \in Socket \cup {NoSocket}
  /\ link \in [Socket -> {"unused", "up", "silent", "cut"}]
  /\ inbox \in [Socket -> Seq(Message)]
  /\ reader \in [Socket -> {"none", "reading", "gone"}]
  /\ done \in [Socket -> BOOLEAN]
  /\ client \in Socket \cup {NoSocket}
  /\ out \in [Socket -> Seq(Call)] /\ \A s \in Socket : Len(out[s]) <= SendBuffer
  /\ offlines \subseteq Socket
  /\ refreshing \in [Socket -> {"no", "asking", "answered"}]
  /\ status \in {"available", "offline"}
  /\ call \in [Call -> {"idle", "waking", "sending", "waiting"}]
  /\ via \in [Call -> Socket \cup {NoSocket}]
  /\ restarts \in 0..MaxRestarts
  /\ missed \in BOOLEAN

HubInit ==
  /\ dialed = 0 /\ agent = NoSocket
  /\ link = [s \in Socket |-> "unused"]
  /\ inbox = [s \in Socket |-> <<>>]
  /\ reader = [s \in Socket |-> "none"]
  /\ done = [s \in Socket |-> FALSE]
  /\ client = NoSocket
  /\ out = [s \in Socket |-> <<>>]
  /\ offlines = {}
  /\ refreshing = [s \in Socket |-> "no"]
  /\ status = "offline"
  /\ call = [c \in Call |-> "idle"] /\ via = [c \in Call |-> NoSocket]
  /\ restarts = 0
  /\ missed = FALSE

-----------------------------------------------------------------------------
(***************************************************************************)
(* The Agent.  It uses one socket at a time and dials again when it loses  *)
(* it; a PC that loses power leaves a silent socket behind.                *)
(***************************************************************************)
Dial ==
  /\ agent = NoSocket /\ dialed < MaxSockets
  /\ dialed' = dialed + 1
  /\ agent' = dialed'
  /\ link' = [link EXCEPT ![dialed'] = "up"]
  /\ inbox' = [inbox EXCEPT ![dialed'] = <<"event">>]      \* agent_online
  /\ UNCHANGED <<hubVars, serverVars, callVars, restarts>>

\* Bound: a message is not sent again while it waits to be read.
NotQueued(s, message) == \A i \in DOMAIN inbox[s] : inbox[s][i] # message

SendHeartbeat ==
  /\ agent # NoSocket /\ link[agent] = "up"
  /\ NotQueued(agent, "event")
  /\ inbox' = [inbox EXCEPT ![agent] = Append(@, "event")]
  /\ UNCHANGED <<dialVars, link, hubVars, serverVars, callVars, restarts>>

Leave ==
  /\ agent # NoSocket
  /\ \E how \in {"silent", "cut"} :
       link' = [link EXCEPT ![agent] = IF @ = "up" THEN how ELSE @]
  /\ agent' = NoSocket
  /\ UNCHANGED <<dialed, inbox, hubVars, serverVars, callVars, restarts>>

-----------------------------------------------------------------------------
(***************************************************************************)
(* Goroutines of a socket.                                                 *)
(***************************************************************************)
\* ServeHTTP, registerClient: handlers of two sockets run in either order.
Register(s) ==
  /\ reader[s] = "none" /\ link[s] # "unused"
  /\ reader' = [reader EXCEPT ![s] = "reading"]
  /\ done' = IF client # NoSocket THEN [done EXCEPT ![client] = TRUE] ELSE done
  /\ client' = s
  /\ UNCHANGED <<dialVars, link, inbox, out, serverVars, callVars, restarts>>

(* completeCommand: whoever waits for the result returns with it.           *)
CompleteCommand(c) == call' = [call EXCEPT ![c] = IF @ = "waiting" THEN "idle" ELSE @]

(* readLoop handles one message after another; every event of a connected   *)
(* Agent tells its status, agent_online starts a query besides.             *)
Read(s) ==
  /\ reader[s] = "reading" /\ inbox[s] # <<>>
  /\ inbox' = [inbox EXCEPT ![s] = Tail(@)]
  /\ IF Head(inbox[s]) = "event"
       THEN /\ status' = "available"
            /\ missed' = (client = NoSocket)
            /\ refreshing' \in {refreshing, [refreshing EXCEPT ![s] = "asking"]}
            /\ UNCHANGED callVars
       ELSE /\ CompleteCommand(Head(inbox[s]))
            /\ UNCHANGED <<via, status, missed, refreshing>>
  /\ UNCHANGED <<dialVars, link, hubVars, offlines, restarts>>

(* Mutants: every socket that ends reports the Agent offline; none does.    *)
UnregisterLoudly(s) ==
  /\ client' = IF client = s THEN NoSocket ELSE client
  /\ offlines' = offlines \cup {s}
UnregisterSilently(s) ==
  /\ client' = IF client = s THEN NoSocket ELSE client
  /\ UNCHANGED offlines

(* unregisterClient: only the current socket reports the Agent offline.     *)
Unregister(s) ==
  /\ client' = IF client = s THEN NoSocket ELSE client
  /\ offlines' = IF client = s THEN offlines \cup {s} ELSE offlines

Finish(s) ==
  /\ Unregister(s)
  /\ reader' = [reader EXCEPT ![s] = "gone"]
  /\ done' = [done EXCEPT ![s] = TRUE]
  /\ inbox' = [inbox EXCEPT ![s] = <<>>]
  /\ out' = [out EXCEPT ![s] = <<>>]

ReadFails(s) ==
  /\ reader[s] = "reading" /\ link[s] = "cut"
  /\ Finish(s)
  /\ UNCHANGED <<dialVars, link, refreshing, status, missed, callVars, restarts>>

(* writeLoop sends what is queued, and closes a socket that was replaced;   *)
(* on a silent link it is stuck.                                            *)
Write(s) ==
  /\ reader[s] = "reading" /\ link[s] = "up" /\ out[s] # <<>> /\ ~done[s]
  /\ out' = [out EXCEPT ![s] = Tail(@)]
  /\ NotQueued(s, Head(out[s]))
  /\ inbox' \in {inbox, [inbox EXCEPT ![s] = Append(@, Head(out[s]))]}   \* the Agent answers
  /\ UNCHANGED <<dialVars, link, reader, done, client, serverVars, callVars, restarts>>

Close(s) ==
  /\ link' = [link EXCEPT ![s] = "cut"]
  /\ agent' = IF agent = s THEN NoSocket ELSE agent

CloseReplaced(s) ==
  /\ reader[s] = "reading" /\ done[s] /\ link[s] = "up"
  /\ Close(s)
  /\ UNCHANGED <<dialed, inbox, hubVars, serverVars, callVars, restarts>>

(* Mutant: the watchdog watches without closing anything.                   *)
WatchdogIdle(s) == FALSE /\ UNCHANGED wsVars

(* watchdog: nothing was read for heartbeatTimeout.                         *)
Watchdog(s) ==
  /\ reader[s] = "reading" /\ link[s] = "silent" /\ inbox[s] = <<>> /\ ~done[s]
  /\ done' = [done EXCEPT ![s] = TRUE]
  /\ Close(s)
  /\ UNCHANGED <<dialed, inbox, reader, client, out, serverVars, callVars, restarts>>

(* The process ends, for instance because two goroutines have closed the    *)
(* same done channel: close() looks and closes in two steps.                *)
RestartServer ==
  /\ restarts < MaxRestarts
  /\ restarts' = restarts + 1
  /\ link' = [s \in Socket |-> IF link[s] = "unused" THEN "unused" ELSE "cut"]
  /\ agent' = NoSocket
  /\ reader' = [s \in Socket |-> IF reader[s] = "none" /\ link[s] = "unused" THEN "none" ELSE "gone"]
  /\ done' = [s \in Socket |-> reader'[s] = "gone"]
  /\ inbox' = [s \in Socket |-> <<>>] /\ out' = [s \in Socket |-> <<>>]
  /\ client' = NoSocket
  /\ offlines' = {}
  /\ refreshing' = [s \in Socket |-> "no"]
  /\ call' = [c \in Call |-> "idle"] /\ via' = [c \in Call |-> NoSocket]
  /\ missed' = TRUE
  /\ UNCHANGED <<dialed, status>>

-----------------------------------------------------------------------------
(***************************************************************************)
(* The Server's side of the events.                                        *)
(***************************************************************************)
Offline(s) ==
  /\ s \in offlines
  /\ offlines' = offlines \ {s}
  /\ status' = "offline"
  /\ missed' = FALSE
  /\ UNCHANGED <<dialVars, link, inbox, hubVars, refreshing, callVars, restarts>>

\* refreshConnectedPCStatus: the answer comes from whatever socket is current.
RefreshAnswered(s) ==
  /\ refreshing[s] = "asking"
  /\ refreshing' \in {[refreshing EXCEPT ![s] = "no"]}
       \cup {[refreshing EXCEPT ![s] = "answered"] : t \in {t \in {client} \cap Socket : link[t] = "up"}}
  /\ UNCHANGED <<dialVars, link, inbox, hubVars, offlines, status, missed, callVars, restarts>>

RefreshWrites(s) ==
  /\ refreshing[s] = "answered"
  /\ refreshing' = [refreshing EXCEPT ![s] = "no"]
  /\ status' = "available"
  /\ missed' = (missed \/ client = NoSocket)
  /\ UNCHANGED <<dialVars, link, inbox, hubVars, offlines, callVars, restarts>>

-----------------------------------------------------------------------------
(***************************************************************************)
(* Calls: clientForStart, sendCommandToClient.                             *)
(***************************************************************************)
Move(c, to) == call' = [call EXCEPT ![c] = to]

Pick(c) ==
  /\ call[c] \in {"idle", "waking"} /\ client # NoSocket
  /\ Move(c, "sending")
  /\ via' = [via EXCEPT ![c] = client]
  /\ UNCHANGED <<dialVars, link, inbox, hubVars, serverVars, restarts>>

WakeUp(c) ==
  /\ call[c] = "idle" /\ client = NoSocket
  /\ Move(c, "waking")
  /\ UNCHANGED <<dialVars, link, inbox, hubVars, serverVars, via, restarts>>

WakeFails(c) ==
  /\ call[c] = "waking"
  /\ Move(c, "idle")
  /\ UNCHANGED <<dialVars, link, inbox, hubVars, serverVars, via, restarts>>

\* The command waits for room in client.send without a time-out of its own.
Send(c) ==
  /\ call[c] = "sending"
  /\ Len(out[via[c]]) < SendBuffer /\ reader[via[c]] # "gone"
  /\ out' = [out EXCEPT ![via[c]] = Append(@, c)]
  /\ Move(c, "waiting")
  /\ UNCHANGED <<dialVars, link, inbox, reader, done, client, serverVars, via, restarts>>

GiveUp(c) ==
  /\ \/ call[c] \in {"sending", "waiting"} /\ done[via[c]]      \* ErrAgentOffline
     \/ call[c] = "waiting"                                     \* command_timeout
  /\ Move(c, "idle")
  /\ UNCHANGED <<dialVars, link, inbox, hubVars, serverVars, via, restarts>>

HubNext ==
  \/ Dial \/ SendHeartbeat \/ Leave \/ RestartServer
  \/ \E s \in Socket :
       \/ Register(s) \/ Read(s) \/ ReadFails(s) \/ Write(s) \/ CloseReplaced(s) \/ Watchdog(s)
       \/ Offline(s) \/ RefreshAnswered(s) \/ RefreshWrites(s)
  \/ \E c \in Call : Pick(c) \/ WakeUp(c) \/ WakeFails(c) \/ Send(c) \/ GiveUp(c)

(***************************************************************************)
(* Fairness: the goroutines run, timers fire and a connected Agent sends   *)
(* heartbeats.  Nothing says that the Agent dials, leaves or answers.      *)
(***************************************************************************)
HubFairness ==
  /\ WF_wsVars(SendHeartbeat)
  /\ \A s \in Socket :
       /\ WF_wsVars(Register(s)) /\ WF_wsVars(Read(s)) /\ WF_wsVars(ReadFails(s)) /\ WF_wsVars(Write(s))
       /\ WF_wsVars(CloseReplaced(s)) /\ WF_wsVars(Watchdog(s))
       /\ WF_wsVars(Offline(s)) /\ WF_wsVars(RefreshAnswered(s)) /\ WF_wsVars(RefreshWrites(s))
  /\ \A c \in Call : WF_wsVars(WakeFails(c)) /\ WF_wsVars(Send(c)) /\ WF_wsVars(GiveUp(c))

HubSpec == HubInit /\ [][HubNext]_wsVars /\ HubFairness

-----------------------------------------------------------------------------
(***************************************************************************)
(* A socket that was replaced never reports the Agent offline: when an     *)
(* agent_offline is emitted, no other socket of the PC is registered, and  *)
(* every one that is still being read has been told to close.              *)
(***************************************************************************)
ReplacedIsSilent ==
  [][offlines' \ offlines # {} =>
       client' = NoSocket /\ \A s \in Socket : reader'[s] = "reading" => done'[s]]_wsVars

(***************************************************************************)
(* Every call returns: one that waits for room in the buffer of a silent   *)
(* socket is released by the watchdog.                                     *)
(***************************************************************************)
CallsReturn == \A c \in Call : call[c] # "idle" ~> call[c] = "idle"

(***************************************************************************)
(* The status settles on the truth: available once the Agent stays         *)
(* connected, offline once it stays away, unless the end of its connection *)
(* was missed: a restart, a get_status answer or the unread event of a     *)
(* replaced socket, written when the last socket was already gone.         *)
(***************************************************************************)
PresenceSettles ==
  /\ <>[](agent # NoSocket) => <>[](status = "available")
  /\ <>[](agent = NoSocket /\ ~missed) => <>[](status = "offline")
=============================================================================
