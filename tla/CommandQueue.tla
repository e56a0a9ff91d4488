---------------------------- MODULE CommandQueue ----------------------------
(***************************************************************************)
(* What the queue of PC commands at the Cloud promises the dashboard: a    *)
(* command that was queued is answered, its answer stands, and success is  *)
(* answered only for a command the Agent has really executed.  A command   *)
(* may be executed more than once; edge_pc_commands.go calls that safe.    *)
(***************************************************************************)
CONSTANT Command

VARIABLES state,    \* what the Cloud shows of a command
          ran       \* the commands the Agent has executed

vars == <<state, ran>>

Init == state = [c \in Command |-> "none"] /\ ran = {}

Request(c) ==
  /\ state[c] = "none"
  /\ state' = [state EXCEPT ![c] = "pending"]
  /\ UNCHANGED ran

Execute(c) ==
  /\ state[c] # "none"
  /\ ran' = ran \cup {c}
  /\ UNCHANGED state

Answer(c) ==
  /\ state[c] = "pending"
  /\ state' = [state EXCEPT ![c] = IF c \in ran THEN "succeeded" ELSE "failed"]
  /\ UNCHANGED ran

\* An execution the Controller could not confirm is answered as a failure.
Doubt(c) ==
  /\ state[c] = "pending"
  /\ state' = [state EXCEPT ![c] = "failed"]
  /\ UNCHANGED ran

Next == \E c \in Command : Request(c) \/ Execute(c) \/ Answer(c) \/ Doubt(c)

Spec ==
  /\ Init /\ [][Next]_vars
  /\ \A c \in Command : WF_vars(Answer(c) \/ Doubt(c))
=============================================================================
