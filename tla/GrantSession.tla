--------------------------- MODULE GrantSession ---------------------------
(***************************************************************************)
(* The life of a game access grant on ONE gaming PC: how the API node and  *)
(* the Agent on that PC agree on when a session starts, how long it lasts, *)
(* when it is over and how much unused time goes back to the customer.     *)
(*                                                                         *)
(* The API node is a set of concurrent request handlers (Worker), one of   *)
(* them (Sync) the serialised edge synchronisation loop.  A handler runs a *)
(* database transaction, sends a command to the Agent, waits for the reply *)
(* with a timeout, and runs another transaction; nothing is locked while   *)
(* it waits.  The Agent is external: it is modelled from what the code     *)
(* relies on, namely that it runs one session at a time, applies a start   *)
(* and an extension once per grant id, and reports events.                 *)
(*                                                                         *)
(* A core session id is identified with the root grant that started it,    *)
(* and 0 stands for SQL NULL in a time column (the clock starts at 1).     *)
(***************************************************************************)
EXTENDS Integers, FiniteSets, Sums

CONSTANTS
  Grant,           \* ids of rows of game_access_grants on this PC
  Worker,          \* request handlers of the API node
  Sync,            \* the worker that is the edge loop (edgeSyncMu)
  NoGrant,         \* SQL NULL in a grant reference
  Balance,         \* grants bought with a player's saved balance; the others
                   \* are redeemed vouchers
  Dur,             \* purchased time of each grant
  Grace,           \* SessionGraceSeconds
  Reported,        \* countdowns an Agent, possibly stale or old, may report
  Reports,         \* what the Agent's replies say of the session's end: its
                   \* "deadline", the time "remaining", or "nothing"
  FailureEvents,   \* TRUE: the Agent reports a rejected command as an event
  Lossy,           \* TRUE: a command can be lost on its way to the Agent
  MaxGrants,       \* bound on the grants that are sold
  Bounds           \* bound on the clock, the commands ever sent to the Agent,
                   \* and the faults: the values these may have together
                   \* (faults are crashes, timeouts, lost commands, failures
                   \* before a command, reports that the Agent is offline)

ASSUME GrantAssumption ==
  /\ IsFiniteSet(Grant) /\ NoGrant \notin Grant
  /\ Sync \in Worker
  /\ Balance \subseteq Grant
  /\ Dur \in [Grant -> Nat \ {0}]
  /\ Grace \in Nat
  /\ Reported \subseteq Nat
  /\ Reports \in {"deadline", "remaining", "nothing"}
  /\ FailureEvents \in BOOLEAN
  /\ Lossy \in BOOLEAN
  /\ MaxGrants \in Nat
  /\ Bounds \subseteq Nat \X Nat \X Nat

VARIABLES
  now,       \* the database clock
  status,    \* game_access_grants.status
  parent,    \* .parent_grant_id
  core,      \* .core_session_id
  dur,       \* .duration_seconds
  accepted,  \* .accepted_at
  planned,   \* .planned_ends_at
  grace,     \* .grace_ends_at
  ended,     \* .ended_at
  remaining, \* .remaining_seconds
  credited,  \* the time given back to the profile: the grant's session-return
             \* row in the ledger
  voucher,   \* the time given back by the voucher of .returned_voucher_id
  owned,     \* the grants with a player_id
  refunded,  \* the grants with a session-refund row in the ledger
  pcStatus,  \* pc_refs.status_cache
  proc,      \* where each handler is, and its local variables
  reply,     \* the answer waiting for each handler
  cmds,      \* commands sent and not yet executed by the Agent
  wire,      \* events emitted by the Agent and not yet processed
  agent,     \* the Agent
  faults,    \* number of faults so far
  calls,     \* number of commands sent: the next command id
  played     \* time the Agent really gave to each session (observer)

dbVars   == <<status, parent, core, dur, accepted, planned, grace, ended,
              remaining, credited, voucher, refunded, owned, pcStatus>>
apiVars  == <<proc, reply, faults>>
netVars  == <<cmds, wire, calls>>
vars     == <<now, dbVars, apiVars, netVars, agent, played>>

-----------------------------------------------------------------------------
(* Types.                                                                   *)

(* "offline_failed" is start_failed with a last_error of "agent offline",   *)
(* the only failed start that the edge loop tries again.                    *)
Status == {"none", "pending", "applying", "accepted", "extended", "ended",
           "start_failed", "offline_failed"}
OrNull == Grant \union {NoGrant}
Step == {"picked", "merge", "send", "mark", "read", "start", "extend", "admin_end",
         "kiosk_end"}
Idle == [at |-> "idle", g |-> NoGrant, root |-> NoGrant, call |-> 0,
         kept |-> 0, merge |-> FALSE]
Busy == [at: Step, g: Grant, root: Grant, call: Nat, kept: Nat, merge: BOOLEAN]
Reply == [kind: {"none", "ok", "error"}, val: Nat]
Command == [id: Nat, op: {"start", "extend", "end"}, g: Grant, root: Grant,
            add: Nat]
Event == [kind: {"started", "extended", "ended", "expired", "failed"},
          g: Grant, root: OrNull, val: Nat, at: Nat]
AgentState == [sess: OrNull, ends: Nat, ran: SUBSET Grant,
               applied: SUBSET Grant]

NoReply == [kind |-> "none", val |-> 0]

TypeOK ==
  /\ now \in Nat
  /\ status \in [Grant -> Status]
  /\ parent \in [Grant -> OrNull]
  /\ core \in [Grant -> OrNull]
  /\ dur \in [Grant -> Nat]
  /\ accepted \in [Grant -> Nat]
  /\ planned \in [Grant -> Nat]
  /\ grace \in [Grant -> Nat]
  /\ ended \in [Grant -> Nat]
  /\ remaining \in [Grant -> Nat]
  /\ credited \in [Grant -> Nat]
  /\ voucher \in [Grant -> Nat]
  /\ refunded \subseteq Grant
  /\ owned \subseteq Grant
  /\ pcStatus \in {"available", "occupied", "offline"}
  /\ proc \in [Worker -> Busy \union {Idle}]
  /\ reply \in [Worker -> Reply]
  /\ cmds \subseteq Command
  /\ wire \subseteq Event
  /\ agent \in AgentState
  /\ faults \in Nat
  /\ calls \in Nat
  /\ played \in [Grant -> Nat]

Init ==
  /\ now = 1
  /\ status = [g \in Grant |-> "none"]
  /\ parent = [g \in Grant |-> NoGrant]
  /\ core = [g \in Grant |-> NoGrant]
  /\ dur = [g \in Grant |-> 0]
  /\ accepted = [g \in Grant |-> 0]
  /\ planned = [g \in Grant |-> 0]
  /\ grace = [g \in Grant |-> 0]
  /\ ended = [g \in Grant |-> 0]
  /\ remaining = [g \in Grant |-> 0]
  /\ credited = [g \in Grant |-> 0]
  /\ voucher = [g \in Grant |-> 0]
  /\ refunded = {}
  /\ owned = {}
  /\ pcStatus = "available"
  /\ proc = [w \in Worker |-> Idle]
  /\ reply = [w \in Worker |-> NoReply]
  /\ cmds = {}
  /\ wire = {}
  /\ agent = [sess |-> NoGrant, ends |-> 0, ran |-> {}, applied |-> {}]
  /\ faults = 0
  /\ calls = 0
  /\ played = [g \in Grant |-> 0]

-----------------------------------------------------------------------------
(* Reading a grant row.                                                     *)

Larger(a, b) == IF a > b THEN a ELSE b
Smaller(a, b) == IF a < b THEN a ELSE b

(* COALESCE(planned_ends_at, accepted_at + duration)                        *)
Deadline(g) == IF planned[g] # 0 THEN planned[g] ELSE accepted[g] + dur[g]

(* COALESCE(grace_ends_at, planned_ends_at, accepted_at + duration)         *)
ExpiresAt(g) == IF grace[g] # 0 THEN grace[g] ELSE Deadline(g)

(* The rows activeGrantForPC chooses from, and the one it takes.            *)
ActiveGrants == {g \in Grant : /\ status[g] = "accepted"
                               /\ parent[g] = NoGrant
                               /\ ExpiresAt(g) > now}
IsActiveGrantForPC(g) ==
  /\ g \in ActiveGrants
  /\ \A h \in ActiveGrants : accepted[h] <= accepted[g]

(* Mutants: the time left with its grace period, and without the GREATEST.  *)
TimeLeftWithGrace(g) == Larger(ExpiresAt(g) - now, 0)
TimeLeftUnclamped(g) == Deadline(g) - now

TimeLeft(g) == Larger(Deadline(g) - now, 0)

(* Mutant: the Agent's countdown is trusted.                                *)
UnboundedSessionRemainder(left, told) == IF told > 0 THEN told ELSE left

(* boundedSessionRemainder: an Agent's countdown can only lower the         *)
(* remainder of the planned end.                                            *)
BoundedSessionRemainder(left, told) ==
  IF left <= 0 THEN 0
  ELSE IF told <= 0 \/ told > left THEN left ELSE told

(* The new end of a session that an extension reply stands for, given the   *)
(* end in force before the command was sent plus the time added.            *)
ReportedDeadline(told, fallback) ==
  IF told = 0 THEN fallback
  ELSE IF Reports = "remaining" THEN now + told ELSE told

-----------------------------------------------------------------------------
(* Handlers and commands.                                                   *)

At(w, step) == proc[w].at = step
Goto(w, step) == proc' = [proc EXCEPT ![w].at = step]

(* Every command has its own id, but for the starts of one grant, which     *)
(* share "start_<grant>": the last handler to send one takes the pending    *)
(* entry over, and whoever stops waiting removes it.  call = 0 is a handler *)
(* that waits without an entry.                                             *)
Forgetting(g, w, p) ==
  [v \in Worker |-> IF v = w THEN p
                    ELSE IF At(v, "start") /\ proc[v].g = g
                         THEN [proc[v] EXCEPT !.call = 0] ELSE proc[v]]
Awaits(w, c) ==
  /\ proc[w].call # 0
  /\ \/ proc[w].call = c.id
     \/ At(w, "start") /\ c.op = "start" /\ proc[w].g = c.g

Return(w) == proc' = IF At(w, "start") THEN Forgetting(proc[w].g, w, Idle)
                     ELSE [proc EXCEPT ![w] = Idle]

(* Send a command for the grant that handler w works on, and wait.          *)
Dispatch(w, op, step, p, add) ==
  /\ <<now, calls + 1, faults>> \in Bounds
  /\ calls' = calls + 1
  /\ cmds' = cmds \union {[id |-> calls + 1, op |-> op, g |-> p.g,
                           root |-> p.root, add |-> add]}
  /\ LET waiting == [p EXCEPT !.at = step, !.call = calls + 1]
     IN  proc' = IF op = "start" THEN Forgetting(p.g, w, waiting)
                 ELSE [proc EXCEPT ![w] = waiting]
  /\ reply' = [reply EXCEPT ![w] = NoReply]
  /\ UNCHANGED faults

Take(w) == reply' = [reply EXCEPT ![w] = NoReply]

Fault == <<now, calls, faults + 1>> \in Bounds /\ faults' = faults + 1

(* A command failed: the Agent refused it, or its answer did not come: the  *)
(* connection was lost or the wait timed out.                               *)
Failed(w) == \/ reply[w].kind = "error" /\ UNCHANGED faults
             \/ reply[w].kind = "none" /\ Fault
             \/ /\ reply[w].kind = "none"
                /\ \A c \in cmds : ~ Awaits(w, c)
                /\ UNCHANGED faults

HasReply(w, kind) == reply[w].kind = kind

deadlines == <<accepted, planned, grace>>
returns   == <<credited, voucher, refunded>>
settled   == <<ended, remaining, returns, owned>>

MoreGrants == Cardinality({g \in Grant : status[g] # "none"}) < MaxGrants

(* The transaction of redeemPlayerBalanceToPC or redeemVoucherToPC for a    *)
(* free PC: the balance is debited or the voucher used up, and the root     *)
(* grant committed, the player's own only if it was the balance.            *)
RedeemStart(w, g) ==
  /\ w # Sync /\ At(w, "idle")
  /\ status[g] = "none" /\ MoreGrants
  /\ pcStatus = "available"
  /\ status' = [status EXCEPT ![g] = "pending"]
  /\ dur' = [dur EXCEPT ![g] = Dur[g]]
  /\ owned' = owned \union ({g} \intersect Balance)
  /\ proc' = [proc EXCEPT ![w] = [Idle EXCEPT !.at = "send", !.g = g,
                                              !.root = g]]
  /\ UNCHANGED <<now, parent, core, deadlines, ended, remaining, returns,
                 pcStatus, reply, faults, netVars, agent, played>>

(* The same for an occupied PC, with the session QR: a child of the active  *)
(* grant is committed, and extendGrantSession called.  Who extends an       *)
(* ownerless session with a balance becomes its owner, as who pays for an   *)
(* extension does in applyPaymentSuccess.                                   *)
RedeemExtend(w, g) ==
  /\ w # Sync /\ At(w, "idle")
  /\ status[g] = "none" /\ MoreGrants
  /\ pcStatus = "occupied"
  /\ \E root \in Grant :
       /\ IsActiveGrantForPC(root)
       /\ core[root] # NoGrant
       /\ parent' = [parent EXCEPT ![g] = root]
       /\ core' = [core EXCEPT ![g] = core[root]]
       /\ owned' = IF g \in Balance THEN owned \union {g, root} ELSE owned
       /\ proc' = [proc EXCEPT ![w] = [Idle EXCEPT !.at = "mark", !.g = g,
                                                   !.root = root]]
  /\ status' = [status EXCEPT ![g] = "pending"]
  /\ dur' = [dur EXCEPT ![g] = Dur[g]]
  /\ UNCHANGED <<now, deadlines, ended, remaining, returns, pcStatus, reply, faults,
                 netVars, agent, played>>

(* StartSession, after the transaction.                                     *)
SendStart(w) ==
  /\ At(w, "send")
  /\ Dispatch(w, "start", "start", [proc[w] EXCEPT !.kept = now + Dur[proc[w].g]],
              dur[proc[w].g])
  /\ UNCHANGED <<now, dbVars, wire, agent, played>>

(* Making the session QR, or moving the player off another PC, fails before *)
(* the command is sent.  refundPlayerBalance returns the debit of a grant   *)
(* that is still pending without a core session; a voucher grant is marked  *)
(* failed whatever became of it.                                            *)
RefundPlayerBalance(w) ==
  /\ w # Sync /\ At(w, "send") /\ Fault
  /\ LET g == proc[w].g
         refund == g \in Balance /\ status[g] = "pending" /\ core[g] = NoGrant
     IN  /\ status' = IF g \notin Balance \/ refund
                      THEN [status EXCEPT ![g] = "start_failed"] ELSE status
         /\ refunded' = IF refund THEN refunded \union {g} ELSE refunded
  /\ Return(w)
  /\ UNCHANGED <<now, parent, core, dur, deadlines, ended, remaining, credited,
                 voucher, owned, pcStatus, reply, netVars, agent, played>>

(* Mutant: only the starts that failed are tried again.                     *)
SyncPickFailedOnly(g) ==
  /\ At(Sync, "idle")
  /\ status[g] = "offline_failed"
  /\ parent[g] = NoGrant
  /\ pcStatus = "available"
  /\ proc' = [proc EXCEPT ![Sync] = [Idle EXCEPT !.at = "picked", !.g = g,
                                                 !.root = g]]
  /\ UNCHANGED <<now, dbVars, reply, faults, netVars, agent, played>>

(* A row of startPendingEdgeGrants' query.  The rows are read in one go and *)
(* worked off one by one, each waiting for the Agent: what the query saw of *)
(* a row may be stale when its turn comes.                                  *)
SyncPick(g) ==
  /\ At(Sync, "idle")
  /\ status[g] \in {"pending", "offline_failed"}
  /\ parent[g] = NoGrant
  /\ pcStatus = "available"
  /\ proc' = [proc EXCEPT ![Sync] = [Idle EXCEPT !.at = "picked", !.g = g,
                                                 !.root = g]]
  /\ UNCHANGED <<now, dbVars, reply, faults, netVars, agent, played>>

(* The turn of the row: activeGrantForPC is asked, or the loop remembers a  *)
(* session it started itself.  What was found may be over, and what was not *)
(* found may be there, when the loop acts on it: without a session the      *)
(* grant is started, after the player's session elsewhere was closed.       *)
SyncLookup ==
  /\ At(Sync, "picked")
  /\ \/ ActiveGrants = {} /\ Goto(Sync, "send")
     \/ \E root \in Grant :
          /\ IsActiveGrantForPC(root)
          /\ core[root] # NoGrant
          /\ proc' = [proc EXCEPT ![Sync].at = "merge", ![Sync].root = root]
  /\ UNCHANGED <<now, dbVars, reply, faults, netVars, agent, played>>

(* With a session the grant is merged into it as an extension, by           *)
(* mergeGrantIntoActiveSession, unless it is one already.                   *)
SyncMerge ==
  /\ At(Sync, "merge")
  /\ LET g == proc[Sync].g
         root == proc[Sync].root
     IN  IF parent[g] = NoGrant
         THEN /\ status' = [status EXCEPT ![g] = "pending"]
              /\ parent' = [parent EXCEPT ![g] = root]
              /\ core' = [core EXCEPT ![g] = core[root]]
              /\ proc' = [proc EXCEPT ![Sync].at = "mark", ![Sync].merge = TRUE]
         ELSE UNCHANGED <<status, parent, core>> /\ Return(Sync)
  /\ UNCHANGED <<now, dur, deadlines, settled, pcStatus, reply, faults, netVars,
                 agent, played>>

(* A row of startPendingEdgeExtensions' query.                              *)
SyncExtend(g) ==
  /\ At(Sync, "idle")
  /\ status[g] = "pending"
  /\ \E root \in Grant :
       /\ parent[g] = root
       /\ status[root] = "accepted"
       /\ core[root] # NoGrant
       /\ proc' = [proc EXCEPT ![Sync] = [Idle EXCEPT !.at = "mark", !.g = g,
                                                      !.root = root]]
  /\ UNCHANGED <<now, dbVars, reply, faults, netVars, agent, played>>

-----------------------------------------------------------------------------
(* extendGrantSession.                                                      *)

(* mergeGrantIntoActiveSession puts a grant it could not apply back into    *)
(* the queue of roots, if it is pending.                                    *)
Unmerge(w, st) ==
  LET g == proc[w].g IN
  IF proc[w].merge /\ st[g] = "pending"
  THEN /\ parent' = [parent EXCEPT ![g] = NoGrant]
       /\ core' = [core EXCEPT ![g] = NoGrant]
  ELSE UNCHANGED <<parent, core>>

(* Claim the child: only one that is pending, or was already claimed.       *)
MarkApplying(w) ==
  /\ At(w, "mark")
  /\ LET g == proc[w].g IN
       /\ status' = IF status[g] = "pending"
                    THEN [status EXCEPT ![g] = "applying"] ELSE status
       /\ IF status[g] \in {"pending", "applying"} THEN Goto(w, "read")
                                                   ELSE Return(w)
  /\ UNCHANGED <<now, parent, core, dur, deadlines, settled, pcStatus, reply, faults,
                 netVars, agent, played>>

(* Remember the end in force, and send the command.                         *)
SendExtend(w) ==
  /\ At(w, "read")
  /\ LET g == proc[w].g
         root == proc[w].root
     IN  /\ status[root] = "accepted" /\ parent[root] = NoGrant
         /\ Dispatch(w, "extend", "extend",
                     [proc[w] EXCEPT !.kept = Larger(Deadline(root), now) + Dur[g]],
                     Dur[g])
  /\ UNCHANGED <<now, dbVars, wire, agent, played>>

(* No accepted root: an error, before any command.                          *)
NoSessionToExtend(w) ==
  /\ At(w, "read")
  /\ ~ (status[proc[w].root] = "accepted" /\ parent[proc[w].root] = NoGrant)
  /\ Return(w)
  /\ UNCHANGED <<now, dbVars, reply, faults, netVars, agent, played>>

(* Mutant: the child's status is not looked at again after the wait.        *)
ExtendOkUnchecked(w) ==
  /\ At(w, "extend") /\ HasReply(w, "ok")
  /\ LET g == proc[w].g
         root == proc[w].root
         newEnds == ReportedDeadline(reply[w].val, proc[w].kept)
     IN  /\ dur' = [dur EXCEPT ![root] = @ + Dur[g]]
         /\ planned' = [planned EXCEPT ![root] = newEnds, ![g] = newEnds]
         /\ grace' = [grace EXCEPT ![root] = newEnds + Grace,
                                   ![g] = newEnds + Grace]
         /\ accepted' = [accepted EXCEPT ![g] = now]
         /\ status' = [status EXCEPT ![g] = "extended"]
         /\ core' = [core EXCEPT ![g] = root]
         /\ pcStatus' = "occupied"
         /\ UNCHANGED parent
  /\ Return(w) /\ Take(w)
  /\ UNCHANGED <<now, settled, faults, netVars, agent, played>>

(* The Agent confirmed: the transaction that adds the time to the root and  *)
(* settles the child, unless the child left "applying" meanwhile.           *)
ExtendOk(w) ==
  /\ At(w, "extend") /\ HasReply(w, "ok")
  /\ LET g == proc[w].g
         root == proc[w].root
         newEnds == ReportedDeadline(reply[w].val, proc[w].kept)
     IN  IF status[g] = "applying"
         THEN /\ dur' = [dur EXCEPT ![root] = @ + Dur[g]]
              /\ planned' = [planned EXCEPT ![root] = newEnds, ![g] = newEnds]
              /\ grace' = [grace EXCEPT ![root] = newEnds + Grace,
                                        ![g] = newEnds + Grace]
              /\ accepted' = [accepted EXCEPT ![g] = now]
              /\ status' = [status EXCEPT ![g] = "extended"]
              /\ core' = [core EXCEPT ![g] = root]
              /\ pcStatus' = "occupied"
              /\ UNCHANGED parent
         ELSE /\ UNCHANGED <<dur, deadlines, status, pcStatus>>
              /\ IF status[g] = "extended" THEN UNCHANGED <<parent, core>>
                                           ELSE Unmerge(w, status)
  /\ Return(w) /\ Take(w)
  /\ UNCHANGED <<now, settled, faults, netVars, agent, played>>

(* Mutant: an extension without an answer is closed instead of retried.     *)
ExtendErrorCloses(w) ==
  /\ At(w, "extend") /\ Failed(w)
  /\ status' = [status EXCEPT ![proc[w].g] = "ended"]
  /\ UNCHANGED <<parent, core>>
  /\ Return(w) /\ Take(w)
  /\ UNCHANGED <<now, dur, deadlines, settled, pcStatus, netVars, agent, played>>

(* The Agent refused, went away or did not answer in time: the child goes   *)
(* back to pending.                                                         *)
ExtendError(w) ==
  /\ At(w, "extend") /\ Failed(w)
  /\ LET g == proc[w].g
         st == IF status[g] = "applying"
               THEN [status EXCEPT ![g] = "pending"] ELSE status
     IN  status' = st /\ Unmerge(w, st)
  /\ Return(w) /\ Take(w)
  /\ UNCHANGED <<now, dur, deadlines, settled, pcStatus, netVars, agent, played>>

-----------------------------------------------------------------------------
(* The answer to start_session.                                             *)

(* Accepted, whatever the row has become since the command was sent.        *)
StartOk(w) ==
  /\ At(w, "start") /\ HasReply(w, "ok")
  /\ LET g == proc[w].g
         ends == IF Reports = "deadline" THEN reply[w].val ELSE proc[w].kept
     IN  /\ status' = [status EXCEPT ![g] = "accepted"]
         /\ core' = [core EXCEPT ![g] = g]
         /\ accepted' = [accepted EXCEPT ![g] = now]
         /\ planned' = [planned EXCEPT ![g] = ends]
         /\ grace' = [grace EXCEPT ![g] = ends + Grace]
  /\ pcStatus' = "occupied"
  /\ Return(w) /\ Take(w)
  /\ UNCHANGED <<now, parent, dur, settled, faults, netVars, agent, played>>

(* Refused, the connection lost or no answer in time.  A balance grant      *)
(* stays pending for the edge loop; a voucher grant fails, and so does      *)
(* every grant the edge loop tried, with an error the loop retries if the   *)
(* Agent was offline.                                                       *)
StartError(w) ==
  /\ At(w, "start") /\ Failed(w)
  /\ LET g == proc[w].g IN
       IF w = Sync \/ g \notin Balance
       THEN \E failure \in {"start_failed"} \union
              (IF reply[w].kind = "none" THEN {"offline_failed"} ELSE {}) :
              status' = [status EXCEPT ![g] = failure]
       ELSE UNCHANGED status
  /\ Return(w) /\ Take(w)
  /\ UNCHANGED <<now, parent, core, dur, deadlines, settled, pcStatus, netVars,
                 agent, played>>

-----------------------------------------------------------------------------
(* Ending a session.                                                        *)

(* Mutant: the return is tied neither to its ledger key nor to its voucher. *)
FinishGrantAgain(grant, told) ==
  LET g == IF parent[grant] = NoGrant THEN grant ELSE parent[grant]
      left == BoundedSessionRemainder(TimeLeft(g), told)
      children == {c \in Grant : /\ parent[c] = g
                                 /\ status[c] \in {"pending", "extended"}}
  IN  IF status[g] # "accepted"
      THEN UNCHANGED dbVars
      ELSE /\ status' = [x \in Grant |->
                           IF x = g \/ x \in children THEN "ended" ELSE status[x]]
           /\ ended' = [x \in Grant |->
                          IF x = g \/ x \in children THEN now ELSE ended[x]]
           /\ remaining' = [remaining EXCEPT ![g] = left]
           /\ credited' = IF left > 0 /\ g \in owned
                          THEN [credited EXCEPT ![g] = left] ELSE credited
           /\ voucher' = IF left > 0 /\ g \notin owned
                         THEN [voucher EXCEPT ![g] = left] ELSE voucher
           /\ pcStatus' = "available"
           /\ UNCHANGED <<parent, core, dur, deadlines, refunded, owned>>

(* finishGrant: the transaction that ends the session a grant belongs to    *)
(* and gives its unused time back: to the owner, unless the ledger has the  *)
(* key, and without an owner by a voucher, unless the row has one.          *)
FinishGrant(grant, told) ==
  LET g == IF parent[grant] = NoGrant THEN grant ELSE parent[grant]
      left == BoundedSessionRemainder(TimeLeft(g), told)
      children == {c \in Grant : /\ parent[c] = g
                                 /\ status[c] \in {"pending", "extended"}}
  IN  IF status[g] # "accepted"
      THEN UNCHANGED dbVars
      ELSE /\ status' = [x \in Grant |->
                           IF x = g \/ x \in children THEN "ended" ELSE status[x]]
           /\ ended' = [x \in Grant |->
                          IF x = g \/ x \in children THEN now ELSE ended[x]]
           /\ remaining' = [remaining EXCEPT ![g] = left]
           /\ credited' = IF left > 0 /\ g \in owned /\ credited[g] = 0
                          THEN [credited EXCEPT ![g] = left] ELSE credited
           /\ voucher' = IF left > 0 /\ g \notin owned /\ voucher[g] = 0
                         THEN [voucher EXCEPT ![g] = left] ELSE voucher
           /\ pcStatus' = "available"
           /\ UNCHANGED <<parent, core, dur, deadlines, refunded, owned>>

(* handleAdminEndGrant, for any grant of the session: without a core        *)
(* session id there is nothing to end on the Agent.  The remainder is what  *)
(* the staff asks for, or else the time left before the Agent is asked.     *)
AdminEnd(w, g) ==
  /\ w # Sync /\ At(w, "idle")
  /\ status[g] # "none"
  /\ \E told \in (Reported \ {0}) \union
                 {IF status[g] = "accepted" THEN TimeLeft(g) ELSE 0} :
       IF core[g] = NoGrant
       THEN FinishGrant(g, told) /\ UNCHANGED <<apiVars, calls, cmds>>
       ELSE /\ Dispatch(w, "end", "admin_end",
                        [Idle EXCEPT !.g = g, !.root = core[g], !.kept = told], 0)
            /\ UNCHANGED dbVars
  /\ UNCHANGED <<now, wire, agent, played>>

(* handleAgentEndSession: the customer leaves at the kiosk.                 *)
KioskEnd(w, g) ==
  /\ w # Sync /\ At(w, "idle")
  /\ status[g] = "accepted" /\ core[g] # NoGrant
  /\ Dispatch(w, "end", "kiosk_end", [Idle EXCEPT !.g = g, !.root = core[g]], 0)
  /\ UNCHANGED <<now, dbVars, wire, agent, played>>

EndOk(w) ==
  /\ At(w, "admin_end") \/ At(w, "kiosk_end")
  /\ HasReply(w, "ok")
  /\ FinishGrant(proc[w].g, IF At(w, "admin_end") THEN proc[w].kept
                                                  ELSE reply[w].val)
  /\ Return(w) /\ Take(w)
  /\ UNCHANGED <<now, faults, netVars, agent, played>>

(* The Agent did not confirm: the grant is left alone.                      *)
EndError(w) ==
  /\ At(w, "admin_end") \/ At(w, "kiosk_end")
  /\ Failed(w)
  /\ Return(w) /\ Take(w)
  /\ UNCHANGED <<now, dbVars, netVars, agent, played>>

(* expireElapsedGrants, which runs before checkouts and admin lists: every  *)
(* grant whose time is over is ended, with the children of each.            *)
Expire ==
  LET over == {g \in Grant : status[g] = "accepted" /\ ExpiresAt(g) <= now}
      children == {c \in Grant : /\ parent[c] \in over
                                 /\ status[c] \in {"pending", "extended"}}
      live == {g \in Grant : status[g] = "accepted"} \ over
  IN  /\ over # {}
      /\ status' = [x \in Grant |->
                      IF x \in over \union children THEN "ended" ELSE status[x]]
      /\ ended' = [x \in Grant |-> IF x \in over THEN ExpiresAt(x)
                                   ELSE IF x \in children THEN now ELSE ended[x]]
      /\ remaining' = [x \in Grant |->
                         IF x \in over \union children THEN 0 ELSE remaining[x]]
      /\ pcStatus' = IF pcStatus = "occupied" /\ live = {} THEN "available"
                                                           ELSE pcStatus
      /\ UNCHANGED <<now, parent, core, dur, deadlines, returns, owned, apiVars,
                     netVars, agent, played>>

(* reconcileMissingProfileRemainders, which runs when the player signs in:  *)
(* a session recorded as ended before its planned end, with nothing         *)
(* returned, is given the difference.  A voucher it has that is not used    *)
(* becomes void.                                                            *)
MissingRemainder(g) ==
  /\ g \in owned
  /\ status[g] = "ended" /\ parent[g] = NoGrant
  /\ remaining[g] = 0 /\ credited[g] = 0
  /\ ended[g] # 0 /\ Deadline(g) > ended[g]

ReconcileMissingRemainders ==
  LET Given(old) == [g \in Grant |-> IF MissingRemainder(g)
                                     THEN Deadline(g) - ended[g] ELSE old[g]]
  IN  /\ \E g \in Grant : MissingRemainder(g)
      /\ credited' = Given(credited)
      /\ remaining' = Given(remaining)
      /\ \E used \in SUBSET {g \in Grant : MissingRemainder(g) /\ voucher[g] # 0} :
           voucher' = [g \in Grant |-> IF MissingRemainder(g) /\ g \notin used
                                       THEN 0 ELSE voucher[g]]
      /\ UNCHANGED <<now, status, parent, core, dur, deadlines, ended, refunded,
                     owned, pcStatus, apiVars, netVars, agent, played>>

-----------------------------------------------------------------------------
(* Failures, and reports of the Agent's state.                              *)

(* The API process dies, or the request is cancelled: the handler stops     *)
(* where it is, between two of its transactions.                            *)
Crash(w) ==
  /\ ~ At(w, "idle")
  /\ Fault /\ Return(w) /\ Take(w)
  /\ UNCHANGED <<now, dbVars, netVars, agent, played>>

(* A heartbeat or pc_status_changed, which carries the Agent's own state.   *)
Heartbeat ==
  /\ pcStatus' = IF agent.sess = NoGrant THEN "available" ELSE "occupied"
  /\ UNCHANGED <<now, status, parent, core, dur, deadlines, settled, apiVars,
                 netVars, agent, played>>

AgentOffline ==
  /\ Fault
  /\ pcStatus' = "offline"
  /\ UNCHANGED <<now, status, parent, core, dur, deadlines, settled, proc,
                 reply, netVars, agent, played>>

(* The connection breaks before a command was read from it.                 *)
LoseCommand ==
  /\ Lossy /\ Fault
  /\ \E c \in cmds : cmds' = cmds \ {c}
  /\ UNCHANGED <<now, dbVars, proc, reply, wire, calls, agent, played>>

-----------------------------------------------------------------------------
(* The Agent.  A command whose sender stopped waiting is executed all the   *)
(* same, and its answer is dropped.                                         *)

Answer(c, kind, val) ==
  /\ cmds' = cmds \ {c}
  /\ reply' = [w \in Worker |->
                 IF Awaits(w, c) /\ reply[w].kind = "none"
                 THEN [kind |-> kind, val |-> val]
                 ELSE reply[w]]
  /\ UNCHANGED <<now, dbVars, proc, faults, calls, played>>

Emit(kind, g, root, val) ==
  wire' = wire \union {[kind |-> kind, g |-> g, root |-> root, val |-> val,
                        at |-> now]}

(* What a reply says of the session's end; events always carry it.          *)
ToldInReply(ends) ==
  IF Reports = "deadline" THEN ends
  ELSE IF Reports = "remaining" THEN Larger(ends - now, 0) ELSE 0

Refuse(c) ==
  /\ IF FailureEvents /\ c.op # "end"
     THEN Emit("failed", c.g, IF c.op = "start" THEN NoGrant ELSE c.root, 0)
     ELSE UNCHANGED wire
  /\ Answer(c, "error", 0)
  /\ UNCHANGED agent

AgentStart(c) ==
  /\ c.op = "start"
  /\ IF agent.sess = NoGrant /\ c.g \notin agent.ran \union agent.applied
     THEN /\ agent' = [agent EXCEPT !.sess = c.g, !.ends = now + c.add,
                                    !.ran = @ \union {c.g}]
          /\ Emit("started", c.g, c.g, now + c.add)
          /\ Answer(c, "ok", ToldInReply(now + c.add))
     ELSE IF agent.sess = c.g
          THEN /\ UNCHANGED <<wire, agent>>
               /\ Answer(c, "ok", ToldInReply(agent.ends))
          ELSE Refuse(c)

(* An extension is applied once per grant id; a repeated command is told    *)
(* the end that is in force.                                                *)
AgentExtend(c) ==
  /\ c.op = "extend"
  /\ IF agent.sess = c.root /\ c.g \notin agent.ran
     THEN IF c.g \in agent.applied
          THEN /\ UNCHANGED <<wire, agent>>
               /\ Answer(c, "ok", ToldInReply(agent.ends))
          ELSE LET ends == Larger(agent.ends, now) + c.add IN
               /\ agent' = [agent EXCEPT !.ends = ends,
                                         !.applied = @ \union {c.g}]
               /\ Emit("extended", c.g, c.root, ends)
               /\ Answer(c, "ok", ToldInReply(ends))
     ELSE Refuse(c)

Stopped == [agent EXCEPT !.sess = NoGrant, !.ends = 0]

AgentEnd(c) ==
  /\ c.op = "end"
  /\ IF agent.sess = c.root
     THEN \E told \in Reported :
            /\ agent' = Stopped
            /\ Emit("ended", c.root, c.root, told)
            /\ Answer(c, "ok", told)
     ELSE Refuse(c)

(* The session stops on the Agent's side: its time and its grace are over,  *)
(* or it is ended locally.                                                  *)
AgentStop ==
  /\ agent.sess # NoGrant
  /\ IF now >= agent.ends
     THEN Emit("expired", agent.sess, agent.sess, 0)
     ELSE \E told \in Reported : Emit("ended", agent.sess, agent.sess, told)
  /\ agent' = Stopped
  /\ UNCHANGED <<now, dbVars, apiVars, cmds, calls, played>>

(* Time passes; the Agent never lets a session run past its grace period.   *)
Tick ==
  /\ <<now + 1, calls, faults>> \in Bounds
  /\ agent.sess # NoGrant => now < agent.ends + Grace
  /\ now' = now + 1
  /\ played' = IF agent.sess # NoGrant /\ now < agent.ends
               THEN [played EXCEPT ![agent.sess] = @ + 1] ELSE played
  /\ UNCHANGED <<dbVars, apiVars, netVars, agent>>

-----------------------------------------------------------------------------
(* processCoreEvent.  The event leaves the wire: its id is stored, and a    *)
(* second delivery is answered as a duplicate.  Events overtake one another *)
(* and the answers to commands, as they do when another node relays them.   *)

Receive(e, kinds) ==
  /\ e.kind \in kinds
  /\ wire' = wire \ {e}
  /\ UNCHANGED <<now, apiVars, cmds, calls, agent, played>>

EventStarted(e) ==
  /\ Receive(e, {"started"})
  /\ status' = [status EXCEPT ![e.g] = "accepted"]
  /\ core' = [core EXCEPT ![e.g] = e.root]
  /\ accepted' = [accepted EXCEPT ![e.g] = e.at]
  /\ planned' = IF e.val # 0 THEN [planned EXCEPT ![e.g] = e.val] ELSE planned
  /\ pcStatus' = "occupied"
  /\ UNCHANGED <<parent, dur, grace, settled>>

(* The rows of a core session: the named grant, and every row that carries  *)
(* the core session id.                                                     *)
RowsOf(e) == {g \in Grant : \/ g = e.g
                            \/ core[g] = e.root /\ e.root # NoGrant}

EventExtended(e) ==
  /\ Receive(e, {"extended"})
  /\ core' = [g \in Grant |-> IF g \in RowsOf(e) THEN e.root ELSE core[g]]
  /\ planned' = [g \in Grant |-> IF g \in RowsOf(e) /\ e.val # 0
                                 THEN e.val ELSE planned[g]]
  /\ pcStatus' = "occupied"
  /\ UNCHANGED <<status, parent, dur, accepted, grace, settled>>

(* The accepted root with that core session, else the session of the named  *)
(* grant.  A zero countdown is replaced by the time left unless the reason  *)
(* is that time expired.                                                    *)
EventEnded(e) ==
  /\ Receive(e, {"ended", "expired"})
  /\ LET roots == {g \in Grant : /\ core[g] = e.root /\ parent[g] = NoGrant
                                 /\ status[g] = "accepted"}
     IN  \E g \in IF roots # {} THEN roots ELSE {e.g} :
           FinishGrant(g, IF e.val = 0 /\ e.kind = "ended" THEN TimeLeft(g)
                                                           ELSE e.val)

EventFailed(e) ==
  /\ Receive(e, {"failed"})
  /\ status' = [g \in Grant |-> IF g \in RowsOf(e) THEN "start_failed"
                                                   ELSE status[g]]
  /\ UNCHANGED <<parent, core, dur, deadlines, settled, pcStatus>>

-----------------------------------------------------------------------------
HandlerStep(w) ==
  \/ SendStart(w) \/ RefundPlayerBalance(w) \/ StartOk(w) \/ StartError(w)
  \/ MarkApplying(w) \/ SendExtend(w) \/ NoSessionToExtend(w)
  \/ ExtendOk(w) \/ ExtendError(w) \/ EndOk(w) \/ EndError(w)

Request(w, g) ==
  RedeemStart(w, g) \/ RedeemExtend(w, g) \/ AdminEnd(w, g) \/ KioskEnd(w, g)

SyncLoop == SyncLookup \/ SyncMerge \/ \E g \in Grant : SyncPick(g) \/ SyncExtend(g)

AgentStep ==
  AgentStop \/ \E c \in cmds : AgentStart(c) \/ AgentExtend(c) \/ AgentEnd(c)

CoreEvent ==
  \E e \in wire : \/ EventStarted(e) \/ EventExtended(e) \/ EventEnded(e)
                  \/ EventFailed(e)

Next ==
  \/ \E w \in Worker : \/ HandlerStep(w) \/ Crash(w)
                       \/ \E g \in Grant : Request(w, g)
  \/ SyncLoop
  \/ Expire \/ ReconcileMissingRemainders
  \/ AgentStep \/ CoreEvent
  \/ Heartbeat \/ AgentOffline \/ LoseCommand
  \/ Tick

Spec == Init /\ [][Next]_vars

(* What the scheduling gives: a request handler runs to its end (every wait *)
(* has a timeout), the edge loop comes round again, the Agent and the event *)
(* reader keep going, and an Agent that is back reports itself.             *)
Fairness ==
  /\ \A w \in Worker : WF_vars(HandlerStep(w))
  /\ WF_vars(SyncLoop)
  /\ WF_vars(AgentStep)
  /\ WF_vars(CoreEvent)
  /\ WF_vars(pcStatus = "offline" /\ Heartbeat)

FairSpec == Spec /\ Fairness

-----------------------------------------------------------------------------
(* What the code promises, and keeps.                                       *)

Back(g) == credited[g] + voucher[g]

(* The owner came after the session had been returned as a voucher.         *)
LateOwner(g) == voucher[g] # 0 /\ g \in owned

(* Unused time is given back at most once for a session: whatever order     *)
(* the end command's answer, the session_ended event, a repeated end, a     *)
(* late start that revives the row and the sign-in repair come in, a return *)
(* once made, in the ledger or by a voucher, is never changed or made       *)
(* again.  Excepted is a revived row whose owner came after its voucher:    *)
(* finishGrant looks for the ledger's key only and returns it twice.        *)
ReturnOnce ==
  [][\A g \in Grant :
       /\ credited[g] # 0 => credited'[g] = credited[g]
       /\ Back(g) # 0 /\ ~ LateOwner(g) => Back(g)' = Back(g)]_vars

(* No return is larger than the time between the recorded end and the       *)
(* planned end, however stale the countdown the Agent, or the staff, sends. *)
ReturnWithinPlan ==
  [][\A g \in Grant : LET bound == Deadline(g) - ended'[g] IN
       /\ credited'[g] # credited[g] => credited'[g] <= bound
       /\ voucher'[g] \notin {voucher[g], 0} => voucher'[g] <= bound]_vars

(* A retried, doubled or raced extension is never added twice to the root:  *)
(* its duration is at most what was bought, for it and for the children     *)
(* that were applied.                                                       *)
AppliedChildren(r) == {c \in Grant \ {r} : parent[c] = r /\ accepted[c] # 0}
ExtensionCountedOnce ==
  \A r \in Grant : dur[r] <= Dur[r] + Sum(AppliedChildren(r), Dur)

(* The duration recorded for a grant is, at every moment, what was bought   *)
(* with it and the extensions that the Agent applied and the database       *)
(* recorded, each once: no timeout, crash, retry or race adds one twice,    *)
(* adds one that the Agent refused, or drops one.  An extension the Agent   *)
(* has applied and that is still missing there is not lost out of sight: it *)
(* waits to be confirmed, was failed by a start of the same grant, or was   *)
(* closed with its session.                                                 *)
Recorded(r) == {c \in agent.applied : parent[c] = r /\ accepted[c] # 0}
AgentAgreesOnDuration ==
  \A r \in Grant : status[r] # "none" =>
    /\ dur[r] = Dur[r] + Sum(Recorded(r), Dur)
    /\ \A c \in agent.applied \ Recorded(r) :
         parent[c] = r => \/ status[c] \in {"pending", "applying",
                                            "start_failed", "offline_failed"}
                          \/ status[c] = "ended" /\ ended[r] # 0

(* The time played and the time returned never exceed the time bought,      *)
(* whatever the order of replies and events and whoever ends the session.   *)
AppliedTo(r) == {c \in agent.applied : core[c] = r}
TimeConserved ==
  \A r \in Grant : Back(r) + played[r] <= Dur[r] + Sum(AppliedTo(r), Dur)

(* A start bought with a balance is not lost to a crash, a timeout or an    *)
(* Agent that is away: it reaches the Agent or the balance is refunded.     *)
PaidStartIsDelivered ==
  \A g \in Balance : status[g] = "pending" ~> g \in agent.ran \union refunded
=============================================================================
