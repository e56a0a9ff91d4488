------------------------ MODULE GrantSession_proofs ------------------------
(***************************************************************************)
(* Theorems about GrantSession: type correctness, which also says that a   *)
(* handler at work always holds a grant and its session, the two           *)
(* guarantees on the time given back when a session ends, that an          *)
(* extension is counted once, that the recorded duration is what the Agent *)
(* was given, and that the time of a session is conserved, of one nobody   *)
(* extends and of one that is extended, each with the invariant it needs.  *)
(***************************************************************************)
EXTENDS GrantSession, Sums_proofs, TLAPS

(* TypeOK, split into the database and the rest.                            *)
DbTypeOK ==
  /\ status \in [Grant -> Status]
  /\ parent \in [Grant -> OrNull]
  /\ core \in [Grant -> OrNull]
  /\ dur \in [Grant -> Nat]
  /\ accepted \in [Grant -> Nat]
  /\ planned \in [Grant -> Nat]
  /\ grace \in [Grant -> Nat]
  /\ ended \in [Grant -> Nat]
  /\ remaining \in [Grant -> Nat]
  /\ credited \in [Grant -> Nat]
  /\ voucher \in [Grant -> Nat]
  /\ refunded \subseteq Grant
  /\ owned \subseteq Grant
  /\ pcStatus \in {"available", "occupied", "offline"}

ProcTypeOK ==
  /\ proc \in [Worker -> Busy \union {Idle}]
  /\ reply \in [Worker -> Reply]
  /\ faults \in Nat

WorldTypeOK ==
  /\ now \in Nat
  /\ cmds \subseteq Command
  /\ wire \subseteq Event
  /\ agent \in AgentState
  /\ calls \in Nat
  /\ played \in [Grant -> Nat]

-----------------------------------------------------------------------------
(* Handlers, replies and commands.                                          *)

(* The updates of a handler that Goto, Dispatch and the sends make.         *)
AtStep(p, step) == [p EXCEPT !.at = step]
Sent(p, step, n) == [p EXCEPT !.at = step, !.call = n]
Keeping(p, n) == [p EXCEPT !.kept = n]

LEMMA BusyFields ==
  ASSUME NEW p \in Busy
  PROVE  /\ p.g \in Grant /\ p.root \in Grant
         /\ p.call \in Nat /\ p.kept \in Nat /\ p.merge \in BOOLEAN
  BY DEF Busy

LEMMA BusyUpdates ==
  ASSUME NEW p \in Busy, NEW step \in Step, NEW n \in Nat
  PROVE  /\ AtStep(p, step) \in Busy
         /\ Sent(p, step, n) \in Busy
         /\ Keeping(p, n) \in Busy
         /\ Keeping(p, n).g = p.g /\ Keeping(p, n).root = p.root
  BY DEF Busy, AtStep, Sent, Keeping

LEMMA StartedHandler ==
  ASSUME NEW g \in Grant, NEW root \in Grant, NEW step \in Step,
         NEW m \in BOOLEAN
  PROVE  /\ [Idle EXCEPT !.at = step, !.g = g, !.root = root] \in Busy
         /\ [Idle EXCEPT !.at = step, !.g = g, !.root = root, !.merge = m] \in Busy
  BY DEF Idle, Busy

LEMMA EndingHandler ==
  ASSUME NEW g \in Grant, NEW root \in Grant, NEW step \in Step, NEW n \in Nat,
         NEW k \in Nat
  PROVE  /\ Sent([Idle EXCEPT !.g = g, !.root = root], step, n) \in Busy
         /\ Sent([Idle EXCEPT !.g = g, !.root = root, !.kept = k], step, n) \in Busy
  BY DEF Idle, Busy, Sent

LEMMA AtBusy ==
  ASSUME TypeOK, NEW w \in Worker, NEW step \in Step, At(w, step)
  PROVE  proc[w] \in Busy
  BY DEF TypeOK, At, Idle, Step

LEMMA ReplyFields ==
  ASSUME TypeOK, NEW w \in Worker
  PROVE  reply[w].val \in Nat 
  BY DEF TypeOK, Reply

LEMMA ForgettingType ==
  ASSUME TypeOK, NEW w \in Worker, NEW g, NEW p \in Busy \union {Idle}
  PROVE  Forgetting(g, w, p) \in [Worker -> Busy \union {Idle}]
<1>1. ASSUME NEW v \in Worker, At(v, "start")
      PROVE  [proc[v] EXCEPT !.call = 0] \in Busy
  <2>1. proc[v] \in Busy
    BY <1>1, AtBusy DEF Step
  <2> QED BY <2>1 DEF Busy
<1>2. \A v \in Worker : proc[v] \in Busy \union {Idle}
  BY DEF TypeOK
<1> QED BY <1>1, <1>2 DEF Forgetting

LEMMA ReturnType ==
  ASSUME TypeOK, NEW w \in Worker, Return(w)
  PROVE  proc' \in [Worker -> Busy \union {Idle}]
<1>1. CASE At(w, "start")
  BY <1>1, ForgettingType DEF Return
<1>2. CASE ~ At(w, "start")
  BY <1>2 DEF TypeOK, Return
<1> QED BY <1>1, <1>2

LEMMA GotoType ==
  ASSUME TypeOK, NEW w \in Worker, proc[w] \in Busy, NEW step \in Step,
         Goto(w, step)
  PROVE  proc' \in [Worker -> Busy \union {Idle}]
<1>1. AtStep(proc[w], step) \in Busy
  BY BusyUpdates
<1>2. proc' = [proc EXCEPT ![w] = AtStep(proc[w], step)]
  BY DEF Goto, AtStep, TypeOK
<1> QED BY <1>1, <1>2 DEF TypeOK

LEMMA TakeType ==
  ASSUME TypeOK, NEW w \in Worker, Take(w)
  PROVE  reply' \in [Worker -> Reply]
  BY DEF TypeOK, Take, NoReply, Reply

LEMMA FaultType ==
  ASSUME TypeOK
  PROVE  /\ Fault => faults' \in Nat
         /\ \A w \in Worker : Failed(w) => faults' \in Nat
  BY DEF TypeOK, Fault, Failed

LEMMA DispatchType ==
  ASSUME TypeOK, NEW w \in Worker, NEW op \in {"start", "extend", "end"},
         NEW step \in Step, NEW p, p.g \in Grant, p.root \in Grant,
         NEW add \in Nat, Sent(p, step, calls + 1) \in Busy,
         Dispatch(w, op, step, p, add)
  PROVE  /\ proc' \in [Worker -> Busy \union {Idle}]
         /\ reply' \in [Worker -> Reply]
         /\ cmds' \subseteq Command
         /\ calls' \in Nat
         /\ faults' \in Nat
<1>1. proc' \in [Worker -> Busy \union {Idle}]
  <2>1. proc' = IF op = "start" THEN Forgetting(p.g, w, Sent(p, step, calls + 1))
                ELSE [proc EXCEPT ![w] = Sent(p, step, calls + 1)]
    BY DEF Dispatch, Sent
  <2>2. CASE op = "start"
    BY <2>1, <2>2, ForgettingType
  <2>3. CASE op # "start"
    BY <2>1, <2>3 DEF TypeOK
  <2> QED BY <2>2, <2>3
<1>2. reply' \in [Worker -> Reply]
  BY DEF TypeOK, Dispatch, NoReply, Reply
<1>3. calls' \in Nat /\ faults' \in Nat
  BY DEF TypeOK, Dispatch
<1>4. cmds' \subseteq Command
  BY DEF TypeOK, Dispatch, Command
<1> QED BY <1>1, <1>2, <1>3, <1>4

LEMMA DispatchKeepingType ==
  ASSUME TypeOK, NEW w \in Worker, NEW op \in {"start", "extend", "end"},
         NEW step \in Step, proc[w] \in Busy, NEW k \in Nat, NEW add \in Nat,
         Dispatch(w, op, step, Keeping(proc[w], k), add)
  PROVE  /\ proc' \in [Worker -> Busy \union {Idle}]
         /\ reply' \in [Worker -> Reply]
         /\ cmds' \subseteq Command
         /\ calls' \in Nat
         /\ faults' \in Nat
<1> DEFINE p == Keeping(proc[w], k)
<1>1. p \in Busy /\ p.g \in Grant /\ p.root \in Grant
  BY BusyFields, BusyUpdates
<1>2. calls + 1 \in Nat
  BY DEF TypeOK
<1> HIDE DEF p
<1>3. Sent(p, step, calls + 1) \in Busy
  BY <1>1, <1>2, BusyUpdates
<1>4. Dispatch(w, op, step, p, add)
  BY DEF p
<1> QED BY <1>1, <1>3, <1>4, DispatchType

-----------------------------------------------------------------------------
(* Times.                                                                   *)

LEMMA TimeTypes ==
  ASSUME TypeOK, NEW g \in Grant
  PROVE  /\ Deadline(g) \in Nat
         /\ ExpiresAt(g) \in Nat
         /\ TimeLeft(g) \in Nat
         /\ TimeLeft(g) > 0 => TimeLeft(g) = Deadline(g) - now
  BY DEF TypeOK, Deadline, ExpiresAt, TimeLeft, Larger

LEMMA RemainderBound ==
  ASSUME NEW left \in Nat, NEW told \in Nat
  PROVE  /\ BoundedSessionRemainder(left, told) \in Nat
         /\ BoundedSessionRemainder(left, told) <= left
  BY DEF BoundedSessionRemainder

-----------------------------------------------------------------------------
(* Every action preserves the types.                                        *)

LEMMA InitTypeOK == Init => TypeOK
  BY GrantAssumption
  DEF Init, TypeOK, Status, OrNull, Idle, NoReply, Reply, AgentState

LEMMA RequestTypeOK ==
  ASSUME TypeOK, NEW w \in Worker, NEW g \in Grant,
         RedeemStart(w, g) \/ RedeemExtend(w, g)
  PROVE  TypeOK'
<1> USE DEF deadlines, settled, returns, netVars
<1>1. CASE RedeemStart(w, g)
  <2>1. DbTypeOK'
    BY <1>1, GrantAssumption DEF TypeOK, DbTypeOK, RedeemStart, Status
  <2>2. ProcTypeOK'
    BY <1>1, StartedHandler DEF TypeOK, ProcTypeOK, RedeemStart, Step
  <2>3. WorldTypeOK'
    BY <1>1 DEF TypeOK, WorldTypeOK, RedeemStart
  <2> QED BY <2>1, <2>2, <2>3 DEF DbTypeOK, ProcTypeOK, WorldTypeOK, TypeOK
<1>2. CASE RedeemExtend(w, g)
  <2>1. PICK root \in Grant :
          /\ parent' = [parent EXCEPT ![g] = root]
          /\ core' = [core EXCEPT ![g] = core[root]]
          /\ owned' = IF g \in Balance THEN owned \union {g, root} ELSE owned
          /\ proc' = [proc EXCEPT ![w] = [Idle EXCEPT !.at = "mark", !.g = g,
                                                      !.root = root]]
    BY <1>2 DEF RedeemExtend
  <2>2. /\ owned' \subseteq Grant
        /\ parent' \in [Grant -> OrNull] /\ core' \in [Grant -> OrNull]
        /\ proc' \in [Worker -> Busy \union {Idle}]
    BY <2>1, StartedHandler DEF TypeOK, OrNull, Step
  <2>3. status' \in [Grant -> Status] /\ dur' \in [Grant -> Nat]
    BY <1>2, GrantAssumption DEF TypeOK, RedeemExtend, Status
  <2> QED BY <1>2, <2>2, <2>3 DEF TypeOK, RedeemExtend
<1> QED BY <1>1, <1>2

LEMMA StartTypeOK ==
  ASSUME TypeOK, NEW w \in Worker,
         SendStart(w) \/ RefundPlayerBalance(w) \/ StartOk(w) \/ StartError(w)
  PROVE  TypeOK'
<1> USE DEF deadlines, settled, returns, netVars, dbVars
<1>1. CASE SendStart(w)
  <2>1. proc[w] \in Busy
    BY <1>1, AtBusy DEF SendStart, Step
  <2>2. now + Dur[proc[w].g] \in Nat /\ dur[proc[w].g] \in Nat
    BY <2>1, BusyFields, GrantAssumption DEF TypeOK
  <2>3. Dispatch(w, "start", "start", Keeping(proc[w], now + Dur[proc[w].g]),
                 dur[proc[w].g])
    BY <1>1 DEF SendStart, Keeping
  <2>4. "start" \in Step
    BY DEF Step
  <2>6. /\ proc' \in [Worker -> Busy \union {Idle}]
        /\ reply' \in [Worker -> Reply]
        /\ cmds' \subseteq Command
        /\ calls' \in Nat /\ faults' \in Nat
    BY <2>1, <2>2, <2>3, <2>4, DispatchKeepingType
  <2> QED BY <1>1, <2>6 DEF TypeOK, SendStart
<1>2. CASE RefundPlayerBalance(w)
  <2>1. faults' \in Nat
    BY <1>2, FaultType DEF RefundPlayerBalance
  <2>2. proc' \in [Worker -> Busy \union {Idle}]
    BY <1>2, ReturnType DEF RefundPlayerBalance
  <2>3. proc[w].g \in Grant
    BY <1>2, AtBusy, BusyFields DEF RefundPlayerBalance, Step
  <2>4. status' \in [Grant -> Status] /\ refunded' \subseteq Grant
    BY <1>2, <2>3 DEF TypeOK, RefundPlayerBalance, Status
  <2> QED BY <1>2, <2>1, <2>2, <2>4 DEF TypeOK, RefundPlayerBalance
<1>3. CASE StartOk(w)
  <2>1. proc' \in [Worker -> Busy \union {Idle}] /\ reply' \in [Worker -> Reply]
    BY <1>3, ReturnType, TakeType DEF StartOk
  <2>2. proc[w].g \in Grant /\ proc[w].kept \in Nat /\ reply[w].val \in Nat
    BY <1>3, AtBusy, BusyFields, ReplyFields DEF StartOk, Step
  <2>3. DbTypeOK'
    BY <1>3, <2>2, GrantAssumption DEF TypeOK, DbTypeOK, StartOk, Status, OrNull
  <2> QED BY <1>3, <2>1, <2>3 DEF TypeOK, DbTypeOK, StartOk
<1>4. CASE StartError(w)
  <2>1. /\ proc' \in [Worker -> Busy \union {Idle}]
        /\ reply' \in [Worker -> Reply]
        /\ faults' \in Nat
    BY <1>4, ReturnType, TakeType, FaultType DEF StartError
  <2>2. status' \in [Grant -> Status]
    BY <1>4 DEF TypeOK, StartError, Status
  <2> QED BY <1>4, <2>1, <2>2 DEF TypeOK, StartError
<1> QED BY <1>1, <1>2, <1>3, <1>4

LEMMA SyncTypeOK ==
  ASSUME TypeOK, SyncLoop
  PROVE  TypeOK'
<1> USE GrantAssumption DEF deadlines, settled, returns, netVars, dbVars
<1>1. CASE SyncLookup
  <2> DEFINE q(root) == [proc[Sync] EXCEPT !.at = "merge", !.root = root]
  <2>1. proc[Sync] \in Busy
    BY <1>1, AtBusy DEF SyncLookup, Step
  <2>2. CASE Goto(Sync, "send")
    BY <1>1, <2>1, <2>2, GotoType DEF TypeOK, SyncLookup, Step
  <2>3. ASSUME NEW root \in Grant,
               proc' = [proc EXCEPT ![Sync].at = "merge", ![Sync].root = root]
        PROVE  TypeOK'
    <3>1. q(root) \in Busy
      BY <2>1 DEF Busy, Step
    <3>2. proc' = [proc EXCEPT ![Sync] = q(root)]
      BY <2>3 DEF TypeOK
    <3> HIDE DEF q
    <3> QED BY <1>1, <3>1, <3>2 DEF TypeOK, SyncLookup
  <2> QED BY <1>1, <2>2, <2>3 DEF SyncLookup
<1>2. CASE SyncMerge
  <2> DEFINE g == proc[Sync].g
             root == proc[Sync].root
             q == [proc[Sync] EXCEPT !.at = "mark", !.merge = TRUE]
  <2>1. proc[Sync] \in Busy /\ g \in Grant /\ root \in Grant
    BY <1>2, AtBusy, BusyFields DEF SyncMerge, Step
  <2>2. IF parent[g] = NoGrant
        THEN /\ status' = [status EXCEPT ![g] = "pending"]
             /\ parent' = [parent EXCEPT ![g] = root]
             /\ core' = [core EXCEPT ![g] = core[root]]
             /\ proc' = [proc EXCEPT ![Sync] = q]
        ELSE UNCHANGED <<status, parent, core>> /\ Return(Sync)
    BY <1>2 DEF SyncMerge, TypeOK
  <2>3. q \in Busy
    BY <2>1 DEF Busy, Step
  <2> HIDE DEF g, root, q
  <2>4. /\ status' \in [Grant -> Status]
        /\ parent' \in [Grant -> OrNull] /\ core' \in [Grant -> OrNull]
    BY <2>1, <2>2 DEF TypeOK, Status, OrNull
  <2>5. proc' \in [Worker -> Busy \union {Idle}]
    BY <2>2, <2>3, ReturnType DEF TypeOK
  <2> QED BY <1>2, <2>4, <2>5 DEF TypeOK, SyncMerge
<1>3. ASSUME NEW g \in Grant, SyncPick(g) PROVE TypeOK'
  <2>1. proc' \in [Worker -> Busy \union {Idle}]
    BY <1>3, StartedHandler DEF TypeOK, SyncPick, Step
  <2> QED BY <1>3, <2>1 DEF TypeOK, SyncPick
<1>4. ASSUME NEW g \in Grant, SyncExtend(g) PROVE TypeOK'
  <2>1. PICK root \in Grant :
          proc' = [proc EXCEPT ![Sync] = [Idle EXCEPT !.at = "mark", !.g = g,
                                                      !.root = root]]
    BY <1>4 DEF SyncExtend
  <2> DEFINE q == [Idle EXCEPT !.at = "mark", !.g = g, !.root = root]
  <2>2. "mark" \in Step
    BY DEF Step
  <2>3. q \in Busy
    BY <2>2, StartedHandler
  <2>4. proc' \in [Worker -> Busy \union {Idle}]
    <3>1. proc' = [proc EXCEPT ![Sync] = q]
      BY <2>1
    <3> HIDE DEF q
    <3> QED BY <2>3, <3>1 DEF TypeOK
  <2> QED BY <1>4, <2>4 DEF TypeOK, SyncExtend
<1>5. SyncLookup \/ SyncMerge \/ \E g \in Grant : SyncPick(g) \/ SyncExtend(g)
  BY DEF SyncLoop
<1> QED BY ONLY <1>1, <1>2, <1>3, <1>4, <1>5

LEMMA ExtendTypeOK ==
  ASSUME TypeOK, NEW w \in Worker,
         \/ MarkApplying(w) \/ SendExtend(w) \/ NoSessionToExtend(w)
         \/ ExtendOk(w) \/ ExtendError(w)
  PROVE  TypeOK'
<1> USE GrantAssumption DEF deadlines, settled, returns, netVars, dbVars
<1>1. CASE MarkApplying(w)
  <2>1. proc[w] \in Busy
    BY <1>1, AtBusy DEF MarkApplying, Step
  <2>2. proc' \in [Worker -> Busy \union {Idle}]
    BY <1>1, <2>1, GotoType, ReturnType DEF MarkApplying, Step
  <2>3. status' \in [Grant -> Status]
    BY <1>1 DEF TypeOK, MarkApplying, Status
  <2> QED BY <1>1, <2>2, <2>3 DEF TypeOK, MarkApplying
<1>2. CASE SendExtend(w)
  <2>1. proc[w] \in Busy
    BY <1>2, AtBusy DEF SendExtend, Step
  <2> DEFINE k == Larger(Deadline(proc[w].root), now) + Dur[proc[w].g]
  <2>2. k \in Nat /\ Dur[proc[w].g] \in Nat
    <3>1. Deadline(proc[w].root) \in Nat /\ Dur[proc[w].g] \in Nat
      BY <2>1, BusyFields, TimeTypes
    <3> QED BY <3>1 DEF TypeOK, Larger
  <2>3. Dispatch(w, "extend", "extend", Keeping(proc[w], k), Dur[proc[w].g])
    BY <1>2 DEF SendExtend, Keeping
  <2>5. "extend" \in Step
    BY DEF Step
  <2>4. /\ proc' \in [Worker -> Busy \union {Idle}]
        /\ reply' \in [Worker -> Reply]
        /\ cmds' \subseteq Command
        /\ calls' \in Nat /\ faults' \in Nat
    <3> HIDE DEF k
    <3> QED BY <2>1, <2>2, <2>3, <2>5, DispatchKeepingType
  <2> QED BY <1>2, <2>4 DEF TypeOK, SendExtend
<1>3. CASE NoSessionToExtend(w)
  <2>1. proc' \in [Worker -> Busy \union {Idle}]
    BY <1>3, ReturnType DEF NoSessionToExtend
  <2> QED BY <1>3, <2>1 DEF TypeOK, NoSessionToExtend
<1>4. CASE ExtendOk(w)
  <2> DEFINE g == proc[w].g
             root == proc[w].root
             newEnds == ReportedDeadline(reply[w].val, proc[w].kept)
  <2>1. /\ g \in Grant /\ root \in Grant
        /\ proc[w].kept \in Nat /\ reply[w].val \in Nat
    BY <1>4, AtBusy, BusyFields, ReplyFields DEF ExtendOk, Step
  <2>2. newEnds \in Nat
    BY <2>1 DEF ReportedDeadline, TypeOK
  <2>3. /\ proc' \in [Worker -> Busy \union {Idle}]
        /\ reply' \in [Worker -> Reply]
    BY <1>4, ReturnType, TakeType DEF ExtendOk
  <2>4. CASE status[g] = "applying"
    <3>1. /\ dur' = [dur EXCEPT ![root] = @ + Dur[g]]
          /\ planned' = [planned EXCEPT ![root] = newEnds, ![g] = newEnds]
          /\ grace' = [grace EXCEPT ![root] = newEnds + Grace,
                                    ![g] = newEnds + Grace]
          /\ accepted' = [accepted EXCEPT ![g] = now]
          /\ status' = [status EXCEPT ![g] = "extended"]
          /\ core' = [core EXCEPT ![g] = root]
          /\ pcStatus' = "occupied"
          /\ UNCHANGED parent
      BY <1>4, <2>4 DEF ExtendOk
    <3>2. DbTypeOK'
      <4> HIDE DEF g, root, newEnds
      <4> QED BY <1>4, <2>1, <2>2, <3>1 DEF TypeOK, DbTypeOK, ExtendOk, Status, OrNull
    <3> QED BY <1>4, <2>3, <3>2 DEF TypeOK, DbTypeOK, ExtendOk
  <2>5. CASE status[g] # "applying"
    <3>1. /\ UNCHANGED <<dur, deadlines, status, pcStatus>>
          /\ UNCHANGED <<parent, core>> \/ Unmerge(w, status)
      BY <1>4, <2>5 DEF ExtendOk
    <3>2. parent' \in [Grant -> OrNull] /\ core' \in [Grant -> OrNull]
      BY <3>1 DEF TypeOK, Unmerge, OrNull
    <3> QED BY <1>4, <2>3, <3>1, <3>2 DEF TypeOK, ExtendOk
  <2> QED BY <2>4, <2>5
<1>5. CASE ExtendError(w)
  <2>1. /\ proc' \in [Worker -> Busy \union {Idle}]
        /\ reply' \in [Worker -> Reply]
        /\ faults' \in Nat
    BY <1>5, ReturnType, TakeType, FaultType DEF ExtendError
  <2>2. /\ status' \in [Grant -> Status]
        /\ parent' \in [Grant -> OrNull] /\ core' \in [Grant -> OrNull]
    BY <1>5 DEF TypeOK, ExtendError, Unmerge, Status, OrNull
  <2> QED BY <1>5, <2>1, <2>2 DEF TypeOK, ExtendError
<1> QED BY <1>1, <1>2, <1>3, <1>4, <1>5

(* finishGrant writes types only: the return is a natural number.           *)
LEMMA FinishGrantType ==
  ASSUME TypeOK, NEW grant \in Grant, NEW told \in Nat, FinishGrant(grant, told)
  PROVE  DbTypeOK'
<1> DEFINE g == IF parent[grant] = NoGrant THEN grant ELSE parent[grant]
           left == BoundedSessionRemainder(TimeLeft(g), told)
           children == {c \in Grant : /\ parent[c] = g
                                      /\ status[c] \in {"pending", "extended"}}
<1>1. g \in Grant
  BY DEF TypeOK, OrNull
<1>2. left \in Nat
  <2> HIDE DEF g
  <2> QED BY <1>1, TimeTypes, RemainderBound
<1>3. CASE status[g] # "accepted"
  BY <1>3 DEF TypeOK, DbTypeOK, FinishGrant, dbVars
<1>4. CASE status[g] = "accepted"
  <2>1. /\ status' = [x \in Grant |->
                        IF x = g \/ x \in children THEN "ended" ELSE status[x]]
        /\ ended' = [x \in Grant |->
                       IF x = g \/ x \in children THEN now ELSE ended[x]]
        /\ remaining' = [remaining EXCEPT ![g] = left]
        /\ credited' = IF left > 0 /\ g \in owned /\ credited[g] = 0
                       THEN [credited EXCEPT ![g] = left] ELSE credited
        /\ voucher' = IF left > 0 /\ g \notin owned /\ voucher[g] = 0
                      THEN [voucher EXCEPT ![g] = left] ELSE voucher
        /\ pcStatus' = "available"
        /\ UNCHANGED <<parent, core, dur, deadlines, refunded, owned>>
    BY <1>4 DEF FinishGrant
  <2> HIDE DEF g, left, children
  <2> QED BY <1>1, <1>2, <2>1 DEF TypeOK, DbTypeOK, Status, deadlines
<1> QED BY <1>3, <1>4

LEMMA EndTypeOK ==
  ASSUME TypeOK, NEW w \in Worker,
         \/ EndOk(w) \/ EndError(w)
         \/ \E g \in Grant : AdminEnd(w, g) \/ KioskEnd(w, g)
  PROVE  TypeOK'
<1> USE DEF netVars, apiVars
<1>1. CASE EndOk(w)
  <2>1. /\ proc[w].g \in Grant /\ proc[w].kept \in Nat /\ reply[w].val \in Nat
    BY <1>1, AtBusy, BusyFields, ReplyFields DEF EndOk, Step
  <2>2. FinishGrant(proc[w].g, proc[w].kept) \/ FinishGrant(proc[w].g, reply[w].val)
    BY <1>1 DEF EndOk
  <2>3. DbTypeOK'
    BY <2>1, <2>2, FinishGrantType
  <2>4. proc' \in [Worker -> Busy \union {Idle}] /\ reply' \in [Worker -> Reply]
    BY <1>1, ReturnType, TakeType DEF EndOk
  <2> QED BY <1>1, <2>3, <2>4 DEF TypeOK, DbTypeOK, EndOk
<1>2. CASE EndError(w)
  <2>1. /\ proc' \in [Worker -> Busy \union {Idle}]
        /\ reply' \in [Worker -> Reply]
        /\ faults' \in Nat
    BY <1>2, ReturnType, TakeType, FaultType DEF EndError
  <2> QED BY <1>2, <2>1 DEF TypeOK, EndError, dbVars
<1>3. ASSUME NEW g \in Grant, AdminEnd(w, g) PROVE TypeOK'
  <2> DEFINE left == IF status[g] = "accepted" THEN TimeLeft(g) ELSE 0
  <2>0. PICK k \in (Reported \ {0}) \union {left} :
          IF core[g] = NoGrant
          THEN FinishGrant(g, k) /\ UNCHANGED <<apiVars, calls, cmds>>
          ELSE /\ Dispatch(w, "end", "admin_end",
                           [Idle EXCEPT !.g = g, !.root = core[g], !.kept = k], 0)
               /\ UNCHANGED dbVars
    BY <1>3 DEF AdminEnd
  <2>3. k \in Nat
    BY TimeTypes, GrantAssumption
  <2>1. CASE core[g] = NoGrant
    <3>1. FinishGrant(g, k) /\ UNCHANGED <<apiVars, calls, cmds>>
      BY <2>0, <2>1
    <3>2. DbTypeOK'
      BY <2>3, <3>1, FinishGrantType
    <3> QED BY <1>3, <3>1, <3>2 DEF TypeOK, DbTypeOK, AdminEnd
  <2>2. CASE core[g] # NoGrant
    <3> DEFINE p == [Idle EXCEPT !.g = g, !.root = core[g], !.kept = k]
    <3>1. k \in Nat /\ core[g] \in Grant
      BY <2>2, <2>3 DEF TypeOK, OrNull
    <3>2. Dispatch(w, "end", "admin_end", p, 0) /\ UNCHANGED dbVars
      BY <2>0, <2>2
    <3>3. "admin_end" \in Step
      BY DEF Step
    <3>4. /\ proc' \in [Worker -> Busy \union {Idle}]
          /\ reply' \in [Worker -> Reply]
          /\ cmds' \subseteq Command
          /\ calls' \in Nat /\ faults' \in Nat
      <4>1. p.g \in Grant /\ p.root \in Grant
        BY <3>1 DEF Idle
      <4>2. Sent(p, "admin_end", calls + 1) \in Busy
        <5>1. calls + 1 \in Nat
          BY DEF TypeOK
        <5> QED BY <3>1, <3>3, <5>1, EndingHandler
      <4> HIDE DEF p
      <4> QED BY <3>2, <3>3, <4>1, <4>2, DispatchType
    <3> QED BY <1>3, <3>2, <3>4 DEF TypeOK, AdminEnd, dbVars
  <2> QED BY <2>1, <2>2
<1>4. ASSUME NEW g \in Grant, KioskEnd(w, g) PROVE TypeOK'
  <2> DEFINE p == [Idle EXCEPT !.g = g, !.root = core[g]]
  <2>1. core[g] \in Grant
    BY <1>4 DEF TypeOK, OrNull, KioskEnd
  <2>2. Dispatch(w, "end", "kiosk_end", p, 0)
    BY <1>4 DEF KioskEnd
  <2>3. "kiosk_end" \in Step
    BY DEF Step
  <2>4. /\ proc' \in [Worker -> Busy \union {Idle}]
        /\ reply' \in [Worker -> Reply]
        /\ cmds' \subseteq Command
        /\ calls' \in Nat /\ faults' \in Nat
    <3>1. p.g \in Grant /\ p.root \in Grant
      BY <2>1 DEF Idle
    <3>2. Sent(p, "kiosk_end", calls + 1) \in Busy
      <4>1. calls + 1 \in Nat
        BY DEF TypeOK
      <4> QED BY <2>1, <2>3, <4>1, EndingHandler
    <3> HIDE DEF p
    <3> QED BY <2>2, <2>3, <3>1, <3>2, DispatchType
  <2> QED BY <1>4, <2>4 DEF TypeOK, KioskEnd, dbVars
<1> QED BY <1>1, <1>2, <1>3, <1>4

(* The background repairs and the failures.                                 *)
LEMMA RepairTypeOK ==
  ASSUME TypeOK, Expire \/ ReconcileMissingRemainders
  PROVE  TypeOK'
<1> USE DEF deadlines
<1>1. CASE Expire
  <2>1. \A g \in Grant : ExpiresAt(g) \in Nat
    BY TimeTypes
  <2>2. /\ status' \in [Grant -> Status]
        /\ ended' \in [Grant -> Nat]
        /\ remaining' \in [Grant -> Nat]
        /\ pcStatus' \in {"available", "occupied", "offline"}
    <3> HIDE DEF deadlines
    <3> QED BY <1>1, <2>1 DEF TypeOK, Expire, Status
  <2>3. UNCHANGED <<now, parent, core, dur, deadlines, returns, owned,
                    apiVars, netVars, agent, played>>
    BY <1>1 DEF Expire
  <2> QED BY <2>2, <2>3 DEF TypeOK, returns, apiVars, netVars
<1>2. CASE ReconcileMissingRemainders
  <2>1. \A g \in Grant : Deadline(g) \in Nat
    BY TimeTypes
  <2>2. \A g \in Grant : MissingRemainder(g) => Deadline(g) - ended[g] \in Nat
    BY <2>1 DEF TypeOK, MissingRemainder
  <2>3. /\ credited' \in [Grant -> Nat] /\ remaining' \in [Grant -> Nat]
        /\ voucher' \in [Grant -> Nat]
    BY <1>2, <2>2 DEF TypeOK, ReconcileMissingRemainders
  <2> QED BY <1>2, <2>3 DEF TypeOK, ReconcileMissingRemainders, apiVars, netVars
<1> QED BY <1>1, <1>2

LEMMA FailureTypeOK ==
  ASSUME TypeOK,
         \/ \E w \in Worker : Crash(w)
         \/ Heartbeat \/ AgentOffline \/ LoseCommand \/ Tick
  PROVE  TypeOK'
<1> USE DEF netVars, apiVars, dbVars, deadlines, settled, returns
<1>1. ASSUME NEW w \in Worker, Crash(w) PROVE TypeOK'
  <2>1. /\ proc' \in [Worker -> Busy \union {Idle}]
        /\ reply' \in [Worker -> Reply]
        /\ faults' \in Nat
    BY <1>1, ReturnType, TakeType, FaultType DEF Crash
  <2> QED BY <1>1, <2>1 DEF TypeOK, Crash
<1>2. CASE Heartbeat
  BY <1>2 DEF TypeOK, Heartbeat
<1>3. CASE AgentOffline
  BY <1>3, FaultType DEF TypeOK, AgentOffline
<1>4. CASE LoseCommand
  <2>1. faults' \in Nat
    BY <1>4, FaultType DEF LoseCommand
  <2>2. cmds' \subseteq Command
    BY <1>4 DEF TypeOK, LoseCommand
  <2>3. UNCHANGED <<now, dbVars, proc, reply, wire, calls, agent, played>>
    BY <1>4 DEF LoseCommand
  <2> QED BY <2>1, <2>2, <2>3 DEF TypeOK
<1>5. CASE Tick
  <2>1. played' \in [Grant -> Nat]
    <3>1. \/ played' = played
          \/ played' = [played EXCEPT ![agent.sess] = played[agent.sess] + 1]
      BY <1>5 DEF Tick
    <3> QED BY <3>1 DEF TypeOK
  <2> QED BY <1>5, <2>1 DEF TypeOK, Tick
<1> QED BY <1>1, <1>2, <1>3, <1>4, <1>5

-----------------------------------------------------------------------------
(* The Agent.                                                               *)

LEMMA EmitType ==
  ASSUME TypeOK, NEW kind \in {"started", "extended", "ended", "expired", "failed"},
         NEW g \in Grant, NEW root \in OrNull, NEW val \in Nat,
         Emit(kind, g, root, val)
  PROVE  wire' \subseteq Event
<1>1. [kind |-> kind, g |-> g, root |-> root, val |-> val, at |-> now] \in Event
  BY DEF Event, TypeOK
<1> QED BY <1>1 DEF TypeOK, Emit

LEMMA AnswerType ==
  ASSUME TypeOK, NEW c \in cmds, NEW kind \in {"ok", "error"}, NEW val \in Nat,
         Answer(c, kind, val)
  PROVE  reply' \in [Worker -> Reply] /\ cmds' \subseteq Command
  BY DEF TypeOK, Answer, Reply

LEMMA ToldType ==
  ASSUME TypeOK, NEW ends \in Nat
  PROVE  ToldInReply(ends) \in Nat
  BY DEF TypeOK, ToldInReply, Larger

LEMMA RefuseTypeOK ==
  ASSUME TypeOK, NEW c \in cmds, Refuse(c)
  PROVE  TypeOK'
<1>1. c.g \in Grant /\ c.root \in OrNull /\ NoGrant \in OrNull
  BY DEF TypeOK, Command, OrNull
<1>2. wire' \subseteq Event
  <2>1. CASE UNCHANGED wire
    BY <2>1 DEF TypeOK
  <2>2. CASE Emit("failed", c.g, IF c.op = "start" THEN NoGrant ELSE c.root, 0)
    BY <1>1, <2>2, EmitType
  <2> QED BY <2>1, <2>2 DEF Refuse
<1>3. reply' \in [Worker -> Reply] /\ cmds' \subseteq Command
  BY <1>2, AnswerType DEF Refuse
<1> QED BY <1>2, <1>3 DEF TypeOK, Refuse, Answer, dbVars

LEMMA AgentTypeOK ==
  ASSUME TypeOK, AgentStep
  PROVE  TypeOK'
<1> USE GrantAssumption
<1>1. /\ agent.sess \in OrNull /\ agent.ends \in Nat
      /\ agent.ran \subseteq Grant /\ agent.applied \subseteq Grant
  BY DEF TypeOK, AgentState
<1>2. Stopped \in AgentState
  BY DEF TypeOK, Stopped, AgentState, OrNull
<1>3. CASE AgentStop
  <2>1. agent.sess \in Grant /\ agent.sess \in OrNull
    BY <1>1, <1>3 DEF AgentStop, OrNull
  <2>2. \E kind \in {"expired", "ended"}, told \in Nat :
          Emit(kind, agent.sess, agent.sess, told)
    BY <1>3 DEF AgentStop
  <2>3. wire' \subseteq Event
    BY <2>1, <2>2, EmitType
  <2> QED BY <1>2, <1>3, <2>3 DEF TypeOK, AgentStop, dbVars, apiVars
<1>4. ASSUME NEW c \in cmds, AgentStart(c) PROVE TypeOK'
  <2>1. c.g \in Grant /\ c.g \in OrNull /\ now + c.add \in Nat
    BY DEF TypeOK, Command, OrNull
  <2>2. CASE /\ agent' = [agent EXCEPT !.sess = c.g, !.ends = now + c.add,
                                       !.ran = @ \union {c.g}]
             /\ Emit("started", c.g, c.g, now + c.add)
             /\ Answer(c, "ok", ToldInReply(now + c.add))
    <3>1. agent' \in AgentState
      BY <2>1, <2>2 DEF TypeOK, AgentState
    <3>2. wire' \subseteq Event
      BY <2>1, <2>2, EmitType
    <3>3. reply' \in [Worker -> Reply] /\ cmds' \subseteq Command
      BY <2>1, <2>2, <3>2, ToldType, AnswerType
    <3> QED BY <2>2, <3>1, <3>2, <3>3 DEF TypeOK, Answer, dbVars
  <2>3. CASE /\ UNCHANGED wire /\ UNCHANGED agent
             /\ Answer(c, "ok", ToldInReply(agent.ends))
    <3>1. wire' \subseteq Event /\ agent' \in AgentState
      BY <2>3 DEF TypeOK
    <3>2. reply' \in [Worker -> Reply] /\ cmds' \subseteq Command
      BY <1>1, <2>3, <3>1, ToldType, AnswerType
    <3> QED BY <2>3, <3>1, <3>2 DEF TypeOK, Answer, dbVars
  <2> QED BY <1>4, <2>2, <2>3, RefuseTypeOK DEF AgentStart
<1>5. ASSUME NEW c \in cmds, AgentExtend(c) PROVE TypeOK'
  <2> DEFINE ends == Larger(agent.ends, now) + c.add
  <2>1. c.g \in Grant /\ c.root \in OrNull /\ ends \in Nat
    BY <1>1 DEF TypeOK, Command, OrNull, Larger
  <2>2. CASE /\ agent' = [agent EXCEPT !.ends = ends,
                                       !.applied = @ \union {c.g}]
             /\ Emit("extended", c.g, c.root, ends)
             /\ Answer(c, "ok", ToldInReply(ends))
    <3> HIDE DEF ends
    <3>1. agent' \in AgentState
      BY <2>1, <2>2 DEF TypeOK, AgentState
    <3>2. wire' \subseteq Event
      BY <2>1, <2>2, EmitType
    <3>3. reply' \in [Worker -> Reply] /\ cmds' \subseteq Command
      BY <2>1, <2>2, <3>2, ToldType, AnswerType
    <3> QED BY <2>2, <3>1, <3>2, <3>3 DEF TypeOK, Answer, dbVars
  <2>3. CASE /\ UNCHANGED wire /\ UNCHANGED agent
             /\ Answer(c, "ok", ToldInReply(agent.ends))
    <3>1. wire' \subseteq Event /\ agent' \in AgentState
      BY <2>3 DEF TypeOK
    <3>2. reply' \in [Worker -> Reply] /\ cmds' \subseteq Command
      BY <1>1, <2>3, <3>1, ToldType, AnswerType
    <3> QED BY <2>3, <3>1, <3>2 DEF TypeOK, Answer, dbVars
  <2> QED BY <1>5, <2>2, <2>3, RefuseTypeOK DEF AgentExtend
<1>6. ASSUME NEW c \in cmds, AgentEnd(c) PROVE TypeOK'
  <2>1. c.g \in Grant
    BY DEF TypeOK, Command
  <2>2. CASE agent.sess = c.root
    <3>1. PICK told \in Reported : /\ agent' = Stopped
                                   /\ Emit("ended", c.root, c.root, told)
                                   /\ Answer(c, "ok", told)
      BY <1>6, <2>2 DEF AgentEnd
    <3>2. told \in Nat /\ c.root \in Grant /\ c.root \in OrNull
      BY DEF TypeOK, Command, OrNull
    <3>3. wire' \subseteq Event
      BY <3>1, <3>2, EmitType
    <3>4. reply' \in [Worker -> Reply] /\ cmds' \subseteq Command
      BY <3>1, <3>2, <3>3, AnswerType
    <3> QED BY <1>2, <3>1, <3>3, <3>4 DEF TypeOK, Answer, dbVars
  <2> QED BY <1>6, <2>2, RefuseTypeOK DEF AgentEnd
<1> QED BY <1>3, <1>4, <1>5, <1>6 DEF AgentStep

(* The events of the Agent.                                                 *)
LEMMA EventTypeOK ==
  ASSUME TypeOK, CoreEvent
  PROVE  TypeOK'
<1> USE DEF deadlines, settled, returns
<1>1. ASSUME NEW e \in wire, NEW kinds, Receive(e, kinds)
      PROVE  ProcTypeOK' /\ WorldTypeOK'
  BY <1>1 DEF TypeOK, Receive, ProcTypeOK, WorldTypeOK, apiVars
<1>2. \A e \in wire : e.g \in Grant /\ e.root \in OrNull /\ e.val \in Nat
                      /\ e.at \in Nat
  BY DEF TypeOK, Event
<1>3. ASSUME NEW e \in wire, EventStarted(e) PROVE TypeOK'
  <2>1. DbTypeOK'
    BY <1>2, <1>3 DEF TypeOK, DbTypeOK, EventStarted, Status
  <2> QED BY <1>1, <1>3, <2>1
      DEF EventStarted, DbTypeOK, ProcTypeOK, WorldTypeOK, TypeOK
<1>4. ASSUME NEW e \in wire, EventExtended(e) PROVE TypeOK'
  <2>1. DbTypeOK'
    BY <1>2, <1>4 DEF TypeOK, DbTypeOK, EventExtended
  <2> QED BY <1>1, <1>4, <2>1
      DEF EventExtended, DbTypeOK, ProcTypeOK, WorldTypeOK, TypeOK
<1>5. ASSUME NEW e \in wire, EventEnded(e) PROVE TypeOK'
  <2>1. PICK g \in Grant :
          FinishGrant(g, IF e.val = 0 /\ e.kind = "ended" THEN TimeLeft(g)
                                                          ELSE e.val)
    BY <1>2, <1>5 DEF EventEnded
  <2>2. (IF e.val = 0 /\ e.kind = "ended" THEN TimeLeft(g) ELSE e.val) \in Nat
    BY <1>2, TimeTypes
  <2>3. DbTypeOK'
    BY <2>1, <2>2, FinishGrantType
  <2> QED BY <1>1, <1>5, <2>3
      DEF EventEnded, DbTypeOK, ProcTypeOK, WorldTypeOK, TypeOK
<1>6. ASSUME NEW e \in wire, EventFailed(e) PROVE TypeOK'
  <2>1. DbTypeOK'
    BY <1>6 DEF TypeOK, DbTypeOK, EventFailed, Status
  <2> QED BY <1>1, <1>6, <2>1
      DEF EventFailed, DbTypeOK, ProcTypeOK, WorldTypeOK, TypeOK
<1> QED BY <1>3, <1>4, <1>5, <1>6 DEF CoreEvent

-----------------------------------------------------------------------------
LEMMA NextTypeOK == TypeOK /\ [Next]_vars => TypeOK'
<1> SUFFICES ASSUME TypeOK, [Next]_vars PROVE TypeOK'
  OBVIOUS
<1>1. ASSUME NEW w \in Worker, HandlerStep(w) PROVE TypeOK'
  BY <1>1, StartTypeOK, ExtendTypeOK, EndTypeOK DEF HandlerStep
<1>2. ASSUME NEW w \in Worker, NEW g \in Grant, Request(w, g) PROVE TypeOK'
  BY <1>2, RequestTypeOK, EndTypeOK DEF Request
<1>3. CASE SyncLoop
  BY <1>3, SyncTypeOK
<1>4. CASE Expire \/ ReconcileMissingRemainders
  BY <1>4, RepairTypeOK
<1>5. CASE AgentStep \/ CoreEvent
  BY <1>5, AgentTypeOK, EventTypeOK
<1>6. CASE \/ \E w \in Worker : Crash(w)
           \/ Heartbeat \/ AgentOffline \/ LoseCommand \/ Tick
  BY <1>6, FailureTypeOK
<1>7. CASE UNCHANGED vars
  BY <1>7 DEF TypeOK, vars, dbVars, apiVars, netVars
<1> QED BY <1>1, <1>2, <1>3, <1>4, <1>5, <1>6, <1>7 DEF Next

(* Every row and every message keeps its type, for any number of grants,    *)
(* handlers, commands and faults: in particular no time column goes below   *)
(* zero, and a handler that is not idle works on a grant of a session (no   *)
(* step of redeem, extend or end runs on a missing row).                    *)
THEOREM TypeCorrect == Spec => []TypeOK
<1>1. Init => TypeOK
  BY InitTypeOK
<1>2. TypeOK /\ [Next]_vars => TypeOK'
  BY NextTypeOK
<1> QED BY <1>1, <1>2, PTL DEF Spec

-----------------------------------------------------------------------------
(* The time given back.                                                     *)

(* What is returned, and to whom, is written only by finishGrant and by the *)
(* sign-in repair; an owner is never taken away.                            *)
ReturnsKept == credited' = credited /\ voucher' = voucher

LEMMA CreditingSteps ==
  ASSUME TypeOK, [Next]_vars
  PROVE  /\ \/ ReturnsKept
            \/ \E grant \in Grant, told \in Nat : FinishGrant(grant, told)
            \/ ReconcileMissingRemainders
         /\ owned \subseteq owned'
<1> DEFINE Goal == /\ \/ ReturnsKept
                      \/ \E grant \in Grant, told \in Nat : FinishGrant(grant, told)
                      \/ ReconcileMissingRemainders
                   /\ owned \subseteq owned'
<1> USE DEF settled, returns, dbVars, ReturnsKept
<1>0. ASSUME NEW grant \in Grant, NEW told \in Nat, FinishGrant(grant, told)
      PROVE  Goal
  <2>1. owned' = owned
    BY <1>0 DEF FinishGrant
  <2> QED BY <1>0, <2>1
<1>1. ASSUME NEW w \in Worker, HandlerStep(w) PROVE Goal
  <2>1. CASE EndOk(w)
    <3>1. /\ proc[w].g \in Grant /\ proc[w].kept \in Nat /\ reply[w].val \in Nat
      BY <2>1, AtBusy, BusyFields, ReplyFields DEF EndOk, Step
    <3>2. \/ FinishGrant(proc[w].g, proc[w].kept)
          \/ FinishGrant(proc[w].g, reply[w].val)
      BY <2>1 DEF EndOk
    <3> QED BY <1>0, <3>1, <3>2
  <2>2. CASE SendStart(w) \/ SendExtend(w) \/ NoSessionToExtend(w) \/ EndError(w)
    BY <2>2 DEF SendStart, SendExtend, NoSessionToExtend, EndError
  <2>3. CASE RefundPlayerBalance(w) \/ StartOk(w) \/ StartError(w)
    BY <2>3 DEF RefundPlayerBalance, StartOk, StartError
  <2>4. CASE MarkApplying(w) \/ ExtendOk(w) \/ ExtendError(w)
    BY <2>4 DEF MarkApplying, ExtendOk, ExtendError
  <2> QED BY <1>1, <2>1, <2>2, <2>3, <2>4 DEF HandlerStep
<1>2. ASSUME NEW w \in Worker, NEW g \in Grant, Request(w, g) PROVE Goal
  <2>1. CASE AdminEnd(w, g)
    <3>1. \E told \in Nat : FinishGrant(g, told) \/ UNCHANGED dbVars
      BY <2>1, TimeTypes, GrantAssumption DEF AdminEnd
    <3> QED BY <1>0, <3>1
  <2>2. CASE RedeemStart(w, g) \/ KioskEnd(w, g)
    BY <2>2 DEF RedeemStart, KioskEnd
  <2>3. CASE RedeemExtend(w, g)
    BY <2>3 DEF RedeemExtend
  <2> QED BY <1>2, <2>1, <2>2, <2>3 DEF Request
<1>3. CASE SyncLoop
  BY <1>3 DEF SyncLoop, SyncLookup, SyncMerge, SyncPick, SyncExtend
<1>4. CASE Expire \/ ReconcileMissingRemainders
  BY <1>4 DEF Expire, ReconcileMissingRemainders
<1>5. CASE AgentStep
  <2>1. CASE AgentStop
    BY <2>1 DEF AgentStop
  <2>2. ASSUME NEW c \in cmds, AgentStart(c) \/ AgentExtend(c) \/ AgentEnd(c)
        PROVE  Goal
    <3>1. UNCHANGED dbVars
      BY <2>2 DEF AgentStart, AgentExtend, AgentEnd, Refuse, Answer
    <3> QED BY <3>1
  <2> QED BY <1>5, <2>1, <2>2 DEF AgentStep
<1>6. ASSUME NEW e \in wire, EventEnded(e) PROVE Goal
  <2>1. PICK g \in Grant :
          FinishGrant(g, IF e.val = 0 /\ e.kind = "ended" THEN TimeLeft(g)
                                                          ELSE e.val)
    BY <1>6 DEF EventEnded, TypeOK, Event
  <2>2. (IF e.val = 0 /\ e.kind = "ended" THEN TimeLeft(g) ELSE e.val) \in Nat
    BY TimeTypes DEF TypeOK, Event
  <2> QED BY <1>0, <2>1, <2>2
<1>7. ASSUME NEW e \in wire, EventStarted(e) \/ EventExtended(e) \/ EventFailed(e)
      PROVE  Goal
  BY <1>7 DEF EventStarted, EventExtended, EventFailed
<1>8. CASE \/ \E w \in Worker : Crash(w)
           \/ Heartbeat \/ AgentOffline \/ LoseCommand \/ Tick
  BY <1>8 DEF Crash, Heartbeat, AgentOffline, LoseCommand, Tick
<1>9. CASE UNCHANGED vars
  BY <1>9 DEF vars
<1> QED BY <1>1, <1>2, <1>3, <1>4, <1>5, <1>6, <1>7, <1>8, <1>9
        DEF Next, CoreEvent

(* Each channel is written once: the ledger for a session with an owner,    *)
(* the voucher for one without, and a voucher becomes void only when the    *)
(* repair gives the owner the time instead.                                 *)
Returning(r) ==
  LET bound == Deadline(r) - ended'[r] IN
  /\ credited'[r] # credited[r]
       => credited[r] = 0 /\ r \in owned /\ credited'[r] <= bound
  /\ voucher'[r] # voucher[r]
       => \/ voucher[r] = 0 /\ r \notin owned /\ voucher'[r] <= bound
          \/ voucher'[r] = 0 /\ credited[r] = 0 /\ r \in owned

(* A return by finishGrant is the first one of its row in that channel, and *)
(* fits between the end it records and the planned end.                     *)
LEMMA FinishGrantReturns ==
  ASSUME TypeOK, NEW grant \in Grant, NEW told \in Nat, FinishGrant(grant, told),
         NEW r \in Grant
  PROVE  Returning(r)
<1> DEFINE g == IF parent[grant] = NoGrant THEN grant ELSE parent[grant]
           left == BoundedSessionRemainder(TimeLeft(g), told)
           children == {c \in Grant : /\ parent[c] = g
                                      /\ status[c] \in {"pending", "extended"}}
<1>1. g \in Grant
  BY DEF TypeOK, OrNull
<1>2. CASE status[g] # "accepted"
  BY <1>2 DEF FinishGrant, dbVars, Returning
<1>3. CASE status[g] = "accepted"
  <2>1. /\ ended' = [x \in Grant |->
                       IF x = g \/ x \in children THEN now ELSE ended[x]]
        /\ credited' = IF left > 0 /\ g \in owned /\ credited[g] = 0
                       THEN [credited EXCEPT ![g] = left] ELSE credited
        /\ voucher' = IF left > 0 /\ g \notin owned /\ voucher[g] = 0
                      THEN [voucher EXCEPT ![g] = left] ELSE voucher
    BY <1>3 DEF FinishGrant
  <2>2. left \in Nat /\ (left > 0 => left <= Deadline(g) - now)
    <3> HIDE DEF g
    <3>1. TimeLeft(g) \in Nat /\ (TimeLeft(g) > 0 => TimeLeft(g) = Deadline(g) - now)
      BY <1>1, TimeTypes
    <3>2. Deadline(g) \in Nat /\ now \in Nat
      BY <1>1, TimeTypes DEF TypeOK
    <3>3. left \in Nat /\ left <= TimeLeft(g)
      BY <3>1, RemainderBound
    <3> HIDE DEF left
    <3> QED BY <3>1, <3>2, <3>3
  <2> HIDE DEF g, left, children
  <2>3. credited'[r] # credited[r] => /\ credited[r] = 0 /\ r \in owned
                                      /\ left > 0 /\ credited'[r] = left /\ r = g
    BY <1>1, <2>1 DEF TypeOK
  <2>4. voucher'[r] # voucher[r] => /\ voucher[r] = 0 /\ r \notin owned
                                    /\ left > 0 /\ voucher'[r] = left /\ r = g
    BY <1>1, <2>1 DEF TypeOK
  <2>5. r = g => ended'[r] = now
    BY <1>1, <2>1
  <2> QED BY <2>2, <2>3, <2>4, <2>5 DEF Returning
<1> QED BY <1>2, <1>3

LEMMA ReconcileReturns ==
  ASSUME TypeOK, ReconcileMissingRemainders, NEW r \in Grant
  PROVE  Returning(r)
<1>1. /\ credited'[r] = IF MissingRemainder(r) THEN Deadline(r) - ended[r]
                                               ELSE credited[r]
      /\ ended' = ended
  BY DEF TypeOK, ReconcileMissingRemainders
<1>2. PICK used :
        voucher' = [g \in Grant |-> IF MissingRemainder(g) /\ g \notin used
                                    THEN 0 ELSE voucher[g]]
  BY DEF ReconcileMissingRemainders
<1>3. voucher'[r] # voucher[r] => MissingRemainder(r) /\ voucher'[r] = 0
  BY <1>2
<1>4. MissingRemainder(r) => credited[r] = 0 /\ r \in owned
  BY DEF MissingRemainder
<1>5. Deadline(r) \in Nat /\ ended[r] \in Nat
  BY TimeTypes DEF TypeOK
<1> QED BY <1>1, <1>3, <1>4, <1>5 DEF Returning

LEMMA ReturnSteps ==
  ASSUME TypeOK, [Next]_vars, NEW r \in Grant
  PROVE  Returning(r)
<1>1. CASE ReturnsKept
  BY <1>1 DEF ReturnsKept, Returning
<1>2. CASE \E grant \in Grant, told \in Nat : FinishGrant(grant, told)
  BY <1>2, FinishGrantReturns
<1>3. CASE ReconcileMissingRemainders
  BY <1>3, ReconcileReturns
<1> QED BY <1>1, <1>2, <1>3, CreditingSteps

(* Only a session with an owner is returned in the ledger, and an owner     *)
(* stays.                                                                   *)
CreditOwned == \A g \in Grant : credited[g] # 0 => g \in owned

LEMMA InitCreditOwned == Init => CreditOwned
  BY DEF Init, CreditOwned

LEMMA NextCreditOwned == TypeOK /\ CreditOwned /\ [Next]_vars => CreditOwned'
<1> SUFFICES ASSUME TypeOK, CreditOwned, [Next]_vars, NEW g \in Grant, credited'[g] # 0
             PROVE  g \in owned'
  BY DEF CreditOwned
<1>1. credited[g] # 0 \/ g \in owned
  BY ReturnSteps DEF Returning
<1> QED BY <1>1, CreditingSteps DEF CreditOwned

(* However many handlers, events and repairs end a session, in whatever     *)
(* order, its unused time is given back at most once: finishGrant, called   *)
(* by the admin's and the kiosk's end and by the Agent's events, and the    *)
(* sign-in repair never return time in the ledger twice, and never by       *)
(* ledger and voucher both unless the owner came after the voucher.         *)
THEOREM ReturnedOnce == Spec => ReturnOnce
<1> DEFINE Once == \A g \in Grant :
                     /\ credited[g] # 0 => credited'[g] = credited[g]
                     /\ Back(g) # 0 /\ ~ LateOwner(g) => Back(g)' = Back(g)
<1>1. TypeOK /\ CreditOwned /\ [Next]_vars => [Once]_vars
  <2> SUFFICES ASSUME TypeOK, CreditOwned, [Next]_vars PROVE Once
    OBVIOUS
  <2>1. ASSUME NEW g \in Grant
        PROVE  /\ credited[g] # 0 => credited'[g] = credited[g]
               /\ Back(g) # 0 /\ ~ LateOwner(g) => Back(g)' = Back(g)
    <3>1. credited[g] # 0 => credited'[g] = credited[g]
      BY ReturnSteps DEF Returning
    <3>2. ASSUME Back(g) # 0, ~ LateOwner(g)
          PROVE  credited'[g] = credited[g] /\ voucher'[g] = voucher[g]
      <4>1. credited[g] # 0 \/ voucher[g] # 0
        BY <3>2 DEF Back
      <4>2. CASE credited[g] # 0
        BY <3>2, <4>2, ReturnSteps DEF Returning, CreditOwned, LateOwner
      <4>3. CASE voucher[g] # 0
        BY <3>2, <4>3, ReturnSteps DEF Returning, LateOwner
      <4> QED BY <4>1, <4>2, <4>3
    <3> QED BY <3>1, <3>2 DEF Back
  <2> QED BY <2>1
<1>2. Spec => []CreditOwned
  BY InitCreditOwned, NextCreditOwned, TypeCorrect, PTL DEF Spec
<1> QED BY <1>1, <1>2, TypeCorrect, PTL DEF Spec, ReturnOnce

(* Whatever countdown the Agent or the staff sends, no return is larger     *)
(* than the time between the end recorded and the planned end: the bound    *)
(* boundedSessionRemainder puts on it holds on every path.                  *)
THEOREM ReturnedWithinPlan == Spec => ReturnWithinPlan
<1> DEFINE Within == \A g \in Grant : LET bound == Deadline(g) - ended'[g] IN
                       /\ credited'[g] # credited[g] => credited'[g] <= bound
                       /\ voucher'[g] \notin {voucher[g], 0} => voucher'[g] <= bound
<1>1. TypeOK /\ [Next]_vars => [Within]_vars
  BY ReturnSteps DEF Returning
<1> QED BY <1>1, TypeCorrect, PTL DEF Spec, ReturnWithinPlan

-----------------------------------------------------------------------------
(* Extensions are counted once.                                             *)

(* What became of a grant that is not waiting to be extended.  An           *)
(* offline_failed root may wait for a start, a child of that status waits   *)
(* for nothing.                                                             *)
Past == {"accepted", "extended", "ended", "start_failed", "offline_failed"}

(* The applied children that can never be applied again.  A child that is   *)
(* put back in the queue may have an accepted_at of an earlier life.        *)
Counted(r) == {c \in AppliedChildren(r) : status[c] \in Past}
CountedOnce == \A r \in Grant : dur[r] <= Dur[r] + Sum(Counted(r), Dur)

(* Times on the clock and on the events are not NULL.                       *)
Clocked == now # 0 /\ \A e \in wire : e.at # 0

(* A handler at work on an extension holds a child of its root.  The edge   *)
(* loop starts roots only, and what it merged nobody else works on.         *)
Claiming == {"mark", "read", "extend"}
Starting == {"picked", "merge", "send", "start"}
Handlers ==
  /\ \A w \in Worker :
       /\ proc[w].at # "idle" => status[proc[w].g] # "none"
       /\ proc[w].at \in Claiming => parent[proc[w].g] = proc[w].root
       /\ proc[w].at = "extend" => proc[w].root # proc[w].g
       /\ proc[w].merge => w = Sync
  /\ proc[Sync].at \in Starting => parent[proc[Sync].g] = NoGrant
  /\ proc[Sync].merge =>
       \A w \in Worker \ {Sync} : proc[w].at \in Claiming => proc[w].g # proc[Sync].g

CountInv == Clocked /\ Handlers /\ CountedOnce

(* Time passes, and events carry the time they were emitted at.             *)
LEMMA ClockedStays == ASSUME TypeOK, Clocked, [Next]_vars PROVE Clocked'
<1> USE DEF Clocked, netVars
<1>1. ASSUME now' = now \/ now' = now + 1,
             \A e \in wire' : e \in wire \/ e.at = now
      PROVE  Clocked'
  BY <1>1 DEF TypeOK
<1>2. CASE now' = now /\ wire' \subseteq wire
  BY <1>1, <1>2
<1>3. ASSUME now' = now, NEW kind, NEW g, NEW root, NEW val, Emit(kind, g, root, val)
      PROVE  Clocked'
  BY <1>1, <1>3 DEF Emit
<1>4. ASSUME NEW w \in Worker, HandlerStep(w) \/ Crash(w) PROVE Clocked'
  <2>1. CASE SendStart(w) \/ RefundPlayerBalance(w) \/ StartOk(w) \/ StartError(w) \/ Crash(w)
    BY <1>2, <2>1 DEF SendStart, RefundPlayerBalance, StartOk, StartError, Crash
  <2>2. CASE MarkApplying(w) \/ SendExtend(w) \/ NoSessionToExtend(w) \/ ExtendOk(w) \/ ExtendError(w)
    BY <1>2, <2>2 DEF MarkApplying, SendExtend, NoSessionToExtend, ExtendOk, ExtendError
  <2>3. CASE EndOk(w) \/ EndError(w)
    BY <1>2, <2>3 DEF EndOk, EndError
  <2> QED BY <1>4, <2>1, <2>2, <2>3 DEF HandlerStep
<1>5. ASSUME NEW w \in Worker, NEW g \in Grant, Request(w, g) PROVE Clocked'
  BY <1>2, <1>5 DEF Request, RedeemStart, RedeemExtend, AdminEnd, KioskEnd
<1>6. CASE SyncLoop
  BY <1>2, <1>6 DEF SyncLoop, SyncLookup, SyncMerge, SyncPick, SyncExtend
<1>7. CASE Expire \/ ReconcileMissingRemainders
  BY <1>2, <1>7 DEF Expire, ReconcileMissingRemainders
<1>8. ASSUME NEW c \in cmds, AgentStart(c) \/ AgentExtend(c) \/ AgentEnd(c) PROVE Clocked'
  <2>1. now' = now
    BY <1>8 DEF AgentStart, AgentExtend, AgentEnd, Refuse, Answer
  <2>2. UNCHANGED wire \/ \E kind, g, root, val : Emit(kind, g, root, val)
    BY <1>8 DEF AgentStart, AgentExtend, AgentEnd, Refuse
  <2> QED BY <1>2, <1>3, <2>1, <2>2
<1>9. CASE AgentStop
  BY <1>3, <1>9 DEF AgentStop
<1>10. ASSUME NEW e \in wire, NEW kinds, Receive(e, kinds) PROVE Clocked'
  BY <1>2, <1>10 DEF Receive
<1>11. CASE CoreEvent
  BY <1>10, <1>11 DEF CoreEvent, EventStarted, EventExtended, EventEnded, EventFailed
<1>12. CASE Heartbeat \/ AgentOffline \/ LoseCommand
  BY <1>2, <1>12 DEF Heartbeat, AgentOffline, LoseCommand
<1>13. CASE Tick
  BY <1>1, <1>13 DEF Tick
<1>14. CASE UNCHANGED vars
  BY <1>2, <1>14 DEF vars
<1> QED BY <1>4, <1>5, <1>6, <1>7, <1>8, <1>9, <1>11, <1>12, <1>13, <1>14 DEF Next, AgentStep

-----------------------------------------------------------------------------
(* What most steps do to the rows, and to the handlers.                     *)

NoneStays == \A g \in Grant : status'[g] = "none" => status[g] = "none"
CountStays ==
  \A c \in Grant : /\ status[c] \in Past /\ accepted[c] # 0 /\ parent[c] # NoGrant
                  => status'[c] \in Past /\ accepted'[c] # 0 /\ parent'[c] = parent[c]
RowsPass ==
  /\ UNCHANGED <<parent, dur>>
  /\ \A g \in Grant : /\ status'[g] = status[g] \/ status'[g] \in Past
                      /\ accepted'[g] = accepted[g] \/ accepted'[g] # 0

LEMMA RowsPassStays == ASSUME RowsPass PROVE NoneStays /\ CountStays
BY DEF RowsPass, NoneStays, CountStays, Past

(* With the rows that count, the bound stays.                               *)
LEMMA BoundStays ==
  ASSUME TypeOK, TypeOK', CountedOnce, CountStays,
         \A r \in Grant : dur'[r] = dur[r] \/ dur'[r] = Dur[r]
  PROVE  CountedOnce'
<1> SUFFICES ASSUME NEW r \in Grant PROVE dur'[r] <= Dur[r] + Sum(Counted(r)', Dur)
  BY DEF CountedOnce
<1> DEFINE old == Counted(r)
           new == Counted(r)'
<1>1. r # NoGrant
  BY GrantAssumption
<1>2. old \subseteq new /\ new \subseteq Grant
  BY <1>1 DEF Counted, AppliedChildren, CountStays
<1>3. IsFiniteSet(new) /\ \A c \in new : Dur[c] \in Nat
  BY <1>2, GrantAssumption, FS_Subset
<1>4. dur[r] <= Dur[r] + Sum(old, Dur)
  BY DEF CountedOnce
<1>5. dur[r] \in Nat /\ Dur[r] \in Nat
  BY GrantAssumption DEF TypeOK
<1> HIDE DEF old, new
<1>6. Sum(old, Dur) \in Nat /\ Sum(new, Dur) \in Nat /\ Sum(old, Dur) <= Sum(new, Dur)
  BY <1>2, <1>3, SumGrows
<1>7. dur'[r] <= Dur[r] + Sum(new, Dur)
  BY <1>4, <1>5, <1>6
<1> QED BY <1>7 DEF new

(* A handler goes on as it was, or is idle.                                 *)
Kept(w) ==
  \/ proc'[w] = Idle
  \/ /\ proc'[w].at = proc[w].at /\ proc'[w].g = proc[w].g
     /\ proc'[w].root = proc[w].root /\ proc'[w].merge = proc[w].merge

LEMMA HandlersStay ==
  ASSUME Handlers, UNCHANGED parent, NoneStays, TypeOK, \A w \in Worker : Kept(w)
  PROVE  Handlers'
<1>1. Sync \in Worker
  BY GrantAssumption
<1>2. Idle.at = "idle" /\ Idle.merge = FALSE
  BY DEF Idle
<1>3. ASSUME NEW w \in Worker, proc'[w].at # "idle" \/ proc'[w].merge
      PROVE  /\ proc'[w].at = proc[w].at /\ proc'[w].g = proc[w].g
             /\ proc'[w].root = proc[w].root /\ proc'[w].merge = proc[w].merge
  BY <1>2, <1>3 DEF Kept
<1>4. \A w \in Worker : proc[w].at # "idle" => proc[w].g \in Grant
  BY DEF TypeOK, Busy, Idle
<1>5. ASSUME NEW w \in Worker
      PROVE  /\ proc'[w].at # "idle" => status'[proc'[w].g] # "none"
             /\ proc'[w].at \in Claiming => parent'[proc'[w].g] = proc'[w].root
             /\ proc'[w].at = "extend" => proc'[w].root # proc'[w].g
             /\ proc'[w].merge => w = Sync
  BY <1>3, <1>4 DEF Handlers, NoneStays, Claiming
<1>6. proc'[Sync].at \in Starting => parent'[proc'[Sync].g] = NoGrant
  BY <1>1, <1>3 DEF Handlers, Starting
<1>7. proc'[Sync].merge =>
        \A w \in Worker \ {Sync} : proc'[w].at \in Claiming => proc'[w].g # proc'[Sync].g
  BY <1>1, <1>3 DEF Handlers, Claiming
<1> QED BY <1>5, <1>6, <1>7 DEF Handlers, Claiming, Starting

(* One handler moves; it changes no parent another one relies on.           *)
LEMMA HandlerMoves ==
  ASSUME Handlers, NoneStays, TypeOK, NEW w \in Worker, \A v \in Worker \ {w} : Kept(v),
         \A v \in Worker \ {w} : proc[v].at \in Claiming \/ (v = Sync /\ proc[v].at \in Starting)
                                  => parent'[proc[v].g] = parent[proc[v].g],
         NEW p, proc'[w] = p,
         p.at # "idle" => status'[p.g] # "none",
         p.at \in Claiming => parent'[p.g] = p.root,
         p.at = "extend" => p.root # p.g,
         w = Sync /\ p.at \in Starting => parent'[p.g] = NoGrant,
         p.merge => w = Sync /\ \A v \in Worker \ {w} : proc[v].at \in Claiming => proc[v].g # p.g,
         w # Sync /\ proc[Sync].merge /\ p.at \in Claiming => p.g # proc[Sync].g
  PROVE  Handlers'
<1>1. Sync \in Worker
  BY GrantAssumption
<1>2. Idle.at = "idle" /\ Idle.merge = FALSE
  BY DEF Idle
<1>3. ASSUME NEW v \in Worker, v # w, proc'[v].at # "idle" \/ proc'[v].merge
      PROVE  /\ proc'[v].at = proc[v].at /\ proc'[v].g = proc[v].g
             /\ proc'[v].root = proc[v].root /\ proc'[v].merge = proc[v].merge
  BY <1>2, <1>3 DEF Kept
<1>4. \A v \in Worker : proc[v].at # "idle" => proc[v].g \in Grant
  BY DEF TypeOK, Busy, Idle
<1>5. ASSUME NEW v \in Worker
      PROVE  /\ proc'[v].at # "idle" => status'[proc'[v].g] # "none"
             /\ proc'[v].at \in Claiming => parent'[proc'[v].g] = proc'[v].root
             /\ proc'[v].at = "extend" => proc'[v].root # proc'[v].g
             /\ proc'[v].merge => v = Sync
  <2>1. CASE v = w
    BY <2>1
  <2>2. CASE v # w
    BY <1>3, <1>4, <2>2 DEF Handlers, NoneStays, Claiming
  <2> QED BY <2>1, <2>2
<1>6. proc'[Sync].at \in Starting => parent'[proc'[Sync].g] = NoGrant
  <2>1. CASE Sync = w
    BY <2>1
  <2>2. CASE Sync # w
    BY <1>1, <1>3, <2>2 DEF Handlers, Starting
  <2> QED BY <2>1, <2>2
<1>7. ASSUME proc'[Sync].merge, NEW v \in Worker \ {Sync}, proc'[v].at \in Claiming
      PROVE  proc'[v].g # proc'[Sync].g
  <2>1. CASE v = w
    BY <1>1, <1>3, <1>7, <2>1
  <2>2. CASE Sync = w
    BY <1>3, <1>7, <2>2 DEF Claiming
  <2>3. CASE v # w /\ Sync # w
    BY <1>1, <1>3, <1>7, <2>3 DEF Handlers, Claiming
  <2> QED BY <2>1, <2>2, <2>3
<1> QED BY <1>5, <1>6, <1>7 DEF Handlers, Claiming, Starting

(* Stopping to wait takes nothing from the others but their command.        *)
LEMMA ForgettingKeeps ==
  ASSUME TypeOK, NEW w \in Worker, NEW g, NEW p, proc' = Forgetting(g, w, p)
  PROVE  proc'[w] = p /\ \A v \in Worker \ {w} : Kept(v)
<1>1. proc'[w] = p
  BY DEF Forgetting
<1>2. ASSUME NEW v \in Worker \ {w} PROVE Kept(v)
  <2>1. CASE At(v, "start") /\ proc[v].g = g
    <3>1. proc[v] \in Busy
      BY <2>1, AtBusy DEF Step
    <3>2. proc'[v] = [proc[v] EXCEPT !.call = 0]
      BY <2>1 DEF Forgetting
    <3> QED BY <3>1, <3>2 DEF Kept, Busy
  <2>2. CASE ~ (At(v, "start") /\ proc[v].g = g)
    BY <2>2 DEF Forgetting, Kept
  <2> QED BY <2>1, <2>2
<1> QED BY <1>1, <1>2

LEMMA ReturnKeeps ==
  ASSUME TypeOK, NEW w \in Worker, Return(w)
  PROVE  proc'[w] = Idle /\ \A v \in Worker : Kept(v)
<1>1. CASE At(w, "start")
  BY <1>1, ForgettingKeeps DEF Return, Kept
<1>2. CASE ~ At(w, "start")
  BY <1>2 DEF Return, Kept, TypeOK
<1> QED BY <1>1, <1>2

LEMMA DispatchKeeps ==
  ASSUME TypeOK, NEW w \in Worker, NEW op, NEW step, NEW p, NEW add, Dispatch(w, op, step, p, add)
  PROVE  proc'[w] = Sent(p, step, calls + 1) /\ \A v \in Worker \ {w} : Kept(v)
<1>1. proc' = IF op = "start" THEN Forgetting(p.g, w, Sent(p, step, calls + 1))
              ELSE [proc EXCEPT ![w] = Sent(p, step, calls + 1)]
  BY DEF Dispatch, Sent
<1>2. CASE op = "start"
  BY <1>1, <1>2, ForgettingKeeps
<1>3. CASE op # "start"
  BY <1>1, <1>3 DEF Kept, TypeOK
<1> QED BY <1>2, <1>3

LEMMA ProcSame == ASSUME UNCHANGED proc PROVE \A w \in Worker : Kept(w)
BY DEF Kept

(* finishGrant ends rows, whatever else it does.                            *)
LEMMA FinishGrantPasses ==
  ASSUME TypeOK, NEW grant \in Grant, NEW told \in Nat, FinishGrant(grant, told)
  PROVE  RowsPass
<1> DEFINE g == IF parent[grant] = NoGrant THEN grant ELSE parent[grant]
           children == {c \in Grant : /\ parent[c] = g
                                      /\ status[c] \in {"pending", "extended"}}
<1>1. CASE status[g] # "accepted"
  BY <1>1 DEF FinishGrant, dbVars, RowsPass
<1>2. CASE status[g] = "accepted"
  <2>1. /\ status' = [x \in Grant |->
                        IF x = g \/ x \in children THEN "ended" ELSE status[x]]
        /\ UNCHANGED <<parent, dur, accepted>>
    BY <1>2 DEF FinishGrant, deadlines
  <2> HIDE DEF g, children
  <2> QED BY <2>1 DEF RowsPass, Past
<1> QED BY <1>1, <1>2

(* The steps that pass a handler or none, and leave the rows of waiting     *)
(* extensions alone or end them.                                            *)
LEMMA HandlersPass ==
  ASSUME TypeOK, Clocked, NEW w \in Worker,
         \/ RefundPlayerBalance(w) \/ StartOk(w) \/ NoSessionToExtend(w)
         \/ EndOk(w) \/ EndError(w) \/ Crash(w)
         \/ StartError(w) /\ w # Sync
  PROVE  RowsPass /\ \A v \in Worker : Kept(v)
<1> USE DEF dbVars, deadlines, settled, returns
<1>1. CASE RefundPlayerBalance(w)
  <2>1. /\ UNCHANGED <<parent, dur, accepted>> /\ Return(w)
        /\ \A g \in Grant : status'[g] = status[g] \/ status'[g] = "start_failed"
    BY <1>1 DEF RefundPlayerBalance, TypeOK
  <2> QED BY <2>1, ReturnKeeps DEF RowsPass, Past
<1>2. CASE StartOk(w)
  <2>1. /\ UNCHANGED <<parent, dur>> /\ Return(w)
        /\ \A g \in Grant : /\ status'[g] = status[g] \/ status'[g] = "accepted"
                            /\ accepted'[g] = accepted[g] \/ accepted'[g] = now
    BY <1>2 DEF StartOk, TypeOK
  <2> QED BY <2>1, ReturnKeeps DEF RowsPass, Past, Clocked
<1>3. CASE StartError(w) /\ w # Sync
  <2>1. /\ UNCHANGED <<parent, dur, accepted>> /\ Return(w)
        /\ \A g \in Grant : status'[g] \in {status[g], "start_failed", "offline_failed"}
    BY <1>3 DEF StartError, TypeOK
  <2> QED BY <2>1, ReturnKeeps DEF RowsPass, Past
<1>4. CASE NoSessionToExtend(w) \/ EndError(w) \/ Crash(w)
  <2>1. UNCHANGED <<parent, dur, accepted, status>> /\ Return(w)
    BY <1>4 DEF NoSessionToExtend, EndError, Crash
  <2> QED BY <2>1, ReturnKeeps DEF RowsPass
<1>5. CASE EndOk(w)
  <2>1. /\ proc[w].g \in Grant /\ proc[w].kept \in Nat /\ reply[w].val \in Nat
    BY <1>5, AtBusy, BusyFields, ReplyFields DEF EndOk, Step
  <2>2. FinishGrant(proc[w].g, proc[w].kept) \/ FinishGrant(proc[w].g, reply[w].val)
    BY <1>5 DEF EndOk
  <2>3. Return(w)
    BY <1>5 DEF EndOk
  <2> HIDE DEF dbVars, deadlines, settled, returns
  <2> QED BY <2>1, <2>2, <2>3, FinishGrantPasses, ReturnKeeps
<1> QED BY <1>1, <1>2, <1>3, <1>4, <1>5

LEMMA RepairsPass ==
  ASSUME TypeOK, Expire \/ ReconcileMissingRemainders \/ Heartbeat \/ AgentOffline
                 \/ LoseCommand \/ Tick \/ UNCHANGED vars
  PROVE  RowsPass /\ UNCHANGED proc
<1> USE DEF dbVars, apiVars, deadlines, settled, returns
<1>1. CASE Expire
  <2>1. UNCHANGED <<parent, dur, accepted, proc>>
    BY <1>1 DEF Expire
  <2>2. \A g \in Grant : status'[g] = status[g] \/ status'[g] = "ended"
    BY <1>1 DEF Expire
  <2> QED BY <2>1, <2>2 DEF RowsPass, Past
<1>2. CASE ReconcileMissingRemainders
  BY <1>2 DEF ReconcileMissingRemainders, RowsPass
<1>3. CASE Heartbeat \/ AgentOffline \/ LoseCommand \/ Tick
  BY <1>3 DEF Heartbeat, AgentOffline, LoseCommand, Tick, RowsPass
<1>4. CASE UNCHANGED vars
  BY <1>4 DEF vars, RowsPass
<1> QED BY <1>1, <1>2, <1>3, <1>4

LEMMA AgentPasses ==
  ASSUME TypeOK, Clocked, AgentStep \/ CoreEvent
  PROVE  RowsPass /\ UNCHANGED proc
<1> USE DEF dbVars, apiVars, deadlines, settled, returns
<1>1. CASE AgentStop
  BY <1>1 DEF AgentStop, RowsPass
<1>2. ASSUME NEW c \in cmds, AgentStart(c) \/ AgentExtend(c) \/ AgentEnd(c)
      PROVE  RowsPass /\ UNCHANGED proc
  <2>1. UNCHANGED <<status, parent, dur, accepted, proc>>
    BY <1>2 DEF AgentStart, AgentExtend, AgentEnd, Refuse, Answer
  <2> QED BY <2>1 DEF RowsPass
<1>3. ASSUME NEW e \in wire, EventStarted(e) PROVE RowsPass /\ UNCHANGED proc
  <2>1. e.at # 0
    BY DEF Clocked
  <2>2. /\ UNCHANGED <<parent, dur, proc>>
        /\ \A g \in Grant : /\ status'[g] = status[g] \/ status'[g] = "accepted"
                            /\ accepted'[g] = accepted[g] \/ accepted'[g] = e.at
    BY <1>3 DEF EventStarted, Receive, TypeOK
  <2> QED BY <2>1, <2>2 DEF RowsPass, Past
<1>4. ASSUME NEW e \in wire, EventExtended(e) PROVE RowsPass /\ UNCHANGED proc
  BY <1>4 DEF EventExtended, Receive, RowsPass
<1>5. ASSUME NEW e \in wire, EventEnded(e) PROVE RowsPass /\ UNCHANGED proc
  <2>1. PICK g \in Grant :
          FinishGrant(g, IF e.val = 0 /\ e.kind = "ended" THEN TimeLeft(g)
                                                          ELSE e.val)
    BY <1>5 DEF EventEnded, TypeOK, Event
  <2>2. (IF e.val = 0 /\ e.kind = "ended" THEN TimeLeft(g) ELSE e.val) \in Nat
    BY TimeTypes DEF TypeOK, Event
  <2>3. RowsPass
    BY <2>1, <2>2, FinishGrantPasses
  <2> QED BY <1>5, <2>3 DEF EventEnded, Receive
<1>6. ASSUME NEW e \in wire, EventFailed(e) PROVE RowsPass /\ UNCHANGED proc
  <2>1. /\ UNCHANGED <<parent, dur, accepted, proc>>
        /\ \A g \in Grant : status'[g] = status[g] \/ status'[g] = "start_failed"
    BY <1>6 DEF EventFailed, Receive
  <2> QED BY <2>1 DEF RowsPass, Past
<1> QED BY <1>1, <1>2, <1>3, <1>4, <1>5, <1>6 DEF AgentStep, CoreEvent

LEMMA PassingKeeps ==
  ASSUME TypeOK, TypeOK', Handlers, CountedOnce, RowsPass, \A w \in Worker : Kept(w)
  PROVE  Handlers' /\ CountedOnce'
<1>1. NoneStays /\ CountStays /\ UNCHANGED <<parent, dur>>
  BY RowsPassStays DEF RowsPass
<1> QED BY <1>1, HandlersStay, BoundStays

-----------------------------------------------------------------------------
(* The steps of a sale, of the edge loop and of an extension.               *)

LEMMA RedeemCounts ==
  ASSUME TypeOK, TypeOK', CountInv, NEW w \in Worker, NEW g \in Grant,
         RedeemStart(w, g) \/ RedeemExtend(w, g)
  PROVE  Handlers' /\ CountedOnce'
<1> USE DEF deadlines
<1>1. /\ status[g] = "none" /\ status' = [status EXCEPT ![g] = "pending"] /\ w # Sync
      /\ dur' = [dur EXCEPT ![g] = Dur[g]] /\ UNCHANGED accepted
  BY DEF RedeemStart, RedeemExtend
<1>2. \A c \in Grant : c # g => status'[c] = status[c]
  BY <1>1 DEF TypeOK
<1>3. \A c \in Grant : c # g => parent'[c] = parent[c]
  BY DEF RedeemStart, RedeemExtend, TypeOK
<1>4. NoneStays
  BY <1>1, <1>2 DEF NoneStays
<1>5. CountStays
  BY <1>1, <1>2, <1>3 DEF CountStays, Past
<1>6. CountedOnce'
  <2>1. \A r \in Grant : dur'[r] = dur[r] \/ dur'[r] = Dur[r]
    BY <1>1 DEF TypeOK
  <2> QED BY <1>5, <2>1, BoundStays DEF CountInv
<1>7. PICK p : /\ proc' = [proc EXCEPT ![w] = p] /\ p.g = g /\ p.at \in {"send", "mark"}
              /\ ~ p.merge /\ (p.at = "mark" => parent'[g] = p.root)
  <2>1. CASE RedeemStart(w, g)
    <3> DEFINE q == [Idle EXCEPT !.at = "send", !.g = g, !.root = g]
    <3>1. q.g = g /\ q.at = "send" /\ ~ q.merge
      BY DEF Idle
    <3>2. proc' = [proc EXCEPT ![w] = q]
      BY <2>1 DEF RedeemStart
    <3> HIDE DEF q
    <3> QED BY <3>1, <3>2
  <2>2. CASE RedeemExtend(w, g)
    <3>1. PICK root \in Grant :
            /\ parent' = [parent EXCEPT ![g] = root]
            /\ proc' = [proc EXCEPT ![w] = [Idle EXCEPT !.at = "mark", !.g = g, !.root = root]]
      BY <2>2 DEF RedeemExtend
    <3> DEFINE q == [Idle EXCEPT !.at = "mark", !.g = g, !.root = root]
    <3>2. q.g = g /\ q.at = "mark" /\ ~ q.merge /\ q.root = root /\ parent'[g] = root
      BY <3>1 DEF Idle, TypeOK
    <3>3. proc' = [proc EXCEPT ![w] = q]
      BY <3>1
    <3> HIDE DEF q
    <3> QED BY <3>2, <3>3
  <2> QED BY <2>1, <2>2
<1>8. proc'[w] = p /\ \A v \in Worker \ {w} : Kept(v)
  BY <1>7 DEF Kept, TypeOK
<1>9. \A v \in Worker : proc[v].at # "idle" => proc[v].g # g /\ proc[v].g \in Grant
  BY <1>1 DEF CountInv, Handlers, TypeOK, Busy, Idle
<1>10. \A v \in Worker \ {w} : proc[v].at \in Claiming \/ (v = Sync /\ proc[v].at \in Starting)
                                => parent'[proc[v].g] = parent[proc[v].g]
  BY <1>3, <1>9 DEF Claiming, Starting
<1>11. status'[g] # "none"
  BY <1>1 DEF TypeOK
<1>12. proc[Sync].merge => proc[Sync].at # "idle"
  <2>1. proc[Sync] \in Busy \union {Idle}
    BY GrantAssumption DEF TypeOK
  <2> QED BY <2>1 DEF Busy, Step, Idle
<1>13. w # Sync /\ proc[Sync].merge /\ p.at \in Claiming => p.g # proc[Sync].g
  BY <1>7, <1>9, <1>12, GrantAssumption
<1>14. Handlers /\ p.at # "extend"
  BY <1>7 DEF CountInv
<1>15. Handlers'
  BY <1>1, <1>4, <1>7, <1>8, <1>10, <1>11, <1>13, <1>14, HandlerMoves DEF Claiming
<1> QED BY <1>6, <1>15

(* A command leaves the rows alone.                                         *)
LEMMA SendCounts ==
  ASSUME TypeOK, TypeOK', CountInv, NEW w \in Worker,
         \/ SendStart(w) \/ SendExtend(w)
         \/ \E g \in Grant : KioskEnd(w, g) \/ (AdminEnd(w, g) /\ core[g] # NoGrant)
  PROVE  Handlers' /\ CountedOnce'
<1> USE DEF dbVars, deadlines
<1>1. UNCHANGED <<status, parent, dur, accepted>>
  BY DEF SendStart, SendExtend, KioskEnd, AdminEnd
<1>2. RowsPass /\ NoneStays /\ CountStays
  BY <1>1, RowsPassStays DEF RowsPass
<1>3. CountedOnce'
  BY <1>1, <1>2, BoundStays DEF CountInv
<1>4. Handlers
  BY DEF CountInv
<1>5. CASE SendStart(w)
  <2> DEFINE q == Keeping(proc[w], now + Dur[proc[w].g])
             p == Sent(q, "start", calls + 1)
  <2>1. Dispatch(w, "start", "start", q, dur[proc[w].g])
    BY <1>5 DEF SendStart, Keeping
  <2>2. proc[w] \in Busy /\ proc[w].at = "send"
    BY <1>5, AtBusy DEF SendStart, Step, At
  <2>3. p.at = "start" /\ p.g = proc[w].g /\ p.merge = proc[w].merge
    BY <2>2 DEF Busy, Keeping, Sent
  <2>4. proc'[w] = p /\ \A v \in Worker \ {w} : Kept(v)
    <3> HIDE DEF q
    <3> QED BY <2>1, DispatchKeeps
  <2> HIDE DEF p
  <2>5. /\ status'[p.g] # "none"
        /\ w = Sync => parent'[p.g] = NoGrant
        /\ p.merge => w = Sync /\ \A v \in Worker \ {w} : proc[v].at \in Claiming => proc[v].g # p.g
    BY <1>1, <1>4, <2>2, <2>3 DEF Handlers, Starting
  <2>6. p.at \notin Claiming /\ p.at # "extend"
    BY <2>3 DEF Claiming
  <2> QED BY <1>1, <1>2, <1>3, <1>4, <2>4, <2>5, <2>6, HandlerMoves
<1>6. CASE SendExtend(w)
  <2> DEFINE q == Keeping(proc[w], Larger(Deadline(proc[w].root), now) + Dur[proc[w].g])
             p == Sent(q, "extend", calls + 1)
  <2>1. Dispatch(w, "extend", "extend", q, Dur[proc[w].g])
    BY <1>6 DEF SendExtend, Keeping
  <2>2. proc[w] \in Busy /\ proc[w].at = "read"
    BY <1>6, AtBusy DEF SendExtend, Step, At
  <2>3. p.at = "extend" /\ p.g = proc[w].g /\ p.merge = proc[w].merge /\ p.root = proc[w].root
    BY <2>2 DEF Busy, Keeping, Sent
  <2>4. proc'[w] = p /\ \A v \in Worker \ {w} : Kept(v)
    <3> HIDE DEF q
    <3> QED BY <2>1, DispatchKeeps
  <2> HIDE DEF p
  <2>5. parent[proc[w].root] = NoGrant /\ proc[w].root \in Grant
    BY <1>6, <2>2, BusyFields DEF SendExtend
  <2>6. parent[proc[w].g] = proc[w].root
    BY <1>4, <2>2 DEF Handlers, Claiming
  <2>7. p.root # p.g
    BY <2>3, <2>5, <2>6, GrantAssumption
  <2>8. /\ status'[p.g] # "none" /\ parent'[p.g] = p.root
        /\ p.merge => w = Sync /\ \A v \in Worker \ {w} : proc[v].at \in Claiming => proc[v].g # p.g
        /\ w # Sync /\ proc[Sync].merge => p.g # proc[Sync].g
    BY <1>1, <1>4, <2>2, <2>3, <2>6 DEF Handlers, Claiming
  <2>9. p.at \notin Starting
    BY <2>3 DEF Starting
  <2> QED BY <1>1, <1>2, <1>3, <1>4, <2>4, <2>7, <2>8, <2>9, HandlerMoves
<1>7. ASSUME NEW g \in Grant, KioskEnd(w, g) \/ (AdminEnd(w, g) /\ core[g] # NoGrant)
      PROVE  Handlers' /\ CountedOnce'
  <2>1. PICK q : /\ proc'[w] = q /\ \A v \in Worker \ {w} : Kept(v)
                 /\ q.at \in {"admin_end", "kiosk_end"} /\ q.g = g /\ ~ q.merge
    <3>1. CASE KioskEnd(w, g)
      <4> DEFINE p == [Idle EXCEPT !.g = g, !.root = core[g]]
                 sent == Sent(p, "kiosk_end", calls + 1)
      <4>1. Dispatch(w, "end", "kiosk_end", p, 0)
        BY <3>1 DEF KioskEnd
      <4>2. sent.at = "kiosk_end" /\ sent.g = g /\ ~ sent.merge
        BY DEF Idle, Sent
      <4>3. proc'[w] = sent /\ \A v \in Worker \ {w} : Kept(v)
        <5> HIDE DEF p
        <5> QED BY <4>1, DispatchKeeps
      <4> HIDE DEF sent
      <4> QED BY <4>2, <4>3
    <3>2. CASE AdminEnd(w, g) /\ core[g] # NoGrant
      <4>1. PICK k : Dispatch(w, "end", "admin_end",
                              [Idle EXCEPT !.g = g, !.root = core[g], !.kept = k], 0)
        BY <3>2 DEF AdminEnd
      <4> DEFINE p == [Idle EXCEPT !.g = g, !.root = core[g], !.kept = k]
                 sent == Sent(p, "admin_end", calls + 1)
      <4>2. sent.at = "admin_end" /\ sent.g = g /\ ~ sent.merge
        BY DEF Idle, Sent
      <4>3. proc'[w] = sent /\ \A v \in Worker \ {w} : Kept(v)
        <5>1. Dispatch(w, "end", "admin_end", p, 0)
          BY <4>1
        <5> HIDE DEF p
        <5> QED BY <5>1, DispatchKeeps
      <4> HIDE DEF sent
      <4> QED BY <4>2, <4>3
    <3> QED BY <1>7, <3>1, <3>2
  <2>4. status[g] # "none"
    BY <1>7 DEF KioskEnd, AdminEnd
  <2>5. q.at \notin Claiming /\ q.at \notin Starting /\ q.at # "extend"
    BY <2>1 DEF Claiming, Starting
  <2>6. status'[q.g] # "none"
    BY <1>1, <2>1, <2>4
  <2> QED BY <1>1, <1>2, <1>3, <1>4, <2>1, <2>5, <2>6, HandlerMoves
<1> QED BY <1>5, <1>6, <1>7

(* The edge loop picks a row, finds a session, or goes on with a child.     *)
LEMMA PickCounts ==
  ASSUME TypeOK, TypeOK', CountInv,
         SyncLookup \/ \E g \in Grant : SyncPick(g) \/ SyncExtend(g)
  PROVE  Handlers' /\ CountedOnce'
<1> USE DEF dbVars, deadlines
<1>0. Sync \in Worker
  BY GrantAssumption
<1>1. UNCHANGED <<status, parent, dur, accepted>>
  BY DEF SyncLookup, SyncPick, SyncExtend
<1>2. RowsPass /\ NoneStays /\ CountStays
  BY <1>1, RowsPassStays DEF RowsPass
<1>3. CountedOnce'
  BY <1>1, <1>2, BoundStays DEF CountInv
<1>4. Handlers
  BY DEF CountInv
<1>5. ASSUME NEW p, proc' = [proc EXCEPT ![Sync] = p],
             status[p.g] # "none", p.at # "extend", ~ p.merge,
             p.at \in Claiming => parent[p.g] = p.root,
             p.at \in Starting => parent[p.g] = NoGrant
      PROVE  Handlers'
  <2>1. proc'[Sync] = p /\ \A v \in Worker \ {Sync} : Kept(v)
    BY <1>0, <1>5 DEF Kept, TypeOK
  <2> QED BY <1>0, <1>1, <1>2, <1>4, <1>5, <2>1, HandlerMoves
<1>6. CASE SyncLookup
  <2>1. proc[Sync] \in Busy /\ proc[Sync].at = "picked" /\ proc[Sync].g \in Grant
    BY <1>0, <1>6, AtBusy, BusyFields DEF SyncLookup, Step, At
  <2>2. /\ status[proc[Sync].g] # "none" /\ parent[proc[Sync].g] = NoGrant
    BY <1>0, <1>4, <2>1 DEF Handlers, Starting
  <2>3. CASE Goto(Sync, "send")
    <3> DEFINE p == AtStep(proc[Sync], "send")
    <3>1. proc' = [proc EXCEPT ![Sync] = p]
      BY <1>0, <2>3 DEF Goto, AtStep, TypeOK
    <3>2. p.at = "send" /\ p.g = proc[Sync].g /\ p.merge = proc[Sync].merge
      BY <2>1 DEF Busy, AtStep
    <3> HIDE DEF p
    <3>3. proc'[Sync] = p /\ \A v \in Worker \ {Sync} : Kept(v)
      BY <1>0, <3>1 DEF Kept, TypeOK
    <3>4. p.merge => \A v \in Worker \ {Sync} : proc[v].at \in Claiming => proc[v].g # p.g
      BY <1>4, <3>2 DEF Handlers
    <3>5. p.at \notin Claiming /\ p.at # "extend"
      BY <3>2 DEF Claiming
    <3> QED BY <1>0, <1>1, <1>2, <1>3, <1>4, <2>2, <3>2, <3>3, <3>4, <3>5, HandlerMoves
  <2>4. ASSUME NEW root \in Grant,
               proc' = [proc EXCEPT ![Sync].at = "merge", ![Sync].root = root]
        PROVE  Handlers'
    <3> DEFINE p == [proc[Sync] EXCEPT !.at = "merge", !.root = root]
    <3>1. proc' = [proc EXCEPT ![Sync] = p]
      BY <1>0, <2>4 DEF TypeOK
    <3>2. p.at = "merge" /\ p.g = proc[Sync].g /\ p.merge = proc[Sync].merge
      BY <2>1 DEF Busy
    <3> HIDE DEF p
    <3>3. proc'[Sync] = p /\ \A v \in Worker \ {Sync} : Kept(v)
      BY <1>0, <3>1 DEF Kept, TypeOK
    <3>4. p.merge => \A v \in Worker \ {Sync} : proc[v].at \in Claiming => proc[v].g # p.g
      BY <1>4, <3>2 DEF Handlers
    <3>5. p.at \notin Claiming /\ p.at # "extend"
      BY <3>2 DEF Claiming
    <3> QED BY <1>0, <1>1, <1>2, <1>4, <2>2, <3>2, <3>3, <3>4, <3>5, HandlerMoves
  <2> QED BY <1>3, <1>6, <2>3, <2>4 DEF SyncLookup
<1>7. ASSUME NEW g \in Grant, SyncPick(g) PROVE Handlers'
  <2> DEFINE p == [Idle EXCEPT !.at = "picked", !.g = g, !.root = g]
  <2>1. p.at = "picked" /\ p.g = g /\ ~ p.merge
    BY DEF Idle
  <2>2. proc' = [proc EXCEPT ![Sync] = p] /\ status[g] # "none" /\ parent[g] = NoGrant
    BY <1>7 DEF SyncPick
  <2> HIDE DEF p
  <2> QED BY <1>5, <2>1, <2>2 DEF Claiming
<1>8. ASSUME NEW g \in Grant, SyncExtend(g) PROVE Handlers'
  <2>1. PICK root \in Grant :
          /\ parent[g] = root /\ status[g] # "none"
          /\ proc' = [proc EXCEPT ![Sync] = [Idle EXCEPT !.at = "mark", !.g = g, !.root = root]]
    BY <1>8 DEF SyncExtend
  <2> DEFINE p == [Idle EXCEPT !.at = "mark", !.g = g, !.root = root]
  <2>2. p.at = "mark" /\ p.g = g /\ p.root = root /\ ~ p.merge
    BY DEF Idle
  <2>3. proc' = [proc EXCEPT ![Sync] = p]
    BY <2>1
  <2> HIDE DEF p
  <2> QED BY <1>5, <2>1, <2>2, <2>3 DEF Starting
<1> QED BY <1>3, <1>6, <1>7, <1>8

(* Merging queues a root as a child; nobody works on it as a child yet.     *)
LEMMA MergeCounts ==
  ASSUME TypeOK, TypeOK', CountInv, SyncMerge
  PROVE  Handlers' /\ CountedOnce'
<1> USE DEF deadlines
<1> DEFINE g == proc[Sync].g
           root == proc[Sync].root
           p == [proc[Sync] EXCEPT !.at = "mark", !.merge = TRUE]
<1>0. Sync \in Worker
  BY GrantAssumption
<1>1. proc[Sync] \in Busy /\ proc[Sync].at = "merge" /\ g \in Grant /\ root \in Grant
  BY <1>0, AtBusy, BusyFields DEF SyncMerge, Step, At
<1>2. Handlers /\ status[g] # "none" /\ parent[g] = NoGrant
  BY <1>0, <1>1 DEF CountInv, Handlers, Starting
<1>3. /\ status' = [status EXCEPT ![g] = "pending"] /\ parent' = [parent EXCEPT ![g] = root]
      /\ proc' = [proc EXCEPT ![Sync] = p] /\ UNCHANGED <<dur, accepted>>
  <2>1. IF parent[g] = NoGrant
        THEN /\ status' = [status EXCEPT ![g] = "pending"]
             /\ parent' = [parent EXCEPT ![g] = root]
             /\ proc' = [proc EXCEPT ![Sync] = p]
        ELSE Return(Sync)
    BY <1>0 DEF SyncMerge, TypeOK
  <2>2. UNCHANGED <<dur, accepted>>
    BY DEF SyncMerge
  <2> QED BY <1>2, <2>1, <2>2
<1>4. p.at = "mark" /\ p.g = g /\ p.root = root /\ p.merge
  BY <1>1 DEF Busy
<1> HIDE DEF p, g, root
<1>5. /\ \A c \in Grant : c # g => status'[c] = status[c] /\ parent'[c] = parent[c]
      /\ status'[g] = "pending" /\ parent'[g] = root
  BY <1>1, <1>3 DEF TypeOK
<1>6. NoneStays /\ CountStays
  BY <1>2, <1>3, <1>5 DEF NoneStays, CountStays
<1>7. CountedOnce'
  BY <1>3, <1>6, BoundStays DEF CountInv
<1>8. proc'[Sync] = p /\ \A v \in Worker \ {Sync} : Kept(v)
  BY <1>0, <1>3 DEF Kept, TypeOK
<1>9. \A v \in Worker \ {Sync} : proc[v].at \in Claiming => proc[v].g # g /\ proc[v].g \in Grant
  <2> SUFFICES ASSUME NEW v \in Worker \ {Sync}, proc[v].at \in Claiming
               PROVE  proc[v].g # g /\ proc[v].g \in Grant
    OBVIOUS
  <2>1. proc[v] \in Busy
    BY DEF TypeOK, Idle, Claiming
  <2>2. parent[proc[v].g] = proc[v].root /\ proc[v].root # NoGrant
    BY <1>2, <2>1, BusyFields, GrantAssumption DEF Handlers
  <2> QED BY <1>2, <2>1, <2>2, BusyFields
<1>10. p.at \notin Starting /\ p.at # "extend"
  BY <1>4 DEF Starting
<1>11. Handlers'
  BY <1>0, <1>2, <1>4, <1>5, <1>6, <1>8, <1>9, <1>10, HandlerMoves
<1> QED BY <1>7, <1>11

(* The claim, and the steps that end it without applying the extension.     *)
LEMMA ClaimCounts ==
  ASSUME TypeOK, TypeOK', CountInv, NEW w \in Worker, MarkApplying(w)
  PROVE  Handlers' /\ CountedOnce'
<1> USE DEF deadlines
<1>1. proc[w] \in Busy /\ proc[w].at = "mark" /\ proc[w].g \in Grant
  BY AtBusy, BusyFields DEF MarkApplying, Step, At
<1>2. Handlers
  BY DEF CountInv
<1>3. /\ UNCHANGED <<parent, dur, accepted>>
      /\ Goto(w, "read") \/ Return(w)
      /\ status' = IF status[proc[w].g] = "pending"
                   THEN [status EXCEPT ![proc[w].g] = "applying"] ELSE status
  BY DEF MarkApplying
<1>4. NoneStays /\ CountStays
  BY <1>3 DEF NoneStays, CountStays, Past, TypeOK
<1>5. CountedOnce'
  BY <1>3, <1>4, BoundStays DEF CountInv
<1>6. CASE Return(w)
  BY <1>2, <1>3, <1>4, <1>5, <1>6, ReturnKeeps, HandlersStay
<1>7. CASE Goto(w, "read")
  <2> DEFINE p == AtStep(proc[w], "read")
  <2>1. proc' = [proc EXCEPT ![w] = p]
    BY <1>7 DEF Goto, AtStep, TypeOK
  <2>2. p.at = "read" /\ p.g = proc[w].g /\ p.merge = proc[w].merge /\ p.root = proc[w].root
    BY <1>1 DEF Busy, AtStep
  <2> HIDE DEF p
  <2>3. proc'[w] = p /\ \A v \in Worker \ {w} : Kept(v)
    BY <2>1 DEF Kept, TypeOK
  <2>4. /\ status[proc[w].g] # "none" /\ parent'[p.g] = p.root
        /\ p.merge => w = Sync /\ \A v \in Worker \ {w} : proc[v].at \in Claiming => proc[v].g # p.g
        /\ w # Sync /\ proc[Sync].merge => p.g # proc[Sync].g
    BY <1>1, <1>2, <1>3, <2>2 DEF Handlers, Claiming
  <2>5. status'[p.g] # "none"
    BY <1>1, <1>4, <2>2, <2>4 DEF NoneStays
  <2>6. p.at \notin Starting /\ p.at # "extend"
    BY <2>2 DEF Starting
  <2> QED BY <1>2, <1>3, <1>4, <1>5, <2>3, <2>4, <2>5, <2>6, HandlerMoves
<1> QED BY <1>3, <1>6, <1>7

(* A merged grant that is still pending is put back among the roots: only   *)
(* the edge loop merges, and nobody else works on what it merged.           *)
LEMMA UnmergeCounts ==
  ASSUME TypeOK, TypeOK', CountInv, NEW w \in Worker, proc[w].at = "extend",
         UNCHANGED parent \/ Unmerge(w, status'), Return(w),
         UNCHANGED <<dur, accepted>>,
         status' = status \/ (/\ status[proc[w].g] = "applying"
                              /\ status' = [status EXCEPT ![proc[w].g] = "pending"])
  PROVE  Handlers' /\ CountedOnce'
<1> DEFINE g == proc[w].g
<1>1. proc[w] \in Busy /\ g \in Grant
  BY AtBusy, BusyFields DEF Step, At
<1>2. Handlers
  BY DEF CountInv
<1>3. proc'[w] = Idle /\ \A v \in Worker : Kept(v)
  BY ReturnKeeps
<1>4. CASE UNCHANGED parent
  <2>1. NoneStays /\ CountStays
    BY <1>1, <1>4 DEF NoneStays, CountStays, Past, TypeOK
  <2> QED BY <1>2, <1>3, <1>4, <2>1, HandlersStay, BoundStays DEF CountInv
<1>5. CASE ~ UNCHANGED parent
  <2>1. /\ proc[w].merge /\ status'[g] = "pending"
        /\ parent' = [parent EXCEPT ![g] = NoGrant]
    BY <1>5 DEF Unmerge
  <2>2. status[g] \notin Past
    BY <1>1, <2>1 DEF Past, TypeOK
  <2>3. \A c \in Grant : c # g => status'[c] = status[c] /\ parent'[c] = parent[c]
    BY <1>1, <2>1 DEF TypeOK
  <2>4. NoneStays
    BY <2>1, <2>3 DEF NoneStays
  <2>5. CountStays
    BY <2>2, <2>3 DEF CountStays
  <2>6. w = Sync
    BY <1>2, <2>1 DEF Handlers
  <2>7. \A v \in Worker \ {w} : proc[v].at \in Claiming => proc[v].g # g /\ proc[v].g \in Grant
    BY <1>2, <2>1, <2>6 DEF Handlers, TypeOK, Busy, Idle, Claiming
  <2>8. \A v \in Worker \ {w} : proc[v].at \in Claiming \/ (v = Sync /\ proc[v].at \in Starting)
                                 => parent'[proc[v].g] = parent[proc[v].g]
    BY <2>3, <2>6, <2>7
  <2>9. Idle.at = "idle" /\ ~ Idle.merge /\ "idle" \notin Claiming /\ "idle" \notin Starting
    BY DEF Idle, Claiming, Starting
  <2> HIDE DEF g
  <2>10. Handlers'
    BY <1>2, <1>3, <2>4, <2>6, <2>8, <2>9, HandlerMoves
  <2>11. CountedOnce'
    BY <2>5, BoundStays DEF CountInv
  <2> QED BY <2>10, <2>11
<1> QED BY <1>4, <1>5

(* Applying an extension counts it, and it had not been counted: it was     *)
(* "applying".                                                              *)
LEMMA ApplyCounts ==
  ASSUME TypeOK, TypeOK', CountInv, NEW w \in Worker, ExtendOk(w), status[proc[w].g] = "applying"
  PROVE  Handlers' /\ CountedOnce'
<1> DEFINE g == proc[w].g
           root == proc[w].root
<1>1. proc[w] \in Busy /\ proc[w].at = "extend" /\ g \in Grant /\ root \in Grant
  BY AtBusy, BusyFields DEF ExtendOk, Step, At
<1>2. Handlers /\ parent[g] = root /\ root # g
  BY <1>1 DEF CountInv, Handlers, Claiming
<1>3. /\ dur' = [dur EXCEPT ![root] = @ + Dur[g]] /\ accepted' = [accepted EXCEPT ![g] = now]
      /\ status' = [status EXCEPT ![g] = "extended"] /\ UNCHANGED parent /\ Return(w)
      /\ status[g] = "applying"
  BY DEF ExtendOk
<1> HIDE DEF g, root
<1>4. /\ \A c \in Grant : c # g => status'[c] = status[c] /\ accepted'[c] = accepted[c]
      /\ status'[g] = "extended" /\ accepted'[g] = now /\ now # 0
      /\ \A r \in Grant : r # root => dur'[r] = dur[r]
      /\ dur'[root] = dur[root] + Dur[g]
  BY <1>1, <1>3 DEF TypeOK, CountInv, Clocked
<1>5. NoneStays
  BY <1>4 DEF NoneStays
<1>6. \A v \in Worker : Kept(v)
  BY <1>3, ReturnKeeps
<1>7. Handlers'
  BY <1>2, <1>3, <1>5, <1>6, HandlersStay
<1>8. ASSUME NEW r \in Grant PROVE dur'[r] <= Dur[r] + Sum(Counted(r)', Dur)
  <2> DEFINE old == Counted(r)
             new == Counted(r)'
  <2>1. old \subseteq new /\ new \subseteq Grant /\ g \notin old
    BY <1>3, <1>4 DEF Counted, AppliedChildren, Past
  <2>2. r = root => g \in new
    BY <1>1, <1>2, <1>3, <1>4 DEF Counted, AppliedChildren, Past
  <2>3. IsFiniteSet(new) /\ IsFiniteSet(old) /\ \A c \in new : Dur[c] \in Nat
    BY <2>1, GrantAssumption, FS_Subset
  <2>4. dur[r] <= Dur[r] + Sum(old, Dur)
    BY DEF CountInv, CountedOnce
  <2>5. dur[r] \in Nat /\ Dur[r] \in Nat /\ Dur[g] \in Nat
    BY <1>1, GrantAssumption DEF TypeOK
  <2> HIDE DEF old, new
  <2>6. Sum(old, Dur) \in Nat /\ Sum(new, Dur) \in Nat /\ Sum(old, Dur) <= Sum(new, Dur)
    BY <2>1, <2>3, SumGrows
  <2>7. CASE r # root
    <3>1. dur'[r] = dur[r]
      BY <1>4, <2>7
    <3>2. dur'[r] <= Dur[r] + Sum(new, Dur)
      BY <2>4, <2>5, <2>6, <3>1
    <3> QED BY <3>2 DEF new
  <2>8. CASE r = root
    <3>1. old \cup {g} \subseteq new
      BY <2>1, <2>2, <2>8
    <3>2. Sum(old \cup {g}, Dur) <= Sum(new, Dur) /\ Sum(old \cup {g}, Dur) \in Nat
      BY <2>3, <3>1, SumGrows
    <3>3. \A c \in old \cup {g} : Dur[c] \in Int
      BY <2>3, <3>1
    <3>4. Sum(old \cup {g}, Dur) = Dur[g] + Sum(old, Dur)
      BY <2>1, <2>3, <3>3, SumAdd
    <3>5. dur'[r] = dur[r] + Dur[g]
      BY <1>4, <2>8
    <3>6. dur'[r] <= Dur[r] + Sum(new, Dur)
      BY <2>4, <2>5, <2>6, <3>2, <3>4, <3>5
    <3> QED BY <3>6 DEF new
  <2> QED BY <2>7, <2>8
<1> QED BY <1>7, <1>8 DEF CountedOnce

LEMMA ExtendCounts ==
  ASSUME TypeOK, TypeOK', CountInv, NEW w \in Worker, ExtendOk(w) \/ ExtendError(w)
  PROVE  Handlers' /\ CountedOnce'
<1> USE DEF deadlines
<1>1. proc[w].at = "extend" /\ Return(w)
  BY DEF ExtendOk, ExtendError, At
<1>2. CASE ExtendOk(w) /\ status[proc[w].g] = "applying"
  BY <1>2, ApplyCounts
<1>3. CASE ExtendOk(w) /\ status[proc[w].g] # "applying"
  <2>1. /\ UNCHANGED <<dur, accepted, status>>
        /\ UNCHANGED parent \/ Unmerge(w, status)
    BY <1>3 DEF ExtendOk
  <2>2. UNCHANGED parent \/ Unmerge(w, status')
    BY <2>1
  <2> QED BY <1>1, <2>1, <2>2, UnmergeCounts
<1>4. CASE ExtendError(w)
  <2> DEFINE st == IF status[proc[w].g] = "applying"
                   THEN [status EXCEPT ![proc[w].g] = "pending"] ELSE status
  <2>1. UNCHANGED <<dur, accepted>> /\ status' = st /\ Unmerge(w, st)
    BY <1>4 DEF ExtendError
  <2>2. Unmerge(w, status')
    BY <2>1
  <2> QED BY <1>1, <2>1, <2>2, UnmergeCounts
<1> QED BY <1>2, <1>3, <1>4

(* A start the edge loop could not make fails a root, never a child.        *)
LEMMA SyncErrorCounts ==
  ASSUME TypeOK, TypeOK', CountInv, StartError(Sync)
  PROVE  Handlers' /\ CountedOnce'
<1> USE DEF deadlines
<1> DEFINE g == proc[Sync].g
<1>0. Sync \in Worker
  BY GrantAssumption
<1>1. proc[Sync].at = "start" /\ g \in Grant
  BY <1>0, AtBusy, BusyFields DEF StartError, Step, At
<1>2. Handlers /\ parent[g] = NoGrant
  BY <1>1 DEF CountInv, Handlers, Starting
<1>3. /\ UNCHANGED <<parent, dur, accepted>> /\ Return(Sync)
      /\ \E failure \in {"start_failed", "offline_failed"} : status' = [status EXCEPT ![g] = failure]
  BY DEF StartError
<1> HIDE DEF g
<1>4. \A c \in Grant : (c # g => status'[c] = status[c]) /\ (c = g => status'[c] # "none")
  BY <1>1, <1>3 DEF TypeOK
<1>5. NoneStays /\ CountStays
  BY <1>2, <1>3, <1>4 DEF NoneStays, CountStays
<1>6. CountedOnce'
  BY <1>3, <1>5, BoundStays DEF CountInv
<1>7. Handlers'
  BY <1>0, <1>2, <1>3, <1>5, ReturnKeeps, HandlersStay
<1> QED BY <1>6, <1>7

-----------------------------------------------------------------------------
LEMMA InitCountInv == Init => CountInv
<1> SUFFICES ASSUME Init PROVE CountInv
  OBVIOUS
<1>1. Clocked
  BY DEF Init, Clocked
<1>2. Handlers
  BY GrantAssumption DEF Init, Handlers, Idle, Claiming, Starting
<1>3. ASSUME NEW r \in Grant PROVE dur[r] <= Dur[r] + Sum(Counted(r), Dur)
  <2>1. IsFiniteSet(Counted(r)) /\ \A c \in Counted(r) : Dur[c] \in Nat
    <3>1. Counted(r) \subseteq Grant
      BY DEF Counted, AppliedChildren
    <3> QED BY <3>1, GrantAssumption, FS_Subset
  <2>2. Sum(Counted(r), Dur) \in Nat
    BY <2>1, SumGrows
  <2>3. dur[r] = 0 /\ Dur[r] \in Nat
    BY GrantAssumption DEF Init
  <2> QED BY <2>2, <2>3
<1> QED BY <1>1, <1>2, <1>3 DEF CountInv, CountedOnce

LEMMA NextCountInv == TypeOK /\ TypeOK' /\ CountInv /\ [Next]_vars => CountInv'
<1> SUFFICES ASSUME TypeOK, TypeOK', CountInv, [Next]_vars PROVE Handlers' /\ CountedOnce'
  BY ClockedStays DEF CountInv
<1>0. Clocked /\ Handlers /\ CountedOnce
  BY DEF CountInv
<1>1. ASSUME NEW w \in Worker, HandlerStep(w) PROVE Handlers' /\ CountedOnce'
  <2>1. CASE \/ RefundPlayerBalance(w) \/ StartOk(w) \/ NoSessionToExtend(w)
             \/ EndOk(w) \/ EndError(w)
             \/ StartError(w) /\ w # Sync
    BY <1>0, <2>1, HandlersPass, PassingKeeps
  <2>2. CASE StartError(w) /\ w = Sync
    BY <2>2, SyncErrorCounts
  <2>3. CASE SendStart(w) \/ SendExtend(w)
    BY <2>3, SendCounts
  <2>4. CASE MarkApplying(w)
    BY <2>4, ClaimCounts
  <2>5. CASE ExtendOk(w) \/ ExtendError(w)
    BY <2>5, ExtendCounts
  <2> QED BY <1>1, <2>1, <2>2, <2>3, <2>4, <2>5 DEF HandlerStep
<1>2. ASSUME NEW w \in Worker, Crash(w) PROVE Handlers' /\ CountedOnce'
  BY <1>0, <1>2, HandlersPass, PassingKeeps
<1>3. ASSUME NEW w \in Worker, NEW g \in Grant, Request(w, g) PROVE Handlers' /\ CountedOnce'
  <2>1. CASE RedeemStart(w, g) \/ RedeemExtend(w, g)
    BY <2>1, RedeemCounts
  <2>2. CASE KioskEnd(w, g) \/ (AdminEnd(w, g) /\ core[g] # NoGrant)
    BY <2>2, SendCounts
  <2>3. CASE AdminEnd(w, g) /\ core[g] = NoGrant
    <3>1. PICK told \in (Reported \ {0}) \union
                 {IF status[g] = "accepted" THEN TimeLeft(g) ELSE 0} :
            FinishGrant(g, told) /\ UNCHANGED <<apiVars, calls, cmds>>
      BY <2>3 DEF AdminEnd
    <3>2. told \in Nat
      BY TimeTypes, GrantAssumption
    <3>3. RowsPass
      BY <3>1, <3>2, FinishGrantPasses
    <3>4. UNCHANGED proc
      BY <3>1 DEF apiVars
    <3> QED BY <1>0, <3>3, <3>4, ProcSame, PassingKeeps
  <2> QED BY <1>3, <2>1, <2>2, <2>3 DEF Request
<1>4. CASE SyncLoop
  BY <1>4, PickCounts, MergeCounts DEF SyncLoop
<1>5. CASE \/ Expire \/ ReconcileMissingRemainders \/ Heartbeat \/ AgentOffline
           \/ LoseCommand \/ Tick \/ UNCHANGED vars
  BY <1>0, <1>5, RepairsPass, ProcSame, PassingKeeps
<1>6. CASE AgentStep \/ CoreEvent
  BY <1>0, <1>6, AgentPasses, ProcSame, PassingKeeps
<1> QED BY <1>1, <1>2, <1>3, <1>4, <1>5, <1>6 DEF Next

LEMMA CountInvProperty == TypeOK /\ CountInv => ExtensionCountedOnce
<1> SUFFICES ASSUME TypeOK, CountInv, NEW r \in Grant
             PROVE  dur[r] <= Dur[r] + Sum(AppliedChildren(r), Dur)
  BY DEF ExtensionCountedOnce
<1> DEFINE all == AppliedChildren(r)
<1>1. Counted(r) \subseteq all /\ all \subseteq Grant
  BY DEF Counted, AppliedChildren
<1>2. IsFiniteSet(all) /\ \A c \in all : Dur[c] \in Nat
  BY <1>1, GrantAssumption, FS_Subset
<1> HIDE DEF all
<1>3. Sum(Counted(r), Dur) <= Sum(all, Dur) /\ Sum(all, Dur) \in Nat /\ Sum(Counted(r), Dur) \in Nat
  BY <1>1, <1>2, SumGrows
<1>4. dur[r] <= Dur[r] + Sum(Counted(r), Dur) /\ Dur[r] \in Nat
  BY GrantAssumption DEF CountInv, CountedOnce
<1>5. dur[r] \in Nat
  BY DEF TypeOK
<1>6. dur[r] <= Dur[r] + Sum(all, Dur)
  BY <1>3, <1>4, <1>5
<1> QED BY <1>6 DEF all

(* However an extension is retried, doubled by the edge loop, merged, put   *)
(* back or overtaken by events, for any number of purchases, handlers,      *)
(* timeouts and crashes, its time is added to the root at most once.        *)
THEOREM CountedExtensions == Spec => []ExtensionCountedOnce
<1>1. Init => CountInv
  BY InitCountInv
<1>2. TypeOK /\ TypeOK' /\ CountInv /\ [Next]_vars => CountInv'
  BY NextCountInv
<1>3. TypeOK /\ CountInv => ExtensionCountedOnce
  BY CountInvProperty
<1> QED BY <1>1, <1>2, <1>3, TypeCorrect, PTL DEF Spec
-----------------------------------------------------------------------------
(* Conservation of time for sessions that nothing extends.  The invariant   *)
(* speaks of the end the Agent gave to each session it ran: every deadline  *)
(* the rows, the replies and the events carry is that end.                  *)

Unextended == \A g \in Grant : parent[g] \in {NoGrant, g}

Ending(w) == At(w, "admin_end") \/ At(w, "kiosk_end")

(* The session that runs on the Agent.                                      *)
SessionEnds(end) ==
  agent.sess # NoGrant => agent.sess \in agent.ran /\ agent.ends = end[agent.sess]

(* What was played, and what is left until the end, is what was bought.     *)
PlayedWithin(g, end) ==
  /\ g \in agent.ran => /\ end[g] > 0
                        /\ played[g] <= Dur[g]
                        /\ played[g] + (end[g] - now) <= Dur[g]
  /\ g \notin agent.ran => played[g] = 0

(* What a row knows of its session; a return is made when it is over, in    *)
(* one channel, as nothing gives a session an owner later.                  *)
RowKnows(g, end) ==
  /\ core[g] \in {NoGrant, g}
  /\ status[g] # "none" => dur[g] = Dur[g]
  /\ status[g] \in {"accepted", "ended"} => g \in agent.ran /\ planned[g] = end[g]
  /\ status[g] = "accepted" => core[g] = g
  /\ status[g] = "ended" => ended[g] >= end[g] \/ Back(g) # 0
  /\ grace[g] # 0 => g \in agent.ran /\ grace[g] = end[g] + Grace
  /\ Back(g) # 0 => /\ g \in agent.ran /\ agent.sess # g /\ status[g] # "none"
                    /\ Back(g) + played[g] <= Dur[g]
  /\ credited[g] # 0 => g \in owned
  /\ voucher[g] # 0 => g \notin owned

(* What the answer tells the handler that waits for it.                     *)
HandlerTold(w, end) ==
  /\ proc[w].call <= calls
  /\ proc[w].call # 0 => At(w, "start") \/ At(w, "extend") \/ Ending(w)
  /\ At(w, "start") /\ reply[w].kind = "ok" =>
       proc[w].g \in agent.ran /\ reply[w].val = end[proc[w].g]
  /\ Ending(w) /\ reply[w].kind = "ok" =>
       proc[w].g \in agent.ran /\ agent.sess # proc[w].g

(* A command, and the handler that waits for its answer.                    *)
CommandSound(c) ==
  /\ 0 < c.id /\ c.id <= calls
  /\ c.op # "extend"
  /\ status[c.g] # "none"
  /\ c.op = "start" => c.add = Dur[c.g]
  /\ c.op = "end" => c.root = c.g
  /\ \A w \in Worker : proc[w].call = c.id =>
       /\ proc[w].g = c.g
       /\ c.op = "start" => At(w, "start")
       /\ c.op = "end" => Ending(w)

EventSound(e, end) ==
  /\ e.kind # "extended"
  /\ e.kind = "started" => /\ e.root = e.g /\ e.g \in agent.ran
                           /\ e.val = end[e.g] /\ status[e.g] # "none"
  /\ e.kind \in {"ended", "expired"} =>
       e.root = e.g /\ e.g \in agent.ran /\ agent.sess # e.g
  /\ e.kind = "failed" => e.root = NoGrant /\ status[e.g] # "none"

Timed(end) ==
  /\ SessionEnds(end)
  /\ \A g \in Grant : PlayedWithin(g, end)
  /\ \A g \in Grant : RowKnows(g, end)
  /\ \A w \in Worker : HandlerTold(w, end)
  /\ \A c \in cmds : CommandSound(c)
  /\ \A e \in wire : EventSound(e, end)

TimedInv == \E end \in [Grant -> Nat] : Timed(end)

-----------------------------------------------------------------------------
(* A handler that goes on as it was, or stops and waits for nothing.        *)
Follows(w) ==
  /\ proc'[w].at # "idle" => /\ proc'[w].at = proc[w].at /\ proc'[w].g = proc[w].g
                             /\ proc'[w].call \in {0, proc[w].call}
  /\ proc'[w].at = "idle" => proc'[w].call = 0
  /\ reply'[w].kind = "ok" => reply'[w] = reply[w]

LEMMA ForgettingFollows ==
  ASSUME TypeOK, NEW w \in Worker, NEW g, NEW p, proc' = Forgetting(g, w, p),
         reply' = [reply EXCEPT ![w] = NoReply] \/ reply' = reply
  PROVE  proc'[w] = p /\ \A v \in Worker \ {w} : Follows(v)
<1>1. proc'[w] = p
  BY DEF Forgetting
<1>2. ASSUME NEW v \in Worker \ {w} PROVE Follows(v)
  <2>1. reply'[v] = reply[v]
    BY DEF TypeOK
  <2>2. CASE At(v, "start") /\ proc[v].g = g
    <3>1. proc[v] \in Busy
      BY <2>2, AtBusy DEF Step
    <3>2. proc'[v] = [proc[v] EXCEPT !.call = 0]
      BY <2>2 DEF Forgetting
    <3> QED BY <2>1, <3>1, <3>2 DEF Follows, Busy
  <2>3. CASE ~ (At(v, "start") /\ proc[v].g = g)
    <3>1. proc'[v] = proc[v]
      BY <2>3 DEF Forgetting
    <3>2. proc[v].at = "idle" => proc[v].call = 0
      BY DEF TypeOK, Busy, Step, Idle
    <3> QED BY <2>1, <3>1, <3>2 DEF Follows
  <2> QED BY <2>2, <2>3
<1> QED BY <1>1, <1>2

LEMMA OthersFollow ==
  ASSUME TypeOK, NEW w \in Worker, NEW p, proc' = [proc EXCEPT ![w] = p],
         reply' = [reply EXCEPT ![w] = NoReply] \/ reply' = reply
  PROVE  proc'[w] = p /\ \A v \in Worker \ {w} : Follows(v)
<1>1. proc'[w] = p
  BY DEF TypeOK
<1>2. ASSUME NEW v \in Worker \ {w} PROVE Follows(v)
  <2>1. reply'[v] = reply[v] /\ proc'[v] = proc[v]
    BY DEF TypeOK
  <2>2. proc[v].at = "idle" => proc[v].call = 0
    BY DEF TypeOK, Busy, Step, Idle
  <2> QED BY <2>1, <2>2 DEF Follows
<1> QED BY <1>1, <1>2

LEMMA ReturnFollows ==
  ASSUME TypeOK, NEW w \in Worker, Return(w), Take(w) \/ UNCHANGED reply
  PROVE  \A v \in Worker : Follows(v)
<1>1. proc'[w] = Idle /\ \A v \in Worker \ {w} : Follows(v)
  <2>1. CASE At(w, "start")
    BY <2>1, ForgettingFollows DEF Return, Take
  <2>2. CASE ~ At(w, "start")
    BY <2>2, OthersFollow DEF Return, Take
  <2> QED BY <2>1, <2>2
<1>2. reply'[w] = reply[w] \/ reply'[w] = NoReply
  BY DEF Take, TypeOK
<1>3. Follows(w)
  BY <1>1, <1>2 DEF Follows, Idle, NoReply
<1> QED BY <1>1, <1>3

LEMMA ProcFollows ==
  ASSUME TypeOK, UNCHANGED <<proc, reply>>
  PROVE  \A v \in Worker : Follows(v)
  BY DEF TypeOK, Follows, Busy, Step, Idle

LEMMA DispatchFollows ==
  ASSUME TypeOK, NEW w \in Worker, NEW op, NEW step, NEW p, NEW add,
         Dispatch(w, op, step, p, add)
  PROVE  /\ proc'[w] = Sent(p, step, calls + 1) /\ reply'[w] = NoReply
         /\ \A v \in Worker \ {w} : Follows(v)
<1>1. proc' = IF op = "start" THEN Forgetting(p.g, w, Sent(p, step, calls + 1))
              ELSE [proc EXCEPT ![w] = Sent(p, step, calls + 1)]
  BY DEF Dispatch, Sent
<1>2. reply' = [reply EXCEPT ![w] = NoReply]
  BY DEF Dispatch
<1>3. CASE op = "start"
  BY <1>1, <1>2, <1>3, ForgettingFollows DEF TypeOK
<1>4. CASE op # "start"
  BY <1>1, <1>2, <1>4, OthersFollow DEF TypeOK
<1> QED BY <1>3, <1>4

-----------------------------------------------------------------------------
(* What the steps of the API node leave as it was.                          *)

LEMMA WorldKept ==
  ASSUME TypeOK, NEW end, Timed(end), UNCHANGED <<now, agent, played>>,
         wire' \subseteq wire, NoneStays
  PROVE  /\ SessionEnds(end)'
         /\ \A g \in Grant : PlayedWithin(g, end)'
         /\ \A e \in wire' : EventSound(e, end)'
<1>1. SessionEnds(end)' /\ \A g \in Grant : PlayedWithin(g, end)'
  BY DEF Timed, SessionEnds, PlayedWithin
<1>2. ASSUME NEW e \in wire' PROVE EventSound(e, end)'
  <2>1. e.g \in Grant
    BY DEF TypeOK, Event
  <2>2. EventSound(e, end)
    BY DEF Timed
  <2> QED BY <2>1, <2>2 DEF EventSound, NoneStays
<1> QED BY <1>1, <1>2

LEMMA HandlerFollows ==
  ASSUME TypeOK, TypeOK', NEW end, NEW w \in Worker, HandlerTold(w, end), Follows(w),
         UNCHANGED agent, calls' = calls \/ calls' = calls + 1
  PROVE  HandlerTold(w, end)'
<1>1. calls \in Nat /\ proc'[w] \in Busy \union {Idle} /\ proc[w] \in Busy \union {Idle}
  BY DEF TypeOK
<1>2. CASE proc'[w].at = "idle"
  <2>1. proc'[w].call = 0 /\ ~ At(w, "start")' /\ ~ Ending(w)'
    BY <1>2 DEF Follows, At, Ending
  <2>2. proc'[w].call <= calls'
    BY <1>1, <2>1
  <2> QED BY <2>1, <2>2 DEF HandlerTold
<1>3. CASE proc'[w].at # "idle"
  <2>1. proc'[w].at = proc[w].at /\ proc'[w].g = proc[w].g
        /\ proc'[w].call \in {0, proc[w].call}
    BY <1>3 DEF Follows
  <2>2. proc[w].call \in Nat
    BY <1>1, BusyFields DEF Idle
  <2>3. proc'[w].call <= calls'
    BY <1>1, <2>1, <2>2 DEF HandlerTold
  <2>4. \A step : At(w, step)' <=> At(w, step)
    BY <2>1 DEF At
  <2> QED BY <2>1, <2>3, <2>4 DEF HandlerTold, Ending, Follows
<1> QED BY <1>2, <1>3

(* A command that was sent before, whatever has become of its sender.       *)
LEMMA CommandKept ==
  ASSUME TypeOK, TypeOK', NEW c \in cmds, CommandSound(c), NoneStays,
         calls' = calls \/ calls' = calls + 1,
         \A w \in Worker : Follows(w) \/ proc'[w].call \in {0, calls + 1}
  PROVE  CommandSound(c)'
<1>1. c.id \in Nat /\ c.g \in Grant /\ calls \in Nat
  BY DEF TypeOK, Command
<1>2. 0 < c.id /\ c.id <= calls /\ c.id <= calls' /\ c.id # calls + 1 /\ c.id # 0
  BY <1>1 DEF CommandSound
<1>3. status'[c.g] # "none"
  BY <1>1 DEF CommandSound, NoneStays
<1>4. ASSUME NEW w \in Worker, proc'[w].call = c.id
      PROVE  /\ proc'[w].g = c.g
             /\ c.op = "start" => At(w, "start")'
             /\ c.op = "end" => Ending(w)'
  <2>1. /\ proc'[w].at = proc[w].at /\ proc'[w].g = proc[w].g
        /\ proc[w].call = c.id
    BY <1>2, <1>4 DEF Follows
  <2> QED BY <2>1 DEF CommandSound, At, Ending
<1> QED BY <1>2, <1>3, <1>4 DEF CommandSound

(* A row that a step leaves alone, or takes out of every session.           *)
RowPasses(g) ==
  /\ dur'[g] = dur[g] /\ planned'[g] = planned[g] /\ grace'[g] = grace[g]
  /\ credited'[g] = credited[g] /\ voucher'[g] = voucher[g]
  /\ core'[g] = core[g] /\ (g \in owned' <=> g \in owned)
  /\ \/ status'[g] = status[g] /\ ended'[g] = ended[g]
     \/ status[g] # "none" /\ status'[g] \notin {"none", "accepted", "ended"}

LEMMA RowFollows ==
  ASSUME NEW end, NEW g \in Grant, RowKnows(g, end), RowPasses(g),
         UNCHANGED <<agent, played>>
  PROVE  RowKnows(g, end)' /\ (status'[g] = "none" => status[g] = "none")
BY DEF RowKnows, Back, RowPasses

(* A handler between its waits.                                             *)
Rests(w) ==
  proc'[w].call = 0 /\ proc'[w].at \notin {"start", "extend", "admin_end", "kiosk_end"}

LEMMA HandlerRests ==
  ASSUME TypeOK', NEW end, NEW w \in Worker, Rests(w)
  PROVE  HandlerTold(w, end)'
<1>1. 0 <= calls'
  BY DEF TypeOK
<1> QED BY <1>1 DEF Rests, HandlerTold, At, Ending

(* The steps that send nothing, once their rows are seen to.                *)
LEMMA QuietTimed ==
  ASSUME TypeOK, TypeOK', NEW end, Timed(end), UNCHANGED <<now, agent, played, calls>>,
         cmds' \subseteq cmds, wire' \subseteq wire, NoneStays,
         \A g \in Grant : RowKnows(g, end)', \A w \in Worker : Follows(w) \/ Rests(w)
  PROVE  Timed(end)'
<1>1. \A w \in Worker : HandlerTold(w, end)'
  BY HandlerFollows, HandlerRests DEF Timed
<1>2. \A c \in cmds' : CommandSound(c)'
  BY CommandKept DEF Timed, Rests
<1> QED BY <1>1, <1>2, WorldKept DEF Timed

LEMMA PassingTimed ==
  ASSUME TypeOK, TypeOK', NEW end, Timed(end), UNCHANGED <<now, agent, played, calls>>,
         cmds' \subseteq cmds, wire' \subseteq wire,
         \A g \in Grant : RowPasses(g), \A w \in Worker : Follows(w) \/ Rests(w)
  PROVE  Timed(end)'
<1>1. NoneStays /\ \A g \in Grant : RowKnows(g, end)'
  BY RowFollows DEF Timed, NoneStays
<1> QED BY <1>1, QuietTimed

(* A command is sent, by a handler whose grant was bought.                  *)
LEMMA DispatchTimed ==
  ASSUME TypeOK, TypeOK', NEW end, Timed(end),
         UNCHANGED <<now, agent, played, wire, dbVars>>,
         NEW w \in Worker, NEW op, NEW step, NEW p, NEW add, Dispatch(w, op, step, p, add),
         p.g \in Grant, status[p.g] # "none",
         \/ op = "start" /\ step = "start" /\ add = Dur[p.g]
         \/ op = "end" /\ step \in {"admin_end", "kiosk_end"} /\ p.root = p.g,
         NEW sent, sent = Sent(p, step, calls + 1),
         sent.at = step, sent.g = p.g, sent.call = calls + 1
  PROVE  Timed(end)'
<1>0. PICK new : new = [id |-> calls + 1, op |-> op, g |-> p.g, root |-> p.root, add |-> add]
  OBVIOUS
<1>1. /\ proc'[w] = sent /\ reply'[w] = NoReply
      /\ \A v \in Worker \ {w} : Follows(v)
  BY DispatchFollows
<1>2. calls' = calls + 1 /\ cmds' = cmds \union {new} /\ calls \in Nat
  BY <1>0 DEF Dispatch, TypeOK
<1>3. UNCHANGED status /\ NoneStays
  BY DEF dbVars, NoneStays
<1>4. \A g \in Grant : RowKnows(g, end)'
  BY DEF Timed, RowKnows, Back, dbVars, deadlines, settled, returns
<1>5. HandlerTold(w, end)'
  <2>1. proc'[w].call <= calls'
    BY <1>1, <1>2
  <2>2. reply'[w].kind # "ok"
    BY <1>1 DEF NoReply
  <2>3. At(w, "start")' \/ Ending(w)'
    BY <1>1 DEF At, Ending
  <2> QED BY <2>1, <2>2, <2>3 DEF HandlerTold
<1>6. ASSUME NEW v \in Worker \ {w} PROVE HandlerTold(v, end)'
  BY <1>1, <1>2, HandlerFollows DEF Timed
<1>7. ASSUME NEW c \in cmds PROVE CommandSound(c)'
  BY <1>1, <1>2, <1>3, CommandKept DEF Timed
<1>8. CommandSound(new)'
  <2>1. new.id = calls + 1 /\ new.op = op /\ new.g = p.g /\ new.root = p.root /\ new.add = add
    BY <1>0
  <2>2. 0 < new.id /\ new.id <= calls'
    BY <1>2, <2>1
  <2>3. ASSUME NEW v \in Worker, proc'[v].call = new.id PROVE v = w
    <3> SUFFICES ASSUME v # w PROVE FALSE
      OBVIOUS
    <3>1. proc'[v].call = calls + 1 /\ proc'[v].call # 0
      BY <1>2, <2>1, <2>3
    <3>2. Follows(v)
      BY <1>1
    <3>3. proc'[v].call = proc[v].call
      BY <3>1, <3>2 DEF Follows
    <3>4. proc[v].call <= calls
      BY DEF Timed, HandlerTold
    <3> QED BY <1>2, <3>1, <3>3, <3>4
  <2>4. /\ proc'[w].g = new.g
        /\ new.op = "start" => At(w, "start")'
        /\ new.op = "end" => Ending(w)'
    BY <1>1, <2>1 DEF At, Ending
  <2>5. /\ new.op # "extend" /\ status'[new.g] # "none"
        /\ new.op = "start" => new.add = Dur[new.g]
        /\ new.op = "end" => new.root = new.g
    BY <1>3, <2>1
  <2>6. \A v \in Worker : proc'[v].call = new.id =>
          /\ proc'[v].g = new.g
          /\ new.op = "start" => At(v, "start")'
          /\ new.op = "end" => Ending(v)'
    BY <2>3, <2>4
  <2> QED BY <2>2, <2>5, <2>6 DEF CommandSound
<1>9. \A c \in cmds' : CommandSound(c)'
  BY <1>2, <1>7, <1>8
<1> QED BY <1>3, <1>4, <1>5, <1>6, <1>9, WorldKept DEF Timed

-----------------------------------------------------------------------------
(* Starting and ending.                                                     *)

(* A late or an early confirmation: the row takes the end the Agent gave.   *)
LEMMA RowAccepts ==
  ASSUME TypeOK', NEW end, NEW g \in Grant, RowKnows(g, end), UNCHANGED <<agent, played>>,
         g \in agent.ran, status[g] # "none",
         status'[g] = "accepted", core'[g] = g, planned'[g] = end[g],
         grace'[g] = grace[g] \/ grace'[g] = end[g] + Grace,
         dur'[g] = dur[g], credited'[g] = credited[g], voucher'[g] = voucher[g],
         g \in owned' <=> g \in owned
  PROVE  RowKnows(g, end)'
BY DEF RowKnows, Back

(* finishGrant gives back at most what was not played, and all of it unless *)
(* the planned end is over.                                                 *)
LEMMA FinishRows ==
  ASSUME TypeOK, Unextended, NEW end \in [Grant -> Nat], Timed(end),
         NEW grant \in Grant, NEW told \in Nat, FinishGrant(grant, told),
         status[grant] = "accepted" => agent.sess # grant,
         UNCHANGED <<agent, played>>
  PROVE  NoneStays /\ \A g \in Grant : RowKnows(g, end)'
<1>1. (IF parent[grant] = NoGrant THEN grant ELSE parent[grant]) = grant
  BY DEF Unextended
<1>2. CASE status[grant] # "accepted"
  <2>1. UNCHANGED dbVars
    BY <1>1, <1>2 DEF FinishGrant
  <2> QED BY <2>1 DEF dbVars, deadlines, settled, returns, NoneStays, Timed, RowKnows, Back
<1>3. CASE status[grant] = "accepted"
  <2> DEFINE left == BoundedSessionRemainder(TimeLeft(grant), told)
             children == {c \in Grant : /\ parent[c] = grant
                                        /\ status[c] \in {"pending", "extended"}}
  <2>1. /\ status' = [x \in Grant |->
                        IF x = grant \/ x \in children THEN "ended" ELSE status[x]]
        /\ ended' = [x \in Grant |->
                       IF x = grant \/ x \in children THEN now ELSE ended[x]]
        /\ credited' = IF left > 0 /\ grant \in owned /\ credited[grant] = 0
                       THEN [credited EXCEPT ![grant] = left] ELSE credited
        /\ voucher' = IF left > 0 /\ grant \notin owned /\ voucher[grant] = 0
                      THEN [voucher EXCEPT ![grant] = left] ELSE voucher
        /\ UNCHANGED <<core, dur, planned, grace, owned>>
    BY <1>1, <1>3 DEF FinishGrant, deadlines
  <2>2. children = {}
    BY <1>3, GrantAssumption DEF Unextended
  <2>3. /\ grant \in agent.ran /\ planned[grant] = end[grant] /\ core[grant] = grant
        /\ dur[grant] = Dur[grant]
        /\ end[grant] > 0 /\ played[grant] + (end[grant] - now) <= Dur[grant]
    BY <1>3 DEF Timed, RowKnows, Back, PlayedWithin
  <2>4. /\ end[grant] \in Nat /\ now \in Nat /\ played[grant] \in Nat
        /\ Dur[grant] \in Nat /\ credited[grant] \in Nat /\ voucher[grant] \in Nat
    BY GrantAssumption DEF TypeOK
  <2>5. TimeLeft(grant) = Larger(end[grant] - now, 0)
    BY <2>3, <2>4 DEF TimeLeft, Deadline
  <2>6. /\ left \in Nat
        /\ left > 0 => left <= end[grant] - now
        /\ left = 0 => now >= end[grant]
    BY <2>4, <2>5 DEF BoundedSessionRemainder, Larger
  <2> HIDE DEF left, children
  <2>7. /\ \A x \in Grant \ {grant} : /\ status'[x] = status[x] /\ ended'[x] = ended[x]
                                      /\ credited'[x] = credited[x]
                                      /\ voucher'[x] = voucher[x]
        /\ status'[grant] = "ended" /\ ended'[grant] = now
        /\ credited'[grant] = IF left > 0 /\ grant \in owned /\ credited[grant] = 0
                              THEN left ELSE credited[grant]
        /\ voucher'[grant] = IF left > 0 /\ grant \notin owned /\ voucher[grant] = 0
                             THEN left ELSE voucher[grant]
    BY <2>1, <2>2 DEF TypeOK
  <2>8. RowKnows(grant, end)'
    <3>1. /\ credited[grant] # 0 => grant \in owned
          /\ voucher[grant] # 0 => grant \notin owned
          /\ Back(grant) # 0 => Back(grant) + played[grant] <= Dur[grant]
      BY DEF Timed, RowKnows, Back
    <3>2. grace[grant] # 0 => grace[grant] = end[grant] + Grace
      BY DEF Timed, RowKnows, Back
    <3>3. CASE left > 0 /\ Back(grant) = 0
      <4>1. credited[grant] = 0 /\ voucher[grant] = 0
        BY <2>4, <3>3 DEF Back
      <4>2. \/ credited'[grant] = left /\ voucher'[grant] = 0 /\ grant \in owned
            \/ credited'[grant] = 0 /\ voucher'[grant] = left /\ grant \notin owned
        BY <2>7, <3>3, <4>1
      <4>3. Back(grant)' = left
        BY <2>6, <4>2 DEF Back
      <4> QED BY <2>3, <2>4, <2>6, <2>7, <3>3, <4>2, <4>3, <2>1, <1>3, <3>2 DEF RowKnows, Back
    <3>4. CASE ~ (left > 0 /\ Back(grant) = 0)
      <4>1. left = 0 \/ credited[grant] # 0 \/ voucher[grant] # 0
        BY <2>4, <2>6, <3>4 DEF Back
      <4>2. credited'[grant] = credited[grant] /\ voucher'[grant] = voucher[grant]
        BY <2>6, <2>7, <3>1, <4>1
      <4>3. Back(grant)' = Back(grant)
        BY <4>2 DEF Back
      <4>4. ended'[grant] >= end[grant] \/ Back(grant)' # 0
        BY <2>4, <2>6, <2>7, <3>4, <4>3
      <4> QED BY <1>3, <2>1, <2>3, <2>7, <3>1, <3>2, <4>2, <4>3, <4>4 DEF RowKnows, Back
    <3> QED BY <3>3, <3>4
  <2>9. ASSUME NEW x \in Grant \ {grant} PROVE RowKnows(x, end)'
    <3>1. RowPasses(x)
      BY <2>1, <2>7 DEF RowPasses
    <3> QED BY <3>1, RowFollows DEF Timed
  <2>10. NoneStays
    BY <2>7 DEF NoneStays
  <2> QED BY <2>8, <2>9, <2>10
<1> QED BY <1>2, <1>3

(* Without a parent there is no extension: the handlers never get to one.   *)
LEMMA NoExtension ==
  ASSUME TypeOK, TypeOK', Handlers, Unextended, Unextended', NEW w \in Worker
  PROVE  /\ ~ At(w, "extend") /\ ~ SendExtend(w)
         /\ \A g \in Grant : ~ RedeemExtend(w, g) /\ ~ SyncExtend(g)
<1>1. ASSUME proc[w].at \in Claiming
      PROVE  parent[proc[w].g] = proc[w].g /\ proc[w].root = proc[w].g /\ proc[w].g \in Grant
  <2>1. proc[w] \in Busy
    BY <1>1 DEF TypeOK, Idle, Claiming
  <2>2. parent[proc[w].g] = proc[w].root /\ proc[w].root \in Grant /\ proc[w].g \in Grant
    BY <1>1, <2>1, BusyFields DEF Handlers
  <2> QED BY <2>2, GrantAssumption DEF Unextended
<1>2. ~ At(w, "extend")
  BY <1>1 DEF At, Handlers, Claiming
<1>3. ~ SendExtend(w)
  BY <1>1, GrantAssumption DEF SendExtend, At, Claiming
<1>4. ASSUME NEW g \in Grant, RedeemExtend(w, g) PROVE FALSE
  <2>1. PICK root \in Grant : status[root] = "accepted" /\ parent' = [parent EXCEPT ![g] = root]
    BY <1>4 DEF RedeemExtend, IsActiveGrantForPC, ActiveGrants
  <2>2. parent'[g] = root /\ root # g
    BY <1>4, <2>1 DEF RedeemExtend, TypeOK
  <2> QED BY <2>2, GrantAssumption DEF Unextended
<1>5. ASSUME NEW g \in Grant, SyncExtend(g) PROVE FALSE
  BY <1>5, GrantAssumption DEF SyncExtend, Unextended
<1> QED BY <1>2, <1>3, <1>4, <1>5

LEMMA HandlersTimed ==
  ASSUME TypeOK, TypeOK', Handlers, NEW end, Timed(end), NEW w \in Worker,
         \/ RefundPlayerBalance(w) \/ StartError(w) \/ MarkApplying(w)
         \/ NoSessionToExtend(w) \/ EndError(w) \/ Crash(w)
  PROVE  Timed(end)'
<1> USE DEF dbVars, deadlines, settled, returns, netVars
<1>1. /\ UNCHANGED <<now, agent, played, calls, cmds, wire>>
      /\ UNCHANGED <<dur, planned, grace, credited, voucher, owned, core, ended>>
  BY DEF RefundPlayerBalance, StartError, MarkApplying, NoSessionToExtend, EndError, Crash
<1>2. proc[w].g \in Grant /\ status[proc[w].g] # "none"
  <2>1. proc[w] \in Busy
    BY AtBusy DEF RefundPlayerBalance, StartError, MarkApplying, NoSessionToExtend, EndError,
                  Crash, Step, TypeOK, At, Idle
  <2>2. proc[w].at # "idle"
    BY <2>1 DEF Busy, Step
  <2> QED BY <2>1, <2>2, BusyFields DEF Handlers
<1>3. \A g \in Grant : \/ status'[g] = status[g]
                       \/ g = proc[w].g /\ status'[g] \in {"start_failed", "offline_failed", "applying"}
  BY <1>2 DEF RefundPlayerBalance, StartError, MarkApplying, NoSessionToExtend, EndError, Crash,
              TypeOK
<1>4. \A g \in Grant : RowPasses(g)
  BY <1>1, <1>2, <1>3 DEF RowPasses
<1>5. \A v \in Worker : Follows(v) \/ Rests(v)
  <2>1. CASE Return(w)
    <3>1. Take(w) \/ UNCHANGED reply
      BY DEF RefundPlayerBalance, StartError, MarkApplying, NoSessionToExtend, EndError, Crash
    <3> QED BY <2>1, <3>1, ReturnFollows
  <2>2. CASE MarkApplying(w) /\ Goto(w, "read")
    <3> DEFINE p == AtStep(proc[w], "read")
    <3>1. proc' = [proc EXCEPT ![w] = p] /\ reply' = reply
      BY <2>2 DEF Goto, AtStep, TypeOK, MarkApplying
    <3>2. proc[w] \in Busy /\ proc[w].at = "mark"
      BY <2>2, AtBusy DEF MarkApplying, Step, At
    <3>3. p.at = "read" /\ p.call = proc[w].call
      BY <3>2 DEF Busy, AtStep
    <3>4. proc[w].call = 0
      BY <3>2 DEF Timed, HandlerTold, At, Ending
    <3> HIDE DEF p
    <3>5. proc'[w] = p /\ \A v \in Worker \ {w} : Follows(v)
      BY <3>1, OthersFollow
    <3>6. Rests(w)
      BY <3>3, <3>4, <3>5 DEF Rests
    <3> QED BY <3>5, <3>6
  <2> QED BY <2>1, <2>2 DEF RefundPlayerBalance, StartError, MarkApplying, NoSessionToExtend,
                            EndError, Crash
<1> QED BY <1>1, <1>4, <1>5, PassingTimed

LEMMA StartOkTimed ==
  ASSUME TypeOK, TypeOK', Handlers, Reports = "deadline", NEW end \in [Grant -> Nat],
         Timed(end), NEW w \in Worker, StartOk(w)
  PROVE  Timed(end)'
<1>0. PICK g : g = proc[w].g
  OBVIOUS
<1>1. g \in Grant /\ status[g] # "none"
  <2>1. proc[w] \in Busy /\ proc[w].at = "start"
    BY AtBusy DEF StartOk, Step, At
  <2> QED BY <1>0, <2>1, BusyFields DEF Handlers
<1>2. g \in agent.ran /\ reply[w].val = end[g]
  BY <1>0 DEF StartOk, HasReply, Timed, HandlerTold
<1>3. /\ status' = [status EXCEPT ![g] = "accepted"]
      /\ core' = [core EXCEPT ![g] = g]
      /\ planned' = [planned EXCEPT ![g] = end[g]]
      /\ grace' = [grace EXCEPT ![g] = end[g] + Grace]
      /\ UNCHANGED <<dur, credited, voucher, owned, ended, now, agent, played, calls, cmds, wire>>
  BY <1>0, <1>2 DEF StartOk, settled, returns, netVars
<1>4. RowKnows(g, end)'
  BY <1>1, <1>2, <1>3, RowAccepts DEF Timed, TypeOK
<1>5. ASSUME NEW x \in Grant, x # g PROVE RowKnows(x, end)' /\ status'[x] = status[x]
  <2>1. RowPasses(x) /\ status'[x] = status[x]
    BY <1>3, <1>5 DEF RowPasses, TypeOK
  <2> QED BY <1>3, <2>1, RowFollows DEF Timed
<1>6. NoneStays /\ \A x \in Grant : RowKnows(x, end)'
  <2>1. status'[g] # "none"
    BY <1>1, <1>3 DEF TypeOK
  <2> QED BY <1>4, <1>5, <2>1 DEF NoneStays
<1>7. \A v \in Worker : Follows(v)
  BY ReturnFollows DEF StartOk
<1> QED BY <1>3, <1>6, <1>7, QuietTimed

LEMMA EndOkTimed ==
  ASSUME TypeOK, TypeOK', Unextended, NEW end \in [Grant -> Nat],
         Timed(end), NEW w \in Worker, EndOk(w)
  PROVE  Timed(end)'
<1>1. proc[w].g \in Grant /\ proc[w].kept \in Nat /\ reply[w].val \in Nat
  BY AtBusy, BusyFields, ReplyFields DEF EndOk, Step
<1>2. PICK told \in Nat : FinishGrant(proc[w].g, told)
  BY <1>1 DEF EndOk
<1>3. agent.sess # proc[w].g
  BY DEF EndOk, HasReply, Timed, HandlerTold, Ending
<1>4. UNCHANGED <<now, agent, played, calls, cmds, wire>>
  BY DEF EndOk, netVars
<1>5. NoneStays /\ \A g \in Grant : RowKnows(g, end)'
  BY <1>1, <1>2, <1>3, <1>4, FinishRows
<1>6. \A v \in Worker : Follows(v)
  BY ReturnFollows DEF EndOk
<1> QED BY <1>4, <1>5, <1>6, QuietTimed

LEMMA SendStartTimed ==
  ASSUME TypeOK, TypeOK', Handlers, NEW end, Timed(end), NEW w \in Worker, SendStart(w)
  PROVE  Timed(end)'
<1> DEFINE p == Keeping(proc[w], now + Dur[proc[w].g])
           sent == Sent(p, "start", calls + 1)
<1>1. proc[w] \in Busy /\ proc[w].at = "send"
  BY AtBusy DEF SendStart, Step, At
<1>2. proc[w].g \in Grant /\ status[proc[w].g] # "none"
  BY <1>1, BusyFields DEF Handlers
<1>3. dur[proc[w].g] = Dur[proc[w].g]
  BY <1>2 DEF Timed, RowKnows, Back
<1>4. p.g = proc[w].g
  BY <1>1 DEF Busy, Keeping
<1>5. sent.at = "start" /\ sent.g = p.g /\ sent.call = calls + 1
  BY <1>1 DEF Busy, Keeping, Sent
<1>6. Dispatch(w, "start", "start", p, dur[proc[w].g])
  BY DEF SendStart, Keeping
<1>7. UNCHANGED <<now, agent, played, wire, dbVars>>
  BY DEF SendStart
<1>8. p.g \in Grant /\ status[p.g] # "none" /\ dur[proc[w].g] = Dur[p.g]
  BY <1>2, <1>3, <1>4
<1>9. sent = Sent(p, "start", calls + 1)
  OBVIOUS
<1> HIDE DEF p, sent
<1> QED BY <1>5, <1>6, <1>7, <1>8, <1>9, DispatchTimed

(* The requests of customers and of the staff.                              *)
LEMMA RequestTimed ==
  ASSUME TypeOK, TypeOK', Handlers, Unextended, NEW end \in [Grant -> Nat], Timed(end),
         NEW w \in Worker, NEW g \in Grant,
         RedeemStart(w, g) \/ AdminEnd(w, g) \/ KioskEnd(w, g)
  PROVE  Timed(end)'
<1>1. CASE RedeemStart(w, g)
  <2>1. /\ status[g] = "none" /\ status' = [status EXCEPT ![g] = "pending"]
        /\ dur' = [dur EXCEPT ![g] = Dur[g]]
        /\ owned \subseteq owned' /\ owned' \subseteq owned \union {g}
        /\ UNCHANGED <<core, planned, grace, credited, voucher, ended, now, agent,
                       played, calls, cmds, wire, reply>>
    BY <1>1 DEF RedeemStart, deadlines, settled, returns, netVars
  <2>2. RowKnows(g, end)'
    <3>1. status'[g] = "pending" /\ dur'[g] = Dur[g]
      BY <2>1 DEF TypeOK
    <3>2. RowKnows(g, end)
      BY DEF Timed
    <3>3. credited[g] = 0 /\ voucher[g] = 0
      BY <2>1, <3>2 DEF RowKnows, Back, TypeOK
    <3> QED BY <2>1, <3>1, <3>2, <3>3 DEF RowKnows, Back
  <2>3. ASSUME NEW x \in Grant, x # g PROVE RowKnows(x, end)' /\ status'[x] = status[x]
    <3>1. RowPasses(x) /\ status'[x] = status[x]
      BY <2>1, <2>3 DEF RowPasses, TypeOK
    <3> QED BY <2>1, <3>1, RowFollows DEF Timed
  <2>4. NoneStays /\ \A x \in Grant : RowKnows(x, end)'
    <3>1. status[g] = "none"
      BY <2>1
    <3> QED BY <2>2, <2>3, <3>1 DEF NoneStays
  <2>5. \A v \in Worker : Follows(v) \/ Rests(v)
    <3>1. PICK p : p = [Idle EXCEPT !.at = "send", !.g = g, !.root = g]
      OBVIOUS
    <3>2. proc' = [proc EXCEPT ![w] = p] /\ p.at = "send" /\ p.call = 0
      BY <1>1, <3>1 DEF RedeemStart, Idle
    <3>3. proc'[w] = p /\ \A v \in Worker \ {w} : Follows(v)
      BY <2>1, <3>2, OthersFollow
    <3> QED BY <3>2, <3>3 DEF Rests
  <2> QED BY <2>1, <2>4, <2>5, QuietTimed
<1>2. CASE AdminEnd(w, g) /\ core[g] = NoGrant
  <2>1. PICK told : FinishGrant(g, told) /\ UNCHANGED <<apiVars, calls, cmds>>
    BY <1>2 DEF AdminEnd
  <2>2. status[g] # "accepted"
    BY <1>2, GrantAssumption DEF Timed, RowKnows, Back
  <2>3. UNCHANGED dbVars
    <3>1. (IF parent[g] = NoGrant THEN g ELSE parent[g]) = g
      BY DEF Unextended
    <3> QED BY <2>1, <2>2, <3>1 DEF FinishGrant
  <2>4. UNCHANGED <<now, agent, played, calls, cmds, wire, proc, reply>>
    BY <1>2, <2>1 DEF AdminEnd, apiVars
  <2>5. \A x \in Grant : RowPasses(x)
    BY <2>3 DEF RowPasses, dbVars
  <2> QED BY <2>4, <2>5, ProcFollows, PassingTimed
<1>3. CASE KioskEnd(w, g) \/ (AdminEnd(w, g) /\ core[g] # NoGrant)
  <2>1. core[g] = g /\ status[g] # "none"
    BY <1>3 DEF KioskEnd, AdminEnd, Timed, RowKnows, Back
  <2>2. PICK p, step :
          /\ step \in {"admin_end", "kiosk_end"}
          /\ Dispatch(w, "end", step, p, 0) /\ p.g = g /\ p.root = core[g]
          /\ Sent(p, step, calls + 1).at = step /\ Sent(p, step, calls + 1).g = g
          /\ Sent(p, step, calls + 1).call = calls + 1
    <3>1. CASE KioskEnd(w, g)
      <4> DEFINE q == [Idle EXCEPT !.g = g, !.root = core[g]]
      <4>1. Dispatch(w, "end", "kiosk_end", q, 0)
        BY <3>1 DEF KioskEnd
      <4>2. /\ q.g = g /\ q.root = core[g] /\ Sent(q, "kiosk_end", calls + 1).at = "kiosk_end"
            /\ Sent(q, "kiosk_end", calls + 1).g = g
            /\ Sent(q, "kiosk_end", calls + 1).call = calls + 1
        BY DEF Idle, Sent
      <4> HIDE DEF q
      <4> QED BY <4>1, <4>2
    <3>2. CASE AdminEnd(w, g) /\ core[g] # NoGrant
      <4>1. PICK k : Dispatch(w, "end", "admin_end",
                              [Idle EXCEPT !.g = g, !.root = core[g], !.kept = k], 0)
        BY <3>2 DEF AdminEnd
      <4> DEFINE q == [Idle EXCEPT !.g = g, !.root = core[g], !.kept = k]
      <4>2. /\ q.g = g /\ q.root = core[g] /\ Sent(q, "admin_end", calls + 1).at = "admin_end"
            /\ Sent(q, "admin_end", calls + 1).g = g
            /\ Sent(q, "admin_end", calls + 1).call = calls + 1
        BY DEF Idle, Sent
      <4>3. Dispatch(w, "end", "admin_end", q, 0)
        BY <4>1
      <4> HIDE DEF q
      <4> QED BY <4>2, <4>3
    <3> QED BY <1>3, <3>1, <3>2
  <2>3. UNCHANGED <<now, agent, played, wire, dbVars>>
    BY <1>3 DEF KioskEnd, AdminEnd
  <2> DEFINE sent == Sent(p, step, calls + 1)
  <2>4. sent.at = step /\ sent.g = p.g /\ sent.call = calls + 1
    BY <2>2
  <2>5. /\ Dispatch(w, "end", step, p, 0) /\ sent = Sent(p, step, calls + 1)
        /\ step \in {"admin_end", "kiosk_end"}
    BY <2>2
  <2> HIDE DEF sent
  <2>6. p.g \in Grant /\ status[p.g] # "none" /\ p.root = p.g
    BY <2>1, <2>2
  <2> QED BY <2>3, <2>4, <2>5, <2>6, DispatchTimed
<1> QED BY <1>1, <1>2, <1>3

(* The edge loop merges a grant with nothing but itself.                    *)
LEMMA SyncTimed ==
  ASSUME TypeOK, TypeOK', Handlers, Unextended', NEW end, Timed(end),
         SyncLookup \/ SyncMerge \/ \E g \in Grant : SyncPick(g)
  PROVE  Timed(end)'
<1> USE DEF dbVars, deadlines, settled, returns, netVars
<1>0. Sync \in Worker
  BY GrantAssumption
<1>1. /\ UNCHANGED <<now, agent, played, calls, cmds, wire, reply>>
      /\ UNCHANGED <<dur, planned, grace, credited, voucher, owned, ended>>
  BY DEF SyncLookup, SyncMerge, SyncPick
<1>2. ASSUME NEW p, proc' = [proc EXCEPT ![Sync] = p], p.call = 0,
             p.at \in {"picked", "merge", "send", "mark"},
             \A g \in Grant : RowPasses(g)
      PROVE  Timed(end)'
  <2>1. proc'[Sync] = p /\ \A v \in Worker \ {Sync} : Follows(v)
    BY <1>0, <1>1, <1>2, OthersFollow
  <2>2. Rests(Sync)
    BY <1>2, <2>1 DEF Rests
  <2> QED BY <1>1, <1>2, <2>1, <2>2, PassingTimed
<1>3. CASE SyncLookup
  <2>1. proc[Sync] \in Busy /\ proc[Sync].at = "picked"
    BY <1>0, <1>3, AtBusy DEF SyncLookup, Step, At
  <2>2. proc[Sync].call = 0
    BY <1>0, <2>1 DEF Timed, HandlerTold, At, Ending
  <2>3. PICK p : /\ proc' = [proc EXCEPT ![Sync] = p] /\ p.call = 0
                 /\ p.at \in {"merge", "send"}
    <3>1. CASE Goto(Sync, "send")
      <4> DEFINE q == AtStep(proc[Sync], "send")
      <4>1. proc' = [proc EXCEPT ![Sync] = q]
        BY <1>0, <3>1 DEF Goto, AtStep, TypeOK
      <4>2. q.at = "send" /\ q.call = 0
        BY <2>1, <2>2 DEF Busy, AtStep
      <4> HIDE DEF q
      <4> QED BY <4>1, <4>2
    <3>2. ASSUME NEW root \in Grant,
                 proc' = [proc EXCEPT ![Sync].at = "merge", ![Sync].root = root]
          PROVE  \E p : /\ proc' = [proc EXCEPT ![Sync] = p] /\ p.call = 0
                        /\ p.at \in {"merge", "send"}
      <4> DEFINE q == [proc[Sync] EXCEPT !.at = "merge", !.root = root]
      <4>1. proc' = [proc EXCEPT ![Sync] = q]
        BY <3>2 DEF TypeOK
      <4>2. q.at = "merge" /\ q.call = 0
        BY <2>1, <2>2 DEF Busy
      <4> HIDE DEF q
      <4> QED BY <4>1, <4>2
    <3> QED BY <1>3, <3>1, <3>2 DEF SyncLookup
  <2>4. \A g \in Grant : RowPasses(g)
    BY <1>3 DEF SyncLookup, RowPasses
  <2> QED BY <1>2, <2>3, <2>4
<1>4. CASE SyncMerge
  <2> DEFINE g == proc[Sync].g
             root == proc[Sync].root
             q == [proc[Sync] EXCEPT !.at = "mark", !.merge = TRUE]
  <2>1. proc[Sync] \in Busy /\ proc[Sync].at = "merge" /\ g \in Grant /\ root \in Grant
    BY <1>0, <1>4, AtBusy, BusyFields DEF SyncMerge, Step, At
  <2>2. status[g] # "none" /\ parent[g] = NoGrant
    BY <1>0, <2>1 DEF Handlers, Starting
  <2>3. /\ status' = [status EXCEPT ![g] = "pending"] /\ parent' = [parent EXCEPT ![g] = root]
        /\ core' = [core EXCEPT ![g] = core[root]] /\ proc' = [proc EXCEPT ![Sync] = q]
    <3>1. IF parent[g] = NoGrant
          THEN /\ status' = [status EXCEPT ![g] = "pending"]
               /\ parent' = [parent EXCEPT ![g] = root]
               /\ core' = [core EXCEPT ![g] = core[root]]
               /\ proc' = [proc EXCEPT ![Sync] = q]
          ELSE UNCHANGED <<status, parent, core>> /\ Return(Sync)
      BY <1>0, <1>4 DEF SyncMerge, TypeOK
    <3> QED BY <2>2, <3>1
  <2>4. q.at = "mark" /\ q.call = 0
    <3>1. proc[Sync].call = 0
      BY <1>0, <2>1 DEF Timed, HandlerTold, At, Ending
    <3> QED BY <2>1, <3>1 DEF Busy
  <2> HIDE DEF g, root, q
  <2>5. root = g
    <3>1. \A x \in Grant : parent'[x] \in {NoGrant, x}
      BY DEF Unextended
    <3>2. parent'[g] = root
      BY <2>1, <2>3 DEF TypeOK
    <3> QED BY <2>1, <3>1, <3>2, GrantAssumption
  <2>6. \A x \in Grant : RowPasses(x)
    BY <1>1, <2>1, <2>2, <2>3, <2>5 DEF RowPasses, TypeOK
  <2> QED BY <1>2, <2>3, <2>4, <2>6
<1>5. ASSUME NEW g \in Grant, SyncPick(g) PROVE Timed(end)'
  <2> DEFINE q == [Idle EXCEPT !.at = "picked", !.g = g, !.root = g]
  <2>1. q.at = "picked" /\ q.call = 0
    BY DEF Idle
  <2>2. proc' = [proc EXCEPT ![Sync] = q]
    BY <1>5 DEF SyncPick
  <2>3. \A x \in Grant : RowPasses(x)
    BY <1>5 DEF SyncPick, RowPasses
  <2> HIDE DEF q
  <2> QED BY <1>2, <2>1, <2>2, <2>3
<1> QED BY <1>3, <1>4, <1>5

(* Expiry ends a row when its planned end is over; the repair finds nothing *)
(* that was not given back.                                                 *)
LEMMA ExpireTimed ==
  ASSUME TypeOK, TypeOK', Unextended, NEW end \in [Grant -> Nat], Timed(end), Expire
  PROVE  Timed(end)'
<1> DEFINE over == {g \in Grant : status[g] = "accepted" /\ ExpiresAt(g) <= now}
           children == {c \in Grant : /\ parent[c] \in over
                                      /\ status[c] \in {"pending", "extended"}}
<1>1. /\ status' = [x \in Grant |->
                      IF x \in over \union children THEN "ended" ELSE status[x]]
      /\ ended' = [x \in Grant |-> IF x \in over THEN ExpiresAt(x)
                                   ELSE IF x \in children THEN now ELSE ended[x]]
      /\ UNCHANGED <<dur, planned, grace, credited, voucher, owned, core>>
      /\ UNCHANGED <<now, agent, played, calls, cmds, wire, proc, reply>>
  BY DEF Expire, deadlines, returns, netVars, apiVars
<1>2. children = {}
  BY GrantAssumption DEF Unextended
<1>3. \A g \in over : g \in Grant /\ status[g] = "accepted"
  OBVIOUS
<1> HIDE DEF over, children
<1>4. ASSUME NEW g \in Grant, g \in over PROVE RowKnows(g, end)' /\ status'[g] # "none"
  <2>1. status[g] = "accepted" /\ status'[g] = "ended" /\ ended'[g] = ExpiresAt(g)
    BY <1>1, <1>3, <1>4
  <2>2. /\ g \in agent.ran /\ planned[g] = end[g] /\ end[g] > 0
        /\ grace[g] # 0 => grace[g] = end[g] + Grace
    BY <2>1 DEF Timed, RowKnows, Back, PlayedWithin
  <2>3. end[g] \in Nat /\ Grace \in Nat
    BY GrantAssumption
  <2>4. ExpiresAt(g) >= end[g]
    BY <2>2, <2>3 DEF ExpiresAt, Deadline
  <2>5. RowKnows(g, end)
    BY DEF Timed
  <2> QED BY <1>1, <2>1, <2>2, <2>4, <2>5 DEF RowKnows, Back
<1>5. ASSUME NEW g \in Grant, g \notin over
      PROVE  RowKnows(g, end)' /\ status'[g] = status[g]
  <2>1. RowPasses(g) /\ status'[g] = status[g]
    BY <1>1, <1>2, <1>5 DEF RowPasses
  <2> QED BY <1>1, <2>1, RowFollows DEF Timed
<1>6. NoneStays /\ \A g \in Grant : RowKnows(g, end)'
  BY <1>4, <1>5 DEF NoneStays
<1> QED BY <1>1, <1>6, ProcFollows, QuietTimed

LEMMA NothingMissing ==
  ASSUME TypeOK, NEW end \in [Grant -> Nat], Timed(end)
  PROVE  ~ ReconcileMissingRemainders
<1>1. ASSUME NEW g \in Grant, MissingRemainder(g) PROVE FALSE
  <2>0. /\ status[g] = "ended" /\ credited[g] = 0 /\ Deadline(g) > ended[g]
        /\ g \in owned
    BY <1>1 DEF MissingRemainder
  <2>1. status[g] = "ended" /\ Back(g) = 0 /\ Deadline(g) > ended[g]
    BY <2>0 DEF Timed, RowKnows, Back
  <2>2. g \in agent.ran /\ planned[g] = end[g] /\ end[g] > 0 /\ ended[g] >= end[g]
    BY <2>1 DEF Timed, RowKnows, Back, PlayedWithin
  <2>3. end[g] \in Nat /\ ended[g] \in Nat
    BY DEF TypeOK
  <2> QED BY <2>1, <2>2, <2>3 DEF Deadline
<1> QED BY <1>1 DEF ReconcileMissingRemainders

LEMMA IdleTimed ==
  ASSUME TypeOK, TypeOK', NEW end, Timed(end),
         Heartbeat \/ AgentOffline \/ LoseCommand \/ UNCHANGED vars
  PROVE  Timed(end)'
<1> USE DEF dbVars, apiVars, netVars, deadlines, settled, returns
<1>1. /\ UNCHANGED <<now, agent, played, calls, wire, proc, reply>> /\ cmds' \subseteq cmds
      /\ UNCHANGED <<status, dur, planned, grace, credited, voucher, owned, core, ended>>
  BY DEF Heartbeat, AgentOffline, LoseCommand, vars
<1>2. \A g \in Grant : RowPasses(g)
  BY <1>1 DEF RowPasses
<1> QED BY <1>1, <1>2, ProcFollows, PassingTimed

(* Time passes: what is played is no longer left.                           *)
LEMMA TickTimed ==
  ASSUME TypeOK, TypeOK', NEW end \in [Grant -> Nat], Timed(end), Tick
  PROVE  Timed(end)'
<1>1. /\ now' = now + 1 /\ now \in Nat /\ UNCHANGED <<agent, cmds, wire, calls, proc, reply>>
      /\ UNCHANGED <<status, dur, planned, grace, credited, voucher, owned, core, ended>>
      /\ played' = IF agent.sess # NoGrant /\ now < agent.ends
                   THEN [played EXCEPT ![agent.sess] = @ + 1] ELSE played
  BY DEF Tick, dbVars, apiVars, netVars, deadlines, settled, returns, TypeOK
<1>2. ASSUME NEW g \in Grant
      PROVE  PlayedWithin(g, end)' /\ RowKnows(g, end)'
  <2>1. end[g] \in Nat /\ played[g] \in Nat /\ Dur[g] \in Nat
    BY GrantAssumption DEF TypeOK
  <2>2. PlayedWithin(g, end) /\ RowKnows(g, end)
    BY DEF Timed
  <2>3. CASE played'[g] = played[g]
    <3>1. PlayedWithin(g, end)'
      BY <1>1, <2>1, <2>2, <2>3 DEF PlayedWithin
    <3> QED BY <1>1, <2>2, <2>3, <3>1 DEF RowKnows, Back
  <2>4. CASE played'[g] # played[g]
    <3>1. agent.sess = g /\ now < agent.ends /\ played'[g] = played[g] + 1
      BY <1>1, <2>4, GrantAssumption DEF TypeOK
    <3>2. g \in agent.ran /\ agent.ends = end[g]
      BY <3>1, GrantAssumption DEF Timed, SessionEnds
    <3>3. PlayedWithin(g, end)'
      BY <1>1, <2>1, <2>2, <3>1, <3>2 DEF PlayedWithin
    <3>4. Back(g) = 0
      BY <2>2, <3>1 DEF RowKnows, Back
    <3> QED BY <1>1, <2>2, <3>3, <3>4 DEF RowKnows, Back
  <2> QED BY <2>3, <2>4
<1>3. SessionEnds(end)'
  BY <1>1 DEF Timed, SessionEnds
<1>4. \A w \in Worker : HandlerTold(w, end)'
  BY <1>1 DEF Timed, HandlerTold, At, Ending
<1>5. \A c \in cmds' : CommandSound(c)'
  BY <1>1 DEF Timed, CommandSound, At, Ending
<1>6. \A e \in wire' : EventSound(e, end)'
  BY <1>1 DEF Timed, EventSound
<1> QED BY <1>2, <1>3, <1>4, <1>5, <1>6 DEF Timed

-----------------------------------------------------------------------------
(* The events.                                                              *)

LEMMA EventTimed ==
  ASSUME TypeOK, TypeOK', Unextended, NEW end \in [Grant -> Nat], Timed(end), CoreEvent
  PROVE  Timed(end)'
<1>1. PICK e \in wire : \/ EventStarted(e) \/ EventExtended(e) \/ EventEnded(e)
                        \/ EventFailed(e)
  BY DEF CoreEvent
<1>2. e.g \in Grant /\ e.val \in Nat /\ EventSound(e, end)
  BY DEF TypeOK, Event, Timed
<1>3. /\ UNCHANGED <<now, agent, played, calls, cmds, proc, reply>>
      /\ wire' \subseteq wire
  BY <1>1 DEF EventStarted, EventExtended, EventEnded, EventFailed, Receive, apiVars
<1>4. NoneStays /\ \A g \in Grant : RowKnows(g, end)'
  <2>1. CASE EventStarted(e)
    <3>1. /\ status' = [status EXCEPT ![e.g] = "accepted"]
          /\ core' = [core EXCEPT ![e.g] = e.root]
          /\ planned' = IF e.val # 0 THEN [planned EXCEPT ![e.g] = e.val] ELSE planned
          /\ UNCHANGED <<dur, grace, credited, voucher, owned, ended>>
      BY <2>1 DEF EventStarted, settled, returns
    <3>2. e.root = e.g /\ e.g \in agent.ran /\ e.val = end[e.g] /\ status[e.g] # "none"
      BY <1>2, <2>1 DEF EventStarted, Receive, EventSound
    <3>3. end[e.g] > 0
      BY <1>2, <3>2 DEF Timed, PlayedWithin
    <3>4. /\ status'[e.g] = "accepted" /\ core'[e.g] = e.g /\ planned'[e.g] = end[e.g]
          /\ dur'[e.g] = dur[e.g] /\ grace'[e.g] = grace[e.g] /\ UNCHANGED owned
          /\ credited'[e.g] = credited[e.g] /\ voucher'[e.g] = voucher[e.g]
      BY <1>2, <3>1, <3>2, <3>3 DEF TypeOK
    <3>5. RowKnows(e.g, end)'
      BY <1>2, <1>3, <3>2, <3>4, RowAccepts DEF Timed
    <3>6. ASSUME NEW g \in Grant, g # e.g PROVE RowKnows(g, end)' /\ status'[g] = status[g]
      <4>1. RowPasses(g) /\ status'[g] = status[g]
        BY <3>1, <3>6 DEF RowPasses, TypeOK
      <4> QED BY <1>3, <4>1, RowFollows DEF Timed
    <3> QED BY <3>2, <3>4, <3>5, <3>6 DEF NoneStays
  <2>2. CASE EventExtended(e)
    BY <1>2, <2>2 DEF EventExtended, Receive, EventSound
  <2>3. CASE EventEnded(e)
    <3>1. e.root = e.g /\ agent.sess # e.g
      BY <1>2, <2>3 DEF EventEnded, Receive, EventSound
    <3>2. \A g \in Grant : core[g] = e.root => g = e.g
      BY <1>2, <3>1, GrantAssumption DEF Timed, RowKnows, Back
    <3>3. FinishGrant(e.g, IF e.val = 0 /\ e.kind = "ended" THEN TimeLeft(e.g) ELSE e.val)
      BY <2>3, <3>1, <3>2 DEF EventEnded
    <3>4. (IF e.val = 0 /\ e.kind = "ended" THEN TimeLeft(e.g) ELSE e.val) \in Nat
      BY <1>2, TimeTypes
    <3> QED BY <1>2, <1>3, <3>1, <3>3, <3>4, FinishRows
  <2>4. CASE EventFailed(e)
    <3>1. e.root = NoGrant /\ status[e.g] # "none"
      BY <1>2, <2>4 DEF EventFailed, Receive, EventSound
    <3>2. /\ \A g \in Grant : status'[g] = IF g = e.g THEN "start_failed" ELSE status[g]
          /\ UNCHANGED <<core, dur, planned, grace, credited, voucher, owned, ended>>
      BY <2>4, <3>1 DEF EventFailed, RowsOf, deadlines, settled, returns
    <3>3. \A g \in Grant : RowPasses(g)
      BY <3>1, <3>2 DEF RowPasses
    <3> QED BY <1>3, <3>3, RowFollows DEF Timed, NoneStays
  <2> QED BY <1>1, <2>1, <2>2, <2>3, <2>4
<1> QED BY <1>3, <1>4, ProcFollows, QuietTimed

-----------------------------------------------------------------------------
(* The Agent.                                                               *)

(* An answer: the command is gone, and whoever waits for it is told.        *)
LEMMA AnswerCommands ==
  ASSUME NEW end, Timed(end), NEW c \in cmds, NEW kind, NEW val, Answer(c, kind, val)
  PROVE  \A d \in cmds' : CommandSound(d)'
BY DEF Timed, Answer, CommandSound, At, Ending, dbVars

LEMMA AnswerHandlers ==
  ASSUME TypeOK, Handlers, Unextended, NEW end, Timed(end), NEW c \in cmds, NEW kind, NEW val,
         Answer(c, kind, val),
         agent.ran \subseteq agent'.ran,
         \A g \in agent.ran : agent'.sess = g => agent.sess = g,
         kind = "ok" /\ c.op = "start" => c.g \in agent'.ran /\ val = end[c.g],
         kind = "ok" /\ c.op = "end" => c.g \in agent'.ran /\ agent'.sess # c.g
  PROVE  \A w \in Worker : HandlerTold(w, end)'
<1> SUFFICES ASSUME NEW w \in Worker PROVE HandlerTold(w, end)'
  OBVIOUS
<1>1. UNCHANGED <<proc, calls>>
  BY DEF Answer
<1>2. HandlerTold(w, end) /\ CommandSound(c)
  BY DEF Timed
<1>3. CASE ~ (Awaits(w, c) /\ reply[w].kind = "none")
  <2>1. reply'[w] = reply[w]
    BY <1>3 DEF Answer
  <2> QED BY <1>1, <1>2, <2>1 DEF HandlerTold, At, Ending
<1>4. CASE Awaits(w, c) /\ reply[w].kind = "none"
  <2>1. reply'[w].kind = kind /\ reply'[w].val = val
    BY <1>4 DEF Answer
  <2>2. c.op \in {"start", "end"}
    BY <1>2 DEF TypeOK, Command, CommandSound
  <2>3. /\ proc[w].g = c.g
        /\ c.op = "start" => At(w, "start")
        /\ c.op = "end" => Ending(w)
    <3>1. CASE proc[w].call = c.id
      BY <1>2, <3>1 DEF CommandSound
    <3>2. CASE At(w, "start") /\ c.op = "start" /\ proc[w].g = c.g
      BY <3>2
    <3> QED BY <1>4, <3>1, <3>2 DEF Awaits
  <2>4. ~ (At(w, "start") /\ Ending(w))
    BY DEF At, Ending
  <2> QED BY <1>1, <1>2, <2>1, <2>2, <2>3, <2>4 DEF HandlerTold, At, Ending
<1> QED BY <1>3, <1>4

(* An event joins those on the wire; what they said of a session stays true *)
(* when another one starts.                                                 *)
LEMMA EmitEvents ==
  ASSUME NEW end, Timed(end), NEW kind, NEW g, NEW root, NEW val, Emit(kind, g, root, val),
         UNCHANGED status, agent.ran \subseteq agent'.ran,
         \A h \in agent.ran : agent'.sess = h => agent.sess = h,
         /\ kind # "extended"
         /\ kind = "started" => /\ root = g /\ g \in agent'.ran
                                /\ val = end[g] /\ status[g] # "none"
         /\ kind \in {"ended", "expired"} => root = g /\ g \in agent'.ran /\ agent'.sess # g
         /\ kind = "failed" => root = NoGrant /\ status[g] # "none"
  PROVE  \A e \in wire' : EventSound(e, end)'
<1>1. PICK new : new = [kind |-> kind, g |-> g, root |-> root, val |-> val, at |-> now]
  OBVIOUS
<1>2. wire' = wire \union {new} /\ new.kind = kind /\ new.g = g /\ new.root = root /\ new.val = val
  BY <1>1 DEF Emit
<1>3. EventSound(new, end)'
  BY <1>2 DEF EventSound
<1>4. \A e \in wire : EventSound(e, end)'
  BY DEF Timed, EventSound
<1> QED BY <1>2, <1>3, <1>4

LEMMA RefuseTimed ==
  ASSUME TypeOK, Handlers, Unextended, NEW end, Timed(end), NEW c \in cmds, Refuse(c)
  PROVE  Timed(end)'
<1>1. Answer(c, "error", 0) /\ UNCHANGED <<agent, now, played, dbVars>>
  BY DEF Refuse, Answer
<1>2. UNCHANGED status /\ \A g \in Grant : PlayedWithin(g, end)' /\ RowKnows(g, end)'
  BY <1>1 DEF Timed, PlayedWithin, RowKnows, Back, dbVars, deadlines, settled, returns
<1>3. SessionEnds(end)'
  BY <1>1 DEF Timed, SessionEnds
<1>4. \A d \in cmds' : CommandSound(d)'
  BY <1>1, AnswerCommands
<1>5. \A w \in Worker : HandlerTold(w, end)'
  BY <1>1, AnswerHandlers
<1>6. \A e \in wire' : EventSound(e, end)'
  <2>1. CASE UNCHANGED wire
    BY <1>1, <1>2, <2>1 DEF Timed, EventSound
  <2>2. CASE c.op # "end" /\ Emit("failed", c.g, IF c.op = "start" THEN NoGrant ELSE c.root, 0)
    <3>1. c.op = "start" /\ status[c.g] # "none"
      BY <2>2 DEF TypeOK, Command, Timed, CommandSound
    <3>2. Emit("failed", c.g, NoGrant, 0)
      BY <2>2, <3>1
    <3> QED BY <1>1, <1>2, <3>1, <3>2, EmitEvents
  <2> QED BY <2>1, <2>2 DEF Refuse
<1> QED BY <1>2, <1>3, <1>4, <1>5, <1>6 DEF Timed

(* The session stops: it has run, and does not run again.                   *)
LEMMA StoppedTimed ==
  ASSUME TypeOK, NEW end, Timed(end), agent' = Stopped, UNCHANGED <<now, played, dbVars>>
  PROVE  /\ agent'.ran = agent.ran /\ agent'.sess = NoGrant
         /\ SessionEnds(end)'
         /\ \A g \in Grant : PlayedWithin(g, end)' /\ RowKnows(g, end)'
<1>1. agent'.ran = agent.ran /\ agent'.sess = NoGrant
  BY DEF TypeOK, AgentState, Stopped
<1>2. SessionEnds(end)'
  BY <1>1 DEF SessionEnds
<1>3. ASSUME NEW g \in Grant PROVE PlayedWithin(g, end)' /\ RowKnows(g, end)'
  <2>1. PlayedWithin(g, end)'
    BY <1>1 DEF Timed, PlayedWithin
  <2>2. RowKnows(g, end)'
    BY <1>1, GrantAssumption DEF Timed, RowKnows, Back, dbVars, deadlines, settled, returns
  <2> QED BY <2>1, <2>2
<1> QED BY <1>1, <1>2, <1>3

LEMMA AgentStopTimed ==
  ASSUME TypeOK, NEW end, Timed(end), AgentStop
  PROVE  Timed(end)'
<1>1. /\ agent' = Stopped /\ agent.sess # NoGrant
      /\ UNCHANGED <<now, played, dbVars, proc, reply, cmds, calls>>
  BY DEF AgentStop, apiVars
<1>2. /\ agent'.ran = agent.ran /\ agent'.sess = NoGrant
      /\ SessionEnds(end)'
      /\ \A g \in Grant : PlayedWithin(g, end)' /\ RowKnows(g, end)'
  BY <1>1, StoppedTimed
<1>3. agent.sess \in agent.ran /\ agent.ran \subseteq Grant
  BY <1>1 DEF Timed, SessionEnds, TypeOK, AgentState
<1>4. PICK kind \in {"ended", "expired"}, told \in Nat : Emit(kind, agent.sess, agent.sess, told)
  BY GrantAssumption DEF AgentStop
<1>5. UNCHANGED status
  BY <1>1 DEF dbVars
<1>6. \A e \in wire' : EventSound(e, end)'
  <2>1. PICK g : g = agent.sess
    OBVIOUS
  <2>2. Emit(kind, g, g, told) /\ g \in agent'.ran /\ agent'.sess # g
    BY <1>1, <1>2, <1>3, <1>4, <2>1
  <2>3. kind # "extended" /\ kind # "started" /\ kind # "failed"
    BY <1>4
  <2>4. \A h \in agent.ran : agent'.sess = h => agent.sess = h
    BY <1>2, <1>3, GrantAssumption
  <2> QED BY <1>2, <1>5, <2>2, <2>3, <2>4, EmitEvents
<1>7. \A c \in cmds' : CommandSound(c)'
  BY <1>1, <1>5 DEF Timed, CommandSound, At, Ending
<1>8. \A w \in Worker : HandlerTold(w, end)'
  <2> SUFFICES ASSUME NEW w \in Worker PROVE HandlerTold(w, end)'
    OBVIOUS
  <2>1. HandlerTold(w, end) /\ proc' = proc /\ reply' = reply /\ calls' = calls
    BY <1>1 DEF Timed
  <2>2. agent'.sess = NoGrant /\ NoGrant \notin agent.ran
    BY <1>2, <1>3, GrantAssumption
  <2> QED BY <1>2, <2>1, <2>2 DEF HandlerTold, At, Ending
<1> QED BY <1>2, <1>6, <1>7, <1>8 DEF Timed

LEMMA AgentEndTimed ==
  ASSUME TypeOK, Handlers, Unextended, NEW end, Timed(end), NEW c \in cmds, AgentEnd(c)
  PROVE  Timed(end)'
<1>1. CASE agent.sess = c.root
  <2>1. PICK told \in Reported : /\ agent' = Stopped
                                 /\ Emit("ended", c.root, c.root, told)
                                 /\ Answer(c, "ok", told)
    BY <1>1 DEF AgentEnd
  <2>2. UNCHANGED <<now, played, dbVars>> /\ UNCHANGED status
    BY <2>1 DEF Answer, dbVars
  <2>3. c.op = "end" /\ c.root \in Grant /\ c.root = c.g
    BY DEF AgentEnd, TypeOK, Command, Timed, CommandSound
  <2>4. /\ agent'.ran = agent.ran /\ agent'.sess = NoGrant
        /\ SessionEnds(end)'
        /\ \A g \in Grant : PlayedWithin(g, end)' /\ RowKnows(g, end)'
    BY <2>1, <2>2, StoppedTimed
  <2>5. /\ c.g \in agent'.ran /\ agent'.sess # c.g
        /\ \A h \in agent.ran : agent'.sess = h => agent.sess = h
    <3>1. c.g \in agent.ran /\ agent.ran \subseteq Grant
      BY <1>1, <2>3, GrantAssumption DEF Timed, SessionEnds, TypeOK, AgentState
    <3> QED BY <2>4, <3>1, GrantAssumption
  <2>6. \A e \in wire' : EventSound(e, end)'
    <3>1. Emit("ended", c.g, c.g, told)
      BY <2>1, <2>3
    <3> QED BY <2>2, <2>4, <2>5, <3>1, EmitEvents
  <2>7. \A d \in cmds' : CommandSound(d)'
    BY <2>1, AnswerCommands
  <2>8. \A w \in Worker : HandlerTold(w, end)'
    BY <2>1, <2>3, <2>4, <2>5, AnswerHandlers
  <2> QED BY <2>4, <2>6, <2>7, <2>8 DEF Timed
<1>2. CASE Refuse(c)
  BY <1>2, RefuseTimed
<1> QED BY <1>1, <1>2 DEF AgentEnd

(* Only the sessions that ran have an end.                                  *)
LEMMA Refit ==
  ASSUME NEW end, Timed(end), NEW end2, \A g \in agent.ran : end2[g] = end[g]
  PROVE  Timed(end2)
BY DEF Timed, SessionEnds, PlayedWithin, RowKnows, Back, HandlerTold, EventSound

(* The Agent starts the session, and so fixes its end.                      *)
LEMMA FreshStartTimed ==
  ASSUME TypeOK, Handlers, Unextended, Reports = "deadline", NEW end, Timed(end),
         NEW c \in cmds, c.op = "start", agent.sess = NoGrant, c.g \notin agent.ran,
         end[c.g] = now + c.add,
         agent' = [agent EXCEPT !.sess = c.g, !.ends = now + c.add, !.ran = @ \union {c.g}],
         Emit("started", c.g, c.g, now + c.add),
         Answer(c, "ok", ToldInReply(now + c.add))
  PROVE  Timed(end)'
<1>1. /\ agent'.sess = c.g /\ agent'.ends = now + c.add
      /\ agent'.ran = agent.ran \union {c.g} /\ agent.ran \subseteq Grant
  BY DEF TypeOK, AgentState
<1>2. c.g \in Grant /\ c.add = Dur[c.g] /\ status[c.g] # "none"
  BY DEF TypeOK, Command, Timed, CommandSound
<1>3. UNCHANGED <<now, dbVars, played>> /\ UNCHANGED status
  BY DEF Answer, dbVars
<1>4. SessionEnds(end)'
  BY <1>1 DEF SessionEnds
<1>5. ASSUME NEW g \in Grant PROVE PlayedWithin(g, end)' /\ RowKnows(g, end)'
  <2>1. PlayedWithin(g, end) /\ RowKnows(g, end)
    BY DEF Timed
  <2>2. RowKnows(g, end)'
    <3>1. Back(g) # 0 => agent'.sess # g
      BY <1>1, <2>1 DEF RowKnows, Back
    <3> QED BY <1>1, <1>3, <2>1, <3>1 DEF RowKnows, Back, dbVars, deadlines, settled, returns
  <2>3. CASE g # c.g
    BY <1>1, <1>3, <2>1, <2>2, <2>3 DEF PlayedWithin
  <2>4. CASE g = c.g
    <3>1. played[g] = 0 /\ now \in Nat /\ Dur[g] \in Nat \ {0} /\ end[g] = now + Dur[g]
      BY <1>2, <2>1, <2>4, GrantAssumption DEF PlayedWithin, TypeOK
    <3>2. end[g] > 0 /\ played[g] <= Dur[g] /\ played[g] + (end[g] - now) <= Dur[g]
      BY <3>1
    <3>3. g \in agent'.ran
      BY <1>1, <2>4
    <3> QED BY <1>3, <2>2, <3>2, <3>3 DEF PlayedWithin
  <2> QED BY <2>3, <2>4
<1>6. \A h \in agent.ran : agent'.sess = h => agent.sess = h
  BY <1>1
<1>7. \A e \in wire' : EventSound(e, end)'
  <2>1. c.g \in agent'.ran /\ agent.ran \subseteq agent'.ran
    BY <1>1
  <2> QED BY <1>2, <1>3, <1>6, <2>1, EmitEvents
<1>8. \A d \in cmds' : CommandSound(d)'
  BY AnswerCommands
<1>9. \A w \in Worker : HandlerTold(w, end)'
  <2>1. c.g \in agent'.ran /\ agent.ran \subseteq agent'.ran
    BY <1>1
  <2>2. ToldInReply(now + c.add) = end[c.g]
    BY DEF ToldInReply
  <2> QED BY <1>6, <2>1, <2>2, AnswerHandlers
<1> QED BY <1>4, <1>5, <1>7, <1>8, <1>9 DEF Timed

(* A repeated start of the session that runs is told the same end.          *)
LEMMA RepeatedStartTimed ==
  ASSUME TypeOK, Handlers, Unextended, Reports = "deadline", NEW end, Timed(end),
         NEW c \in cmds, c.op = "start", agent.sess = c.g,
         UNCHANGED wire, UNCHANGED agent, Answer(c, "ok", ToldInReply(agent.ends))
  PROVE  Timed(end)'
<1>1. UNCHANGED <<now, dbVars, played, wire>>
  BY DEF Answer
<1>2. SessionEnds(end)' /\ \A g \in Grant : PlayedWithin(g, end)' /\ RowKnows(g, end)'
  BY <1>1 DEF Timed, SessionEnds, PlayedWithin, RowKnows, Back, dbVars, deadlines, settled, returns
<1>3. \A e \in wire' : EventSound(e, end)'
  BY <1>1 DEF Timed, EventSound, dbVars
<1>4. \A d \in cmds' : CommandSound(d)'
  BY AnswerCommands
<1>5. c.g \in agent.ran /\ ToldInReply(agent.ends) = end[c.g]
  <2>1. c.g # NoGrant
    BY GrantAssumption DEF TypeOK, Command
  <2> QED BY <2>1 DEF Timed, SessionEnds, ToldInReply
<1>6. \A w \in Worker : HandlerTold(w, end)'
  BY <1>5, AnswerHandlers
<1> QED BY <1>2, <1>3, <1>4, <1>6 DEF Timed

LEMMA AgentTimed ==
  ASSUME TypeOK, Handlers, Unextended, Reports = "deadline", NEW end \in [Grant -> Nat],
         Timed(end), AgentStep
  PROVE  TimedInv'
<1>1. CASE AgentStop
  BY <1>1, AgentStopTimed DEF TimedInv
<1>2. ASSUME NEW c \in cmds, AgentEnd(c) PROVE TimedInv'
  BY <1>2, AgentEndTimed DEF TimedInv
<1>3. ASSUME NEW c \in cmds, AgentExtend(c) PROVE FALSE
  BY <1>3 DEF AgentExtend, Timed, CommandSound
<1>4. ASSUME NEW c \in cmds, AgentStart(c) PROVE TimedInv'
  <2>1. CASE /\ agent.sess = NoGrant /\ c.g \notin agent.ran \union agent.applied
             /\ agent' = [agent EXCEPT !.sess = c.g, !.ends = now + c.add, !.ran = @ \union {c.g}]
             /\ Emit("started", c.g, c.g, now + c.add)
             /\ Answer(c, "ok", ToldInReply(now + c.add))
    <3>1. c.g \in Grant /\ c.add \in Nat /\ now \in Nat
      BY DEF TypeOK, Command
    <3>2. PICK end2 : end2 = [end EXCEPT ![c.g] = now + c.add]
      OBVIOUS
    <3>3. end2 \in [Grant -> Nat] /\ end2[c.g] = now + c.add /\ \A g \in agent.ran : end2[g] = end[g]
      BY <2>1, <3>1, <3>2 DEF TypeOK, AgentState
    <3>4. Timed(end2)
      BY <3>3, Refit
    <3>5. Timed(end2)'
      BY <1>4, <2>1, <3>3, <3>4, FreshStartTimed DEF AgentStart
    <3> QED BY <3>3, <3>5 DEF TimedInv
  <2>2. CASE /\ agent.sess = c.g /\ UNCHANGED wire /\ UNCHANGED agent
             /\ Answer(c, "ok", ToldInReply(agent.ends))
    BY <1>4, <2>2, RepeatedStartTimed DEF AgentStart, TimedInv
  <2>3. CASE Refuse(c)
    BY <2>3, RefuseTimed DEF TimedInv
  <2> QED BY <1>4, <2>1, <2>2, <2>3 DEF AgentStart
<1> QED BY <1>1, <1>2, <1>3, <1>4 DEF AgentStep

-----------------------------------------------------------------------------
LEMMA InitTimed == Init => TimedInv
<1> SUFFICES ASSUME Init PROVE TimedInv
  OBVIOUS
<1> DEFINE end == [g \in Grant |-> 0]
<1>1. end \in [Grant -> Nat]
  OBVIOUS
<1> HIDE DEF end
<1>2. agent.sess = NoGrant /\ agent.ran = {} /\ cmds = {} /\ wire = {} /\ calls = 0
  BY DEF Init
<1>3. ASSUME NEW g \in Grant PROVE PlayedWithin(g, end) /\ RowKnows(g, end)
  BY <1>2 DEF Init, PlayedWithin, RowKnows, Back
<1>4. ASSUME NEW w \in Worker PROVE HandlerTold(w, end)
  <2>1. proc[w].call = 0 /\ reply[w].kind # "ok"
    BY DEF Init, Idle, NoReply
  <2> QED BY <1>2, <2>1 DEF HandlerTold
<1>5. SessionEnds(end) /\ (\A c \in cmds : CommandSound(c)) /\ \A e \in wire : EventSound(e, end)
  BY <1>2 DEF SessionEnds
<1> QED BY <1>1, <1>3, <1>4, <1>5 DEF Timed, TimedInv

LEMMA NextTimed ==
  /\ Reports = "deadline" /\ TypeOK /\ TypeOK' /\ CountInv /\ Unextended /\ Unextended'
  /\ TimedInv /\ [Next]_vars
  => TimedInv'
<1> SUFFICES ASSUME Reports = "deadline", TypeOK, TypeOK', CountInv, Unextended, Unextended',
                    [Next]_vars, NEW end \in [Grant -> Nat], Timed(end)
             PROVE  TimedInv'
  BY DEF TimedInv
<1>0. Handlers
  BY DEF CountInv
<1>1. ASSUME Timed(end)' PROVE TimedInv'
  BY <1>1 DEF TimedInv
<1>2. ASSUME NEW w \in Worker, HandlerStep(w) PROVE TimedInv'
  <2>1. ~ SendExtend(w) /\ ~ ExtendOk(w) /\ ~ ExtendError(w)
    BY <1>0, NoExtension DEF ExtendOk, ExtendError
  <2> QED BY <1>0, <1>1, <1>2, <2>1, HandlersTimed, StartOkTimed, EndOkTimed, SendStartTimed
          DEF HandlerStep
<1>3. ASSUME NEW w \in Worker, Crash(w) PROVE TimedInv'
  BY <1>0, <1>1, <1>3, HandlersTimed
<1>4. ASSUME NEW w \in Worker, NEW g \in Grant, Request(w, g) PROVE TimedInv'
  <2>1. ~ RedeemExtend(w, g)
    BY <1>0, NoExtension
  <2> QED BY <1>0, <1>1, <1>4, <2>1, RequestTimed DEF Request
<1>5. CASE SyncLoop
  <2>1. Sync \in Worker
    BY GrantAssumption
  <2>2. \A g \in Grant : ~ SyncExtend(g)
    BY <1>0, <2>1, NoExtension
  <2> QED BY <1>0, <1>1, <1>5, <2>2, SyncTimed DEF SyncLoop
<1>6. CASE Expire \/ ReconcileMissingRemainders
  BY <1>1, <1>6, ExpireTimed, NothingMissing
<1>7. CASE Heartbeat \/ AgentOffline \/ LoseCommand \/ UNCHANGED vars
  BY <1>1, <1>7, IdleTimed
<1>8. CASE Tick
  BY <1>1, <1>8, TickTimed
<1>9. CASE AgentStep
  BY <1>0, <1>9, AgentTimed
<1>10. CASE CoreEvent
  BY <1>1, <1>10, EventTimed
<1> QED BY <1>2, <1>3, <1>4, <1>5, <1>6, <1>7, <1>8, <1>9, <1>10 DEF Next

LEMMA TimedConserves == TypeOK /\ TimedInv => TimeConserved
<1> SUFFICES ASSUME TypeOK, NEW end \in [Grant -> Nat], Timed(end), NEW r \in Grant
             PROVE  Back(r) + played[r] <= Dur[r] + Sum(AppliedTo(r), Dur)
  BY DEF TimedInv, TimeConserved
<1>1. IsFiniteSet(AppliedTo(r)) /\ \A c \in AppliedTo(r) : Dur[c] \in Nat
  <2>1. AppliedTo(r) \subseteq Grant
    BY DEF AppliedTo, TypeOK, AgentState
  <2> QED BY <2>1, GrantAssumption, FS_Subset
<1>2. Sum(AppliedTo(r), Dur) \in Nat
  BY <1>1, SumGrows
<1>3. Back(r) \in Nat /\ played[r] \in Nat /\ Dur[r] \in Nat
  BY GrantAssumption DEF TypeOK, Back
<1>4. played[r] <= Dur[r]
  BY <1>3 DEF Timed, PlayedWithin
<1>5. Back(r) # 0 => Back(r) + played[r] <= Dur[r]
  BY DEF Timed, RowKnows, Back
<1> QED BY <1>2, <1>3, <1>4, <1>5

(* As long as no grant becomes the extension of another, and the Agent's    *)
(* answers carry the session's end, the time played and the time returned   *)
(* never exceed the time bought, for any number of grants, handlers,        *)
(* timeouts, crashes and lost commands, and in any order of answers and     *)
(* events.                                                                  *)
THEOREM ConservedTime ==
  ASSUME Reports = "deadline"
  PROVE  Spec /\ []Unextended => []TimeConserved
<1>1. Init => TimedInv
  BY InitTimed
<1>2. /\ TypeOK /\ TypeOK' /\ CountInv /\ Unextended /\ Unextended'
      /\ TimedInv /\ [Next]_vars
      => TimedInv'
  BY NextTimed
<1>3. TypeOK /\ TimedInv => TimeConserved
  BY TimedConserves
<1>4. Init => CountInv
  BY InitCountInv
<1>5. TypeOK /\ TypeOK' /\ CountInv /\ [Next]_vars => CountInv'
  BY NextCountInv
<1> QED BY <1>1, <1>2, <1>3, <1>4, <1>5, TypeCorrect, PTL DEF Spec

-----------------------------------------------------------------------------
(* With a single sale nothing can be extended.                              *)

OneSold == \A g, h \in Grant : status[g] # "none" /\ status[h] # "none" => g = h
MergesSold == \A w \in Worker : At(w, "merge") => status[proc[w].root] # "none"
SoldInv == OneSold /\ MergesSold /\ Unextended

(* A grant that was not bought is left alone.                               *)
Unsold == \A g \in Grant : status[g] = "none" => status'[g] = "none"
StaysMerging(w) ==
  proc'[w].at = "merge" => proc'[w].at = proc[w].at /\ proc'[w].root = proc[w].root

LEMMA UnsoldStays ==
  ASSUME TypeOK, SoldInv, Unsold, NoneStays, UNCHANGED parent,
         \A w \in Worker : StaysMerging(w)
  PROVE  SoldInv'
<1>1. OneSold'
  BY DEF SoldInv, OneSold, Unsold
<1>2. ASSUME NEW w \in Worker, At(w, "merge")' PROVE status'[proc'[w].root] # "none"
  <2>1. At(w, "merge") /\ proc'[w].root = proc[w].root
    BY <1>2 DEF At, StaysMerging
  <2>2. proc[w].root \in Grant
    BY <2>1, AtBusy, BusyFields DEF Step
  <2> QED BY <2>1, <2>2 DEF SoldInv, MergesSold, NoneStays
<1>3. Unextended'
  BY DEF SoldInv, Unextended
<1> QED BY <1>1, <1>2, <1>3 DEF SoldInv, MergesSold

LEMMA KeptMerging ==
  ASSUME NEW w \in Worker, Kept(w)
  PROVE  StaysMerging(w)
BY DEF Kept, StaysMerging, Idle

LEMMA NoneSold ==
  ASSUME MaxGrants = 1, MoreGrants, NEW g \in Grant
  PROVE  status[g] = "none"
<1> DEFINE S == {h \in Grant : status[h] # "none"}
<1>1. IsFiniteSet(S)
  BY GrantAssumption, FS_Subset
<1>2. Cardinality(S) < 1
  BY DEF MoreGrants
<1> HIDE DEF S
<1>3. Cardinality(S) = 0
  BY <1>1, <1>2, FS_CardinalityType
<1>4. S = {}
  BY <1>1, <1>3, FS_EmptySet
<1> QED BY <1>4 DEF S

(* finishGrant touches rows that were bought.                               *)
LEMMA FinishUnsold ==
  ASSUME NEW grant, NEW told, FinishGrant(grant, told)
  PROVE  Unsold /\ NoneStays /\ UNCHANGED parent
BY DEF FinishGrant, dbVars, Unsold, NoneStays

LEMMA HandlersSold ==
  ASSUME TypeOK, Handlers, Unextended, NEW end, Timed(end), NEW w \in Worker,
         HandlerStep(w) \/ Crash(w)
  PROVE  /\ Unsold /\ NoneStays /\ UNCHANGED parent
         /\ \A v \in Worker : StaysMerging(v)
<1> USE DEF dbVars, deadlines, settled, returns
<1>1. ~ At(w, "idle") /\ proc[w].g \in Grant /\ status[proc[w].g] # "none"
  <2>1. proc[w].at # "idle"
    BY DEF HandlerStep, SendStart, RefundPlayerBalance, StartOk, StartError, MarkApplying, SendExtend,
           NoSessionToExtend, ExtendOk, ExtendError, EndOk, EndError, Crash, At
  <2>2. proc[w] \in Busy
    BY <2>1 DEF TypeOK, Idle
  <2> QED BY <2>1, <2>2, BusyFields DEF Handlers, At
<1>2. ~ At(w, "extend")
  <2> SUFFICES ASSUME At(w, "extend") PROVE FALSE
    OBVIOUS
  <2>1. proc[w] \in Busy
    BY AtBusy DEF Step
  <2>2. parent[proc[w].g] = proc[w].root /\ proc[w].root # proc[w].g /\ proc[w].root \in Grant
    BY <2>1, BusyFields DEF Handlers, At, Claiming
  <2> QED BY <1>1, <2>2, GrantAssumption DEF Unextended
<1>3. Unsold /\ NoneStays /\ UNCHANGED parent
  <2>1. CASE EndOk(w)
    BY <2>1, FinishUnsold DEF EndOk
  <2>2. CASE ~ EndOk(w)
    <3>1. /\ UNCHANGED parent /\ status'[proc[w].g] # "none"
          /\ \A g \in Grant : g # proc[w].g => status'[g] = status[g]
      BY <1>1, <1>2, <2>2 DEF TypeOK, HandlerStep, SendStart, RefundPlayerBalance, StartOk,
         StartError, MarkApplying, SendExtend, NoSessionToExtend, ExtendOk, ExtendError, EndError, Crash
    <3> QED BY <1>1, <3>1 DEF Unsold, NoneStays
  <2> QED BY <2>1, <2>2
<1>4. \A v \in Worker : StaysMerging(v)
  <2>1. CASE Return(w)
    BY <2>1, ReturnKeeps, KeptMerging
  <2>2. CASE MarkApplying(w) /\ Goto(w, "read")
    <3>1. \A v \in Worker : proc'[v] = proc[v] \/ proc'[v].at = "read"
      <4>1. proc[w] \in Busy
        BY <1>1 DEF TypeOK, At, Idle
      <4> QED BY <2>2, <4>1 DEF Goto, TypeOK, Busy
    <3> QED BY <3>1 DEF StaysMerging
  <2>3. ASSUME NEW op, NEW step \in {"start", "extend"}, NEW k, NEW add,
               Dispatch(w, op, step, Keeping(proc[w], k), add)
        PROVE  \A v \in Worker : StaysMerging(v)
    <3>1. /\ proc'[w] = Sent(Keeping(proc[w], k), step, calls + 1)
          /\ \A v \in Worker \ {w} : Kept(v)
      BY <2>3, DispatchKeeps
    <3>2. Sent(Keeping(proc[w], k), step, calls + 1).at = step
      <4>1. proc[w] \in Busy
        BY <1>1 DEF TypeOK, At, Idle
      <4> QED BY <4>1 DEF Busy, Keeping, Sent
    <3>3. StaysMerging(w)
      BY <3>1, <3>2 DEF StaysMerging
    <3> QED BY <3>1, <3>3, KeptMerging
  <2>4. CASE SendStart(w)
    BY <2>3, <2>4 DEF SendStart, Keeping
  <2>5. CASE SendExtend(w)
    BY <2>3, <2>5 DEF SendExtend, Keeping
  <2> QED BY <2>1, <2>2, <2>4, <2>5 DEF HandlerStep, RefundPlayerBalance, StartOk, StartError,
        MarkApplying, NoSessionToExtend, ExtendOk, ExtendError, EndOk, EndError, Crash
<1> QED BY <1>3, <1>4

LEMMA RequestSold ==
  ASSUME TypeOK, MaxGrants = 1, SoldInv, NEW w \in Worker, NEW g \in Grant, Request(w, g)
  PROVE  SoldInv'
<1>1. CASE RedeemStart(w, g)
  <2>1. MoreGrants /\ status' = [status EXCEPT ![g] = "pending"] /\ UNCHANGED parent
    BY <1>1 DEF RedeemStart
  <2>2. \A h \in Grant : status[h] = "none"
    BY <2>1, NoneSold
  <2>3. OneSold'
    BY <2>1, <2>2 DEF OneSold, TypeOK
  <2>4. \A v \in Worker : ~ At(v, "merge")
    <3> SUFFICES ASSUME NEW v \in Worker, At(v, "merge") PROVE FALSE
      OBVIOUS
    <3>1. proc[v].root \in Grant
      BY AtBusy, BusyFields DEF Step
    <3> QED BY <2>2, <3>1 DEF SoldInv, MergesSold
  <2>5. \A v \in Worker : proc'[v] = proc[v] \/ proc'[v].at = "send"
    BY <1>1 DEF RedeemStart, TypeOK, Idle
  <2>6. MergesSold'
    BY <2>4, <2>5 DEF MergesSold, At
  <2> QED BY <2>1, <2>3, <2>6 DEF SoldInv, Unextended
<1>2. CASE RedeemExtend(w, g)
  <2>1. MoreGrants /\ \E root \in Grant : status[root] = "accepted"
    BY <1>2 DEF RedeemExtend, IsActiveGrantForPC, ActiveGrants
  <2> QED BY <2>1, NoneSold
<1>3. CASE AdminEnd(w, g) \/ KioskEnd(w, g)
  <2>1. CASE \E told : FinishGrant(g, told) /\ UNCHANGED apiVars
    <3>1. Unsold /\ NoneStays /\ UNCHANGED parent
      BY <2>1, FinishUnsold
    <3>2. \A v \in Worker : StaysMerging(v)
      BY <2>1 DEF apiVars, StaysMerging
    <3> QED BY <3>1, <3>2, UnsoldStays
  <2>2. ASSUME NEW step \in {"admin_end", "kiosk_end"}, NEW p, Dispatch(w, "end", step, p, 0),
               Sent(p, step, calls + 1).at = step, UNCHANGED <<status, parent>>
        PROVE  SoldInv'
    <3>1. proc'[w] = Sent(p, step, calls + 1) /\ \A v \in Worker \ {w} : Kept(v)
      BY <2>2, DispatchKeeps
    <3>2. StaysMerging(w)
      BY <2>2, <3>1 DEF StaysMerging
    <3>3. Unsold /\ NoneStays
      BY <2>2 DEF Unsold, NoneStays
    <3> QED BY <2>2, <3>1, <3>2, <3>3, KeptMerging, UnsoldStays
  <2>3. CASE AdminEnd(w, g) /\ core[g] = NoGrant
    BY <2>1, <2>3 DEF AdminEnd
  <2>4. CASE AdminEnd(w, g) /\ core[g] # NoGrant
    <3>1. PICK k : Dispatch(w, "end", "admin_end",
                            [Idle EXCEPT !.g = g, !.root = core[g], !.kept = k], 0)
      BY <2>4 DEF AdminEnd
    <3> DEFINE p == [Idle EXCEPT !.g = g, !.root = core[g], !.kept = k]
    <3>2. Sent(p, "admin_end", calls + 1).at = "admin_end"
      BY DEF Idle, Sent
    <3>3. Dispatch(w, "end", "admin_end", p, 0) /\ UNCHANGED <<status, parent>>
      BY <2>4, <3>1 DEF AdminEnd, dbVars
    <3> HIDE DEF p
    <3> QED BY <2>2, <3>2, <3>3
  <2>5. CASE KioskEnd(w, g)
    <3> DEFINE p == [Idle EXCEPT !.g = g, !.root = core[g]]
    <3>1. Sent(p, "kiosk_end", calls + 1).at = "kiosk_end"
      BY DEF Idle, Sent
    <3>2. Dispatch(w, "end", "kiosk_end", p, 0) /\ UNCHANGED <<status, parent>>
      BY <2>5 DEF KioskEnd, dbVars
    <3> HIDE DEF p
    <3> QED BY <2>2, <3>1, <3>2
  <2> QED BY <1>3, <2>3, <2>4, <2>5
<1> QED BY <1>1, <1>2, <1>3 DEF Request

(* The only session a sold grant can be merged into is its own.             *)
LEMMA SyncSold ==
  ASSUME TypeOK, Handlers, SoldInv, SyncLoop
  PROVE  SoldInv'
<1> USE DEF dbVars, deadlines, settled, returns
<1>0. Sync \in Worker
  BY GrantAssumption
<1>1. CASE SyncLookup
  <2>1. UNCHANGED <<status, parent>> /\ proc[Sync] \in Busy
    BY <1>0, <1>1, AtBusy DEF SyncLookup, Step
  <2>2. /\ \A v \in Worker \ {Sync} : proc'[v] = proc[v]
        /\ \/ proc'[Sync].at = "send"
           \/ \E root \in Grant : status[root] = "accepted" /\ proc'[Sync].root = root
    <3>1. CASE Goto(Sync, "send")
      BY <1>0, <2>1, <3>1 DEF Goto, TypeOK, Busy
    <3>2. ASSUME NEW root \in Grant, IsActiveGrantForPC(root),
                 proc' = [proc EXCEPT ![Sync].at = "merge", ![Sync].root = root]
          PROVE  /\ \A v \in Worker \ {Sync} : proc'[v] = proc[v]
                 /\ status[root] = "accepted" /\ proc'[Sync].root = root
      BY <1>0, <2>1, <3>2 DEF TypeOK, Busy, IsActiveGrantForPC, ActiveGrants
    <3> QED BY <1>1, <3>1, <3>2 DEF SyncLookup
  <2>3. MergesSold'
    BY <2>1, <2>2 DEF SoldInv, MergesSold, At
  <2> QED BY <2>1, <2>3 DEF SoldInv, OneSold, Unextended
<1>2. CASE SyncMerge
  <2> DEFINE g == proc[Sync].g
             root == proc[Sync].root
             q == [proc[Sync] EXCEPT !.at = "mark", !.merge = TRUE]
  <2>1. proc[Sync] \in Busy /\ proc[Sync].at = "merge" /\ g \in Grant /\ root \in Grant
    BY <1>0, <1>2, AtBusy, BusyFields DEF SyncMerge, Step, At
  <2>2. status[g] # "none" /\ parent[g] = NoGrant
    BY <1>0, <2>1 DEF Handlers, Starting
  <2>3. root = g
    BY <1>0, <2>1, <2>2 DEF SoldInv, OneSold, MergesSold, At
  <2>4. /\ status' = [status EXCEPT ![g] = "pending"] /\ parent' = [parent EXCEPT ![g] = g]
        /\ proc' = [proc EXCEPT ![Sync] = q]
    <3>1. IF parent[g] = NoGrant
          THEN /\ status' = [status EXCEPT ![g] = "pending"]
               /\ parent' = [parent EXCEPT ![g] = root]
               /\ proc' = [proc EXCEPT ![Sync] = q]
          ELSE UNCHANGED <<status, parent, core>> /\ Return(Sync)
      BY <1>0, <1>2 DEF SyncMerge, TypeOK
    <3> QED BY <2>2, <2>3, <3>1
  <2>5. q.at = "mark"
    BY <2>1 DEF Busy
  <2> HIDE DEF g, root, q
  <2>6. Unsold /\ NoneStays
    BY <2>1, <2>2, <2>4 DEF Unsold, NoneStays, TypeOK
  <2>7. Unextended'
    BY <2>1, <2>4 DEF SoldInv, Unextended, TypeOK
  <2>8. OneSold'
    BY <2>6 DEF SoldInv, OneSold, Unsold
  <2>9. MergesSold'
    <3> SUFFICES ASSUME NEW w \in Worker, At(w, "merge")' PROVE status'[proc'[w].root] # "none"
      BY DEF MergesSold
    <3>1. proc'[w] = proc[w]
      BY <1>0, <2>4, <2>5 DEF At, TypeOK
    <3>2. At(w, "merge") /\ proc[w].root \in Grant
      BY <3>1, AtBusy, BusyFields DEF At, Step
    <3> QED BY <2>6, <3>1, <3>2 DEF SoldInv, MergesSold, NoneStays
  <2> QED BY <2>7, <2>8, <2>9 DEF SoldInv
<1>3. ASSUME NEW g \in Grant, SyncPick(g) \/ SyncExtend(g) PROVE SoldInv'
  <2>1. UNCHANGED <<status, parent>> /\ \A v \in Worker : proc'[v] = proc[v] \/ proc'[v].at # "merge"
    <3>1. UNCHANGED <<status, parent>>
      BY <1>3 DEF SyncPick, SyncExtend
    <3>2. \E p : p.at # "merge" /\ proc' = [proc EXCEPT ![Sync] = p]
      <4>1. CASE SyncPick(g)
        <5>1. PICK p : /\ p = [Idle EXCEPT !.at = "picked", !.g = g, !.root = g]
                       /\ proc' = [proc EXCEPT ![Sync] = p]
          BY <4>1 DEF SyncPick
        <5>2. p.at = "picked"
          BY <5>1 DEF Idle
        <5> QED BY <5>1, <5>2
      <4>2. CASE SyncExtend(g)
        <5>1. PICK root \in Grant :
                proc' = [proc EXCEPT ![Sync] = [Idle EXCEPT !.at = "mark", !.g = g, !.root = root]]
          BY <4>2 DEF SyncExtend
        <5>2. PICK p : /\ p = [Idle EXCEPT !.at = "mark", !.g = g, !.root = root]
                       /\ proc' = [proc EXCEPT ![Sync] = p]
          BY <5>1
        <5>3. p.at = "mark"
          BY <5>2 DEF Idle
        <5> QED BY <5>2, <5>3
      <4> QED BY <1>3, <4>1, <4>2
    <3>3. \A v \in Worker : proc'[v] = proc[v] \/ proc'[v].at # "merge"
      BY <1>0, <3>2 DEF TypeOK
    <3> QED BY <3>1, <3>3
  <2>2. Unsold /\ NoneStays /\ UNCHANGED parent /\ \A v \in Worker : StaysMerging(v)
    BY <2>1 DEF Unsold, NoneStays, StaysMerging
  <2> QED BY <2>2, UnsoldStays
<1> QED BY <1>1, <1>2, <1>3 DEF SyncLoop

(* No other step sells anything: an event names a grant that was sold.      *)
LEMMA OthersSold ==
  ASSUME TypeOK, SoldInv, NEW end, Timed(end),
         \/ Expire \/ ReconcileMissingRemainders \/ AgentStep \/ CoreEvent
         \/ Heartbeat \/ AgentOffline \/ LoseCommand \/ Tick \/ UNCHANGED vars
  PROVE  SoldInv'
<1> USE DEF dbVars, apiVars, deadlines, settled, returns
<1>1. UNCHANGED proc /\ UNCHANGED parent /\ Unsold /\ NoneStays
  <2>1. CASE Expire
    BY <2>1 DEF Expire, Unsold, NoneStays
  <2>2. CASE ReconcileMissingRemainders \/ Heartbeat \/ AgentOffline \/ LoseCommand \/ Tick
             \/ UNCHANGED vars
    <3>1. UNCHANGED <<proc, parent, status>>
      <4>1. CASE ReconcileMissingRemainders \/ LoseCommand
        BY <4>1 DEF ReconcileMissingRemainders, LoseCommand
      <4>2. CASE Heartbeat \/ AgentOffline
        BY <4>2 DEF Heartbeat, AgentOffline
      <4>3. CASE Tick \/ UNCHANGED vars
        BY <4>3 DEF Tick, vars
      <4> QED BY <2>2, <4>1, <4>2, <4>3
    <3> QED BY <3>1 DEF Unsold, NoneStays
  <2>3. CASE AgentStep
    <3>1. CASE AgentStop
      BY <3>1 DEF AgentStop, Unsold, NoneStays
    <3>2. ASSUME NEW c \in cmds, AgentStart(c) \/ AgentExtend(c) \/ AgentEnd(c)
          PROVE  UNCHANGED <<proc, parent, status>>
      <4>1. CASE AgentStart(c)
        BY <4>1 DEF AgentStart, Refuse, Answer
      <4>2. CASE AgentExtend(c)
        BY <4>2 DEF AgentExtend, Refuse, Answer
      <4>3. CASE AgentEnd(c)
        BY <4>3 DEF AgentEnd, Refuse, Answer
      <4> QED BY <3>2, <4>1, <4>2, <4>3
    <3> QED BY <2>3, <3>1, <3>2 DEF AgentStep, Unsold, NoneStays
  <2>4. ASSUME NEW e \in wire, EventStarted(e)
        PROVE  UNCHANGED <<proc, parent>> /\ Unsold /\ NoneStays
    <3>1. status[e.g] # "none"
      BY <2>4 DEF EventStarted, Receive, Timed, EventSound
    <3> QED BY <2>4, <3>1 DEF EventStarted, Receive, Unsold, NoneStays, TypeOK
  <2>5. ASSUME NEW e \in wire, EventFailed(e)
        PROVE  UNCHANGED <<proc, parent>> /\ Unsold /\ NoneStays
    <3>1. e.root = NoGrant /\ status[e.g] # "none"
      BY <2>5 DEF EventFailed, Receive, Timed, EventSound
    <3> QED BY <2>5, <3>1 DEF EventFailed, Receive, RowsOf, Unsold, NoneStays
  <2>6. ASSUME NEW e \in wire, EventExtended(e)
        PROVE  UNCHANGED <<proc, parent>> /\ Unsold /\ NoneStays
    BY <2>6 DEF EventExtended, Receive, Unsold, NoneStays
  <2>7. ASSUME NEW e \in wire, EventEnded(e)
        PROVE  UNCHANGED <<proc, parent>> /\ Unsold /\ NoneStays
    <3>1. \E g, told : FinishGrant(g, told)
      BY <2>7 DEF EventEnded
    <3> QED BY <2>7, <3>1, FinishUnsold DEF EventEnded, Receive
  <2> QED BY <2>1, <2>2, <2>3, <2>4, <2>5, <2>6, <2>7 DEF CoreEvent
<1>2. \A v \in Worker : StaysMerging(v)
  BY <1>1 DEF StaysMerging
<1> QED BY <1>1, <1>2, UnsoldStays

LEMMA NextSold ==
  TypeOK /\ CountInv /\ TimedInv /\ MaxGrants = 1 /\ SoldInv /\ [Next]_vars => SoldInv'
<1> SUFFICES ASSUME TypeOK, CountInv, MaxGrants = 1, SoldInv, [Next]_vars,
                    NEW end \in [Grant -> Nat], Timed(end)
             PROVE  SoldInv'
  BY DEF TimedInv
<1>0. Handlers /\ Unextended
  BY DEF CountInv, SoldInv
<1>1. ASSUME NEW w \in Worker, HandlerStep(w) \/ Crash(w) PROVE SoldInv'
  BY <1>0, <1>1, HandlersSold, UnsoldStays
<1>2. ASSUME NEW w \in Worker, NEW g \in Grant, Request(w, g) PROVE SoldInv'
  BY <1>2, RequestSold
<1>3. CASE SyncLoop
  BY <1>0, <1>3, SyncSold
<1>4. CASE \/ Expire \/ ReconcileMissingRemainders \/ AgentStep \/ CoreEvent
           \/ Heartbeat \/ AgentOffline \/ LoseCommand \/ Tick \/ UNCHANGED vars
  BY <1>4, OthersSold
<1> QED BY <1>1, <1>2, <1>3, <1>4 DEF Next

(* What the run of a single grant checks on its instance: one sale, whatever *)
(* its length, the handlers, the faults and the order of messages, conserves *)
(* its time; not even the edge loop's merging makes an extension of it.      *)
THEOREM SingleConserved ==
  ASSUME Reports = "deadline", MaxGrants = 1
  PROVE  Spec => []TimeConserved
<1>1. Init => TimedInv /\ CountInv /\ SoldInv
  <2>1. Init => SoldInv
    BY DEF Init, SoldInv, OneSold, MergesSold, Unextended, At, Idle
  <2> QED BY <2>1, InitTimed, InitCountInv
<1>2. /\ TypeOK /\ TypeOK' /\ CountInv /\ SoldInv /\ TimedInv /\ [Next]_vars
      => CountInv' /\ SoldInv' /\ TimedInv'
  <2>1. SoldInv => Unextended
    BY DEF SoldInv
  <2>2. SoldInv' => Unextended'
    BY DEF SoldInv
  <2> QED BY <2>1, <2>2, NextCountInv, NextSold, NextTimed
<1>3. TypeOK /\ TimedInv => TimeConserved
  BY TimedConserves
<1> QED BY <1>1, <1>2, <1>3, TypeCorrect, PTL DEF Spec

-----------------------------------------------------------------------------
(* The duration on record is what the Agent was given.  It needs to be      *)
(* known which rows the Agent has run and which it has applied, and that    *)
(* every answer, command and event speaks of such a row.                    *)

(* What the Agent has run it never applies, and the other way round.        *)
AgentKnows ==
  /\ agent.ran \cap agent.applied = {}
  /\ agent.sess # NoGrant => agent.sess \in agent.ran
  /\ \A g \in agent.ran : status[g] # "none"

(* An accepted_at is the mark of a row the Agent has run or applied; one    *)
(* that was applied and recorded never waits again.  A child is ended as a  *)
(* session of its own or with its root.                                     *)
RowMatches(g) ==
  /\ accepted[g] # 0 => g \in agent.ran \union agent.applied
  /\ status[g] \in {"accepted", "extended"} => accepted[g] # 0
  /\ g \in agent.applied /\ accepted[g] # 0 =>
       parent[g] # NoGrant /\ status[g] \notin {"none", "pending", "applying"}
  /\ accepted[g] # 0 \/ core[g] # NoGrant => status[g] # "none"
  /\ parent[g] # NoGrant => status[g] # "none" /\ status[parent[g]] # "none"
  /\ status[g] = "ended" /\ accepted[g] = 0 =>
       parent[g] # NoGrant /\ ended[parent[g]] # 0

Durations ==
  \A r \in Grant : status[r] # "none" => dur[r] = Dur[r] + Sum(Recorded(r), Dur)

(* What an answer means for the handler that waits for it.                  *)
HandlerHeard(w) ==
  /\ proc[w].call <= calls
  /\ At(w, "start") /\ reply[w].kind = "ok" => proc[w].g \in agent.ran
  /\ At(w, "extend") /\ reply[w].kind = "ok" => proc[w].g \in agent.applied
  /\ At(w, "merge") => status[proc[w].root] # "none"

(* A command, and the handlers that wait for its answer.                    *)
CommandMatches(c) ==
  /\ 0 < c.id /\ c.id <= calls
  /\ status[c.g] # "none"
  /\ \A w \in Worker : proc[w].call = c.id =>
       /\ At(w, "start") => c.op = "start" /\ c.g = proc[w].g
       /\ At(w, "extend") => c.op = "extend" /\ c.g = proc[w].g

EventMatches(e) ==
  /\ status[e.g] # "none"
  /\ e.kind = "started" => e.g \in agent.ran

DurationInv ==
  /\ AgentKnows
  /\ \A g \in Grant : RowMatches(g)
  /\ Durations
  /\ \A w \in Worker : HandlerHeard(w)
  /\ \A c \in cmds : CommandMatches(c)
  /\ \A e \in wire : EventMatches(e)

-----------------------------------------------------------------------------
(* What most steps do to a row.                                             *)

RowStays(g) ==
  /\ parent'[g] = parent[g] /\ dur'[g] = dur[g]
  /\ ended[g] # 0 => ended'[g] # 0
  /\ core'[g] # NoGrant => core[g] # NoGrant \/ status[g] # "none"
  /\ \/ status'[g] = "accepted" /\ accepted'[g] # 0 /\ g \in agent.ran
     \/ /\ accepted'[g] = accepted[g]
        /\ \/ status'[g] = status[g]
           \/ status'[g] \in {"start_failed", "offline_failed"} /\ status[g] # "none"
           \/ status'[g] = "ended" /\ status[g] = "accepted"
           \/ status'[g] = "ended" /\ parent[g] # NoGrant /\ ended'[parent[g]] # 0
           \/ status[g] \in {"pending", "applying"} /\ status'[g] \in {"pending", "applying"}

(* The duration is unchanged where it is, and what it counts is.            *)
LEMMA DurationsStay ==
  ASSUME Durations,
         \A r \in Grant : status'[r] # "none" =>
           status[r] # "none" /\ dur'[r] = dur[r] /\ Recorded(r)' = Recorded(r)
  PROVE  Durations'
<1> SUFFICES ASSUME NEW r \in Grant, status'[r] # "none"
             PROVE  dur'[r] = Dur[r] + Sum(Recorded(r)', Dur)
  BY DEF Durations
<1> QED BY DEF Durations

LEMMA RowsStay ==
  ASSUME TypeOK, DurationInv, UNCHANGED agent, \A g \in Grant : RowStays(g)
  PROVE  NoneStays /\ (\A g \in Grant : RowMatches(g)') /\ Durations' /\ AgentKnows'
<1>1. \A g \in Grant : parent[g] # NoGrant => parent[g] \in Grant
  BY DEF TypeOK, OrNull
<1>2. \A g \in Grant : status'[g] = "none" <=> status[g] = "none"
  BY DEF RowStays, DurationInv, AgentKnows, RowMatches
<1>3. ASSUME NEW g \in Grant PROVE RowMatches(g)'
  <2>1. RowMatches(g) /\ RowStays(g) /\ (g \in agent.ran => g \notin agent.applied)
    BY DEF DurationInv, AgentKnows
  <2>2. /\ accepted'[g] # 0 => g \in agent.ran \union agent.applied
        /\ status'[g] \in {"accepted", "extended"} => accepted'[g] # 0
    BY <2>1 DEF RowMatches, RowStays
  <2>3. /\ g \in agent.applied /\ accepted'[g] # 0 =>
             parent'[g] # NoGrant /\ status'[g] \notin {"none", "pending", "applying"}
        /\ accepted'[g] # 0 \/ core'[g] # NoGrant => status'[g] # "none"
    BY <1>2, <2>1 DEF RowMatches, RowStays
  <2>4. parent'[g] # NoGrant => status'[g] # "none" /\ status'[parent'[g]] # "none"
    BY <1>1, <1>2, <2>1 DEF RowMatches, RowStays
  <2>5. ASSUME status'[g] = "ended", accepted'[g] = 0
        PROVE  parent'[g] # NoGrant /\ ended'[parent'[g]] # 0
    <3>1. CASE status[g] = "ended"
      <4>1. parent[g] # NoGrant /\ ended[parent[g]] # 0 /\ parent[g] \in Grant
        BY <1>1, <2>1, <2>5, <3>1 DEF RowMatches, RowStays
      <4>2. ended'[parent[g]] # 0
        BY <4>1 DEF RowStays
      <4> QED BY <2>1, <4>1, <4>2 DEF RowStays
    <3>2. CASE status[g] # "ended"
      BY <2>1, <2>5, <3>2 DEF RowMatches, RowStays
    <3> QED BY <3>1, <3>2
  <2> QED BY <2>2, <2>3, <2>4, <2>5 DEF RowMatches
<1>4. ASSUME NEW r \in Grant PROVE Recorded(r)' = Recorded(r) /\ dur'[r] = dur[r]
  <2>1. \A c \in agent.applied : c \in Grant /\ c \notin agent.ran
    BY DEF TypeOK, AgentState, DurationInv, AgentKnows
  <2>2. \A c \in agent.applied : parent'[c] = parent[c] /\ accepted'[c] = accepted[c]
    BY <2>1 DEF RowStays
  <2> QED BY <2>2 DEF Recorded, RowStays
<1>5. Durations'
  BY <1>2, <1>4, DurationsStay DEF DurationInv
<1>6. AgentKnows'
  <2>1. agent.ran \subseteq Grant
    BY DEF TypeOK, AgentState
  <2> QED BY <1>2, <2>1 DEF DurationInv, AgentKnows
<1> QED BY <1>2, <1>3, <1>5, <1>6 DEF NoneStays

(* A handler goes on as it was, or stops, or goes on without an answer.     *)
HandlerGoes(w) ==
  \/ Follows(w) /\ Kept(w)
  \/ /\ proc'[w].at \notin {"start", "extend"} /\ proc'[w].call \in {0, proc[w].call}
     /\ proc'[w].at = "merge" => status'[proc'[w].root] # "none"

LEMMA HandlersHear ==
  ASSUME TypeOK, TypeOK', DurationInv, NoneStays, calls' = calls \/ calls' = calls + 1,
         agent.ran \subseteq agent'.ran, agent.applied \subseteq agent'.applied,
         NEW w \in Worker, HandlerGoes(w)
  PROVE  HandlerHeard(w)'
<1>1. HandlerHeard(w) /\ calls \in Nat /\ proc[w] \in Busy \union {Idle}
  BY DEF DurationInv, TypeOK
<1>2. proc[w].call \in Nat
  BY <1>1, BusyFields DEF Idle
<1>3. CASE Follows(w) /\ Kept(w) /\ proc'[w].at # "idle"
  <2>1. /\ proc'[w].at = proc[w].at /\ proc'[w].g = proc[w].g /\ proc'[w].root = proc[w].root
        /\ proc'[w].call \in {0, proc[w].call}
    BY <1>3 DEF Follows, Kept, Idle
  <2>2. proc'[w].call <= calls'
    BY <1>1, <1>2, <2>1 DEF HandlerHeard
  <2>3. At(w, "merge") => status'[proc[w].root] # "none"
    <3>1. At(w, "merge") => proc[w].root \in Grant
      BY <1>1, BusyFields DEF At, Idle
    <3> QED BY <1>1, <3>1 DEF HandlerHeard, NoneStays
  <2>4. reply'[w].kind = "ok" => reply[w].kind = "ok"
    BY <1>3 DEF Follows
  <2> QED BY <1>1, <2>1, <2>2, <2>3, <2>4 DEF HandlerHeard, At
<1>4. CASE Follows(w) /\ proc'[w].at = "idle"
  <2>1. proc'[w].call <= calls'
    BY <1>1, <1>4 DEF Follows
  <2> QED BY <1>4, <2>1 DEF HandlerHeard, At
<1>5. CASE /\ proc'[w].at \notin {"start", "extend"} /\ proc'[w].call \in {0, proc[w].call}
           /\ proc'[w].at = "merge" => status'[proc'[w].root] # "none"
  <2>1. proc'[w].call <= calls'
    BY <1>1, <1>2, <1>5 DEF HandlerHeard
  <2> QED BY <1>5, <2>1 DEF HandlerHeard, At
<1> QED BY <1>3, <1>4, <1>5 DEF HandlerGoes

LEMMA CommandStays ==
  ASSUME TypeOK, TypeOK', NEW c \in cmds, CommandMatches(c), NoneStays,
         calls' = calls \/ calls' = calls + 1,
         \A w \in Worker : HandlerGoes(w) \/ proc'[w].call = calls + 1
  PROVE  CommandMatches(c)'
<1>1. c.id \in Nat /\ c.g \in Grant /\ calls \in Nat
  BY DEF TypeOK, Command
<1>2. 0 < c.id /\ c.id <= calls /\ c.id <= calls' /\ c.id # calls + 1 /\ c.id # 0
  BY <1>1 DEF CommandMatches
<1>3. status'[c.g] # "none"
  BY <1>1 DEF CommandMatches, NoneStays
<1>4. ASSUME NEW w \in Worker, proc'[w].call = c.id, At(w, "start")' \/ At(w, "extend")'
      PROVE  proc'[w].at = proc[w].at /\ proc'[w].g = proc[w].g /\ proc[w].call = c.id
  <2>1. HandlerGoes(w) /\ proc'[w].at \in {"start", "extend"}
    BY <1>2, <1>4 DEF At
  <2> QED BY <1>2, <1>4, <2>1 DEF HandlerGoes, Follows
<1>5. \A w \in Worker : proc'[w].call = c.id =>
        /\ At(w, "start")' => c.op = "start" /\ c.g = proc'[w].g
        /\ At(w, "extend")' => c.op = "extend" /\ c.g = proc'[w].g
  BY <1>4 DEF CommandMatches, At
<1> QED BY <1>2, <1>3, <1>5 DEF CommandMatches

LEMMA EventStays ==
  ASSUME TypeOK, NEW e \in wire, EventMatches(e), NoneStays, agent.ran \subseteq agent'.ran
  PROVE  EventMatches(e)'
<1>1. e.g \in Grant
  BY DEF TypeOK, Event
<1> QED BY <1>1 DEF EventMatches, NoneStays

(* The steps that send nothing, once their rows are seen to.                *)
LEMMA RowsSeenTo ==
  ASSUME TypeOK, TypeOK', DurationInv, UNCHANGED <<agent, calls>>, NoneStays,
         cmds' \subseteq cmds, wire' \subseteq wire, \A w \in Worker : HandlerGoes(w),
         \A g \in Grant : RowMatches(g)', Durations', AgentKnows'
  PROVE  DurationInv'
<1>1. \A w \in Worker : HandlerHeard(w)'
  BY HandlersHear
<1>2. \A c \in cmds' : CommandMatches(c)'
  BY CommandStays DEF DurationInv
<1>3. \A e \in wire' : EventMatches(e)'
  BY EventStays DEF DurationInv
<1> QED BY <1>1, <1>2, <1>3 DEF DurationInv

LEMMA NothingSent ==
  ASSUME TypeOK, TypeOK', DurationInv, UNCHANGED <<agent, calls>>,
         cmds' \subseteq cmds, wire' \subseteq wire,
         \A g \in Grant : RowStays(g), \A w \in Worker : HandlerGoes(w)
  PROVE  DurationInv'
<1>1. NoneStays /\ (\A g \in Grant : RowMatches(g)') /\ Durations' /\ AgentKnows'
  BY RowsStay
<1> QED BY <1>1, RowsSeenTo

LEMMA SameRows == ASSUME UNCHANGED dbVars PROVE \A g \in Grant : RowStays(g)
BY DEF RowStays, dbVars, deadlines, settled, returns

LEMMA SameHandlers == ASSUME TypeOK, UNCHANGED <<proc, reply>> PROVE \A w \in Worker : HandlerGoes(w)
BY ProcFollows DEF HandlerGoes, Kept

LEMMA ReturnGoes ==
  ASSUME TypeOK, NEW w \in Worker, Return(w), Take(w) \/ UNCHANGED reply
  PROVE  \A v \in Worker : HandlerGoes(v)
BY ReturnFollows, ReturnKeeps DEF HandlerGoes

(* A command is sent, by a handler whose grant was bought.                  *)
LEMMA DispatchMatches ==
  ASSUME TypeOK, TypeOK', DurationInv, UNCHANGED <<agent, wire, dbVars>>,
         NEW w \in Worker, NEW op, NEW step, NEW p, NEW add, Dispatch(w, op, step, p, add),
         p.g \in Grant, status[p.g] # "none",
         op = step \/ step \in {"admin_end", "kiosk_end"},
         NEW sent, sent = Sent(p, step, calls + 1), step # "merge",
         sent.at = step, sent.g = p.g, sent.call = calls + 1
  PROVE  DurationInv'
<1>0. PICK new : new = [id |-> calls + 1, op |-> op, g |-> p.g, root |-> p.root, add |-> add]
  OBVIOUS
<1>1. /\ proc'[w] = sent /\ reply'[w] = NoReply
      /\ \A v \in Worker \ {w} : Follows(v) /\ Kept(v)
  BY DispatchFollows, DispatchKeeps
<1>2. calls' = calls + 1 /\ cmds' = cmds \union {new} /\ calls \in Nat
  BY <1>0 DEF Dispatch, TypeOK
<1>3. NoneStays /\ (\A g \in Grant : RowMatches(g)') /\ Durations' /\ AgentKnows' /\ UNCHANGED status
  BY SameRows, RowsStay DEF dbVars
<1>4. HandlerHeard(w)'
  <2>1. proc'[w].call <= calls'
    BY <1>1, <1>2
  <2>2. reply'[w].kind # "ok" /\ ~ At(w, "merge")'
    BY <1>1 DEF NoReply, At
  <2> QED BY <2>1, <2>2 DEF HandlerHeard
<1>5. \A v \in Worker \ {w} : HandlerHeard(v)'
  <2>1. calls' = calls \/ calls' = calls + 1
    BY <1>2
  <2>2. agent.ran \subseteq agent'.ran /\ agent.applied \subseteq agent'.applied
    OBVIOUS
  <2> QED BY <1>1, <1>3, <2>1, <2>2, HandlersHear DEF HandlerGoes
<1>6. ASSUME NEW c \in cmds PROVE CommandMatches(c)'
  <2>1. \A v \in Worker : HandlerGoes(v) \/ proc'[v].call = calls + 1
    BY <1>1 DEF HandlerGoes
  <2> QED BY <1>2, <1>3, <2>1, CommandStays DEF DurationInv
<1>7. CommandMatches(new)'
  <2>1. new.id = calls + 1 /\ new.op = op /\ new.g = p.g
    BY <1>0
  <2>2. 0 < new.id /\ new.id <= calls'
    BY <1>2, <2>1
  <2>3. ASSUME NEW v \in Worker, proc'[v].call = new.id PROVE v = w
    <3> SUFFICES ASSUME v # w PROVE FALSE
      OBVIOUS
    <3>1. proc'[v].call = calls + 1 /\ proc'[v].call # 0
      BY <1>2, <2>1, <2>3
    <3>2. Follows(v)
      BY <1>1
    <3>3. proc'[v].call = proc[v].call
      BY <3>1, <3>2 DEF Follows
    <3>4. proc[v].call <= calls
      BY DEF DurationInv, HandlerHeard
    <3> QED BY <1>2, <3>1, <3>3, <3>4
  <2>4. /\ At(w, "start")' => new.op = "start" /\ new.g = proc'[w].g
        /\ At(w, "extend")' => new.op = "extend" /\ new.g = proc'[w].g
    BY <1>1, <2>1 DEF At
  <2>5. status'[new.g] # "none"
    BY <1>3, <2>1
  <2>6. \A v \in Worker : proc'[v].call = new.id =>
          /\ At(v, "start")' => new.op = "start" /\ new.g = proc'[v].g
          /\ At(v, "extend")' => new.op = "extend" /\ new.g = proc'[v].g
    BY <2>3, <2>4
  <2> QED BY <2>2, <2>5, <2>6 DEF CommandMatches
<1>8. \A c \in cmds' : CommandMatches(c)'
  BY <1>2, <1>6, <1>7
<1>9. \A e \in wire' : EventMatches(e)'
  BY <1>3, EventStays DEF DurationInv
<1> QED BY <1>3, <1>4, <1>5, <1>8, <1>9 DEF DurationInv

-----------------------------------------------------------------------------
(* The handlers' steps.                                                     *)

(* finishGrant ends a session, and its children with it.                    *)
LEMMA FinishStays ==
  ASSUME TypeOK, Clocked, NEW grant \in Grant, NEW told, FinishGrant(grant, told)
  PROVE  \A x \in Grant : RowStays(x)
<1> DEFINE g == IF parent[grant] = NoGrant THEN grant ELSE parent[grant]
           children == {c \in Grant : /\ parent[c] = g
                                      /\ status[c] \in {"pending", "extended"}}
<1>1. CASE status[g] # "accepted"
  BY <1>1, SameRows DEF FinishGrant
<1>2. CASE status[g] = "accepted"
  <2>1. /\ status' = [x \in Grant |->
                        IF x = g \/ x \in children THEN "ended" ELSE status[x]]
        /\ ended' = [x \in Grant |->
                       IF x = g \/ x \in children THEN now ELSE ended[x]]
        /\ UNCHANGED <<parent, core, dur, accepted>>
    BY <1>2 DEF FinishGrant, deadlines
  <2>2. now # 0 /\ g \in Grant /\ g # NoGrant
    BY GrantAssumption DEF Clocked, TypeOK, OrNull
  <2>3. \A x \in children : parent[x] = g
    OBVIOUS
  <2> HIDE DEF g, children
  <2>4. ended'[g] # 0 /\ \A x \in Grant : ended[x] # 0 => ended'[x] # 0
    BY <2>1, <2>2
  <2> QED BY <1>2, <2>1, <2>2, <2>3, <2>4 DEF RowStays
<1> QED BY <1>1, <1>2

LEMMA StartStays ==
  ASSUME TypeOK, DurationInv, Clocked, Handlers, NEW w \in Worker,
         RefundPlayerBalance(w) \/ StartOk(w) \/ StartError(w)
  PROVE  \A x \in Grant : RowStays(x)
<1> DEFINE g == proc[w].g
<1> USE DEF deadlines, settled, returns
<1>1. proc[w].at \in {"send", "start"} /\ g \in Grant /\ status[g] # "none"
  BY AtBusy, BusyFields DEF RefundPlayerBalance, StartOk, StartError, Step, At, Handlers
<1>2. CASE RefundPlayerBalance(w)
  <2>1. /\ UNCHANGED <<parent, core, dur, accepted, ended>>
        /\ status' = status \/ status' = [status EXCEPT ![g] = "start_failed"]
    BY <1>2 DEF RefundPlayerBalance
  <2> QED BY <1>1, <2>1 DEF RowStays, TypeOK
<1>3. CASE StartOk(w)
  <2>1. g \in agent.ran
    BY <1>3 DEF StartOk, HasReply, DurationInv, HandlerHeard
  <2>2. now # 0
    BY DEF Clocked
  <2>3. /\ status' = [status EXCEPT ![g] = "accepted"] /\ core' = [core EXCEPT ![g] = g]
        /\ accepted' = [accepted EXCEPT ![g] = now] /\ UNCHANGED <<parent, dur, ended>>
    BY <1>3 DEF StartOk
  <2> QED BY <1>1, <2>1, <2>2, <2>3 DEF RowStays, TypeOK
<1>4. CASE StartError(w)
  <2>1. /\ UNCHANGED <<parent, core, dur, accepted, ended>>
        /\ \/ status' = status
           \/ \E f \in {"start_failed", "offline_failed"} :
                status' = [status EXCEPT ![g] = f]
    BY <1>4 DEF StartError
  <2> QED BY <1>1, <2>1 DEF RowStays, TypeOK
<1> QED BY <1>2, <1>3, <1>4

(* The handler's steps that leave every parent alone and give nobody time.  *)
LEMMA PlainSteps ==
  ASSUME TypeOK, TypeOK', DurationInv, Clocked, Handlers, NEW w \in Worker,
         \/ RefundPlayerBalance(w) \/ StartOk(w) \/ StartError(w) \/ Crash(w)
         \/ NoSessionToExtend(w) \/ EndOk(w) \/ EndError(w)
  PROVE  DurationInv'
<1>1. Return(w) /\ (Take(w) \/ UNCHANGED reply) /\ UNCHANGED <<agent, calls, cmds, wire>>
  BY DEF RefundPlayerBalance, StartOk, StartError, Crash, NoSessionToExtend, EndOk, EndError,
         netVars
<1>2. \A v \in Worker : HandlerGoes(v)
  BY <1>1, ReturnGoes
<1>3. \A x \in Grant : RowStays(x)
  <2>1. CASE RefundPlayerBalance(w) \/ StartOk(w) \/ StartError(w)
    BY <2>1, StartStays
  <2>2. CASE Crash(w) \/ NoSessionToExtend(w) \/ EndError(w)
    BY <2>2, SameRows DEF Crash, NoSessionToExtend, EndError
  <2>3. CASE EndOk(w)
    <3>1. proc[w].g \in Grant
      BY <2>3, AtBusy, BusyFields DEF EndOk, Step
    <3> QED BY <2>3, <3>1, FinishStays DEF EndOk
  <2> QED BY <2>1, <2>2, <2>3
<1> QED BY <1>1, <1>2, <1>3, NothingSent

LEMMA ClaimMatches ==
  ASSUME TypeOK, TypeOK', DurationInv, NEW w \in Worker, MarkApplying(w)
  PROVE  DurationInv'
<1> USE DEF deadlines, settled, returns
<1>1. proc[w] \in Busy /\ proc[w].g \in Grant
  BY AtBusy, BusyFields DEF MarkApplying, Step
<1>2. /\ UNCHANGED <<parent, core, dur, accepted, ended, reply, agent, calls, cmds, wire>>
      /\ status' = IF status[proc[w].g] = "pending"
                   THEN [status EXCEPT ![proc[w].g] = "applying"] ELSE status
      /\ Goto(w, "read") \/ Return(w)
  BY DEF MarkApplying, netVars
<1>3. \A x \in Grant : RowStays(x)
  BY <1>1, <1>2 DEF RowStays, TypeOK
<1>4. CASE Return(w)
  BY <1>2, <1>3, <1>4, ReturnGoes, NothingSent
<1>5. CASE Goto(w, "read")
  <2> DEFINE p == AtStep(proc[w], "read")
  <2>1. proc' = [proc EXCEPT ![w] = p]
    BY <1>5 DEF Goto, AtStep, TypeOK
  <2>2. p.at = "read" /\ p.call = proc[w].call
    BY <1>1 DEF Busy, AtStep
  <2> HIDE DEF p
  <2>3. \A v \in Worker \ {w} : Follows(v) /\ Kept(v)
    BY <1>2, <2>1, OthersFollow DEF Kept, TypeOK
  <2>4. proc'[w] = p
    BY <2>1 DEF TypeOK
  <2>5. \A v \in Worker : HandlerGoes(v)
    BY <2>2, <2>3, <2>4 DEF HandlerGoes
  <2> QED BY <1>2, <1>3, <2>5, NothingSent
<1> QED BY <1>2, <1>4, <1>5

LEMMA SendMatches ==
  ASSUME TypeOK, TypeOK', DurationInv, Handlers, NEW w \in Worker,
         \/ SendStart(w) \/ SendExtend(w)
         \/ \E g \in Grant : KioskEnd(w, g) \/ (AdminEnd(w, g) /\ core[g] # NoGrant)
  PROVE  DurationInv'
<1>0. UNCHANGED <<agent, wire, dbVars>>
  BY DEF SendStart, SendExtend, KioskEnd, AdminEnd
<1>1. CASE SendStart(w)
  <2> DEFINE q == Keeping(proc[w], now + Dur[proc[w].g])
             p == Sent(q, "start", calls + 1)
  <2>1. Dispatch(w, "start", "start", q, dur[proc[w].g])
    BY <1>1 DEF SendStart, Keeping
  <2>2. proc[w] \in Busy /\ proc[w].at = "send"
    BY <1>1, AtBusy DEF SendStart, Step, At
  <2>3. p.at = "start" /\ p.g = q.g /\ p.call = calls + 1 /\ q.g = proc[w].g
    BY <2>2 DEF Busy, Keeping, Sent
  <2>4. q.g \in Grant /\ status[q.g] # "none"
    BY <2>2, <2>3, BusyFields DEF Handlers
  <2>5. p = Sent(q, "start", calls + 1)
    OBVIOUS
  <2> HIDE DEF p, q
  <2> QED BY <1>0, <2>1, <2>3, <2>4, <2>5, DispatchMatches
<1>2. CASE SendExtend(w)
  <2> DEFINE q == Keeping(proc[w], Larger(Deadline(proc[w].root), now) + Dur[proc[w].g])
             p == Sent(q, "extend", calls + 1)
  <2>1. Dispatch(w, "extend", "extend", q, Dur[proc[w].g])
    BY <1>2 DEF SendExtend, Keeping
  <2>2. proc[w] \in Busy /\ proc[w].at = "read"
    BY <1>2, AtBusy DEF SendExtend, Step, At
  <2>3. p.at = "extend" /\ p.g = q.g /\ p.call = calls + 1 /\ q.g = proc[w].g
    BY <2>2 DEF Busy, Keeping, Sent
  <2>4. q.g \in Grant /\ status[q.g] # "none"
    BY <2>2, <2>3, BusyFields DEF Handlers
  <2>5. p = Sent(q, "extend", calls + 1)
    OBVIOUS
  <2> HIDE DEF p, q
  <2> QED BY <1>0, <2>1, <2>3, <2>4, <2>5, DispatchMatches
<1>3. ASSUME NEW g \in Grant, KioskEnd(w, g) PROVE DurationInv'
  <2> DEFINE q == [Idle EXCEPT !.g = g, !.root = core[g]]
             p == Sent(q, "kiosk_end", calls + 1)
  <2>1. Dispatch(w, "end", "kiosk_end", q, 0) /\ status[g] # "none"
    BY <1>3 DEF KioskEnd
  <2>2. p.at = "kiosk_end" /\ p.g = q.g /\ p.call = calls + 1 /\ q.g = g
    BY DEF Idle, Sent
  <2>3. p = Sent(q, "kiosk_end", calls + 1)
    OBVIOUS
  <2> HIDE DEF p, q
  <2> QED BY <1>0, <2>1, <2>2, <2>3, DispatchMatches
<1>4. ASSUME NEW g \in Grant, AdminEnd(w, g), core[g] # NoGrant PROVE DurationInv'
  <2>1. PICK k : Dispatch(w, "end", "admin_end",
                          [Idle EXCEPT !.g = g, !.root = core[g], !.kept = k], 0)
    BY <1>4 DEF AdminEnd
  <2> DEFINE q == [Idle EXCEPT !.g = g, !.root = core[g], !.kept = k]
             p == Sent(q, "admin_end", calls + 1)
  <2>2. Dispatch(w, "end", "admin_end", q, 0) /\ status[g] # "none"
    BY <1>4, <2>1 DEF AdminEnd
  <2>3. p.at = "admin_end" /\ p.g = q.g /\ p.call = calls + 1 /\ q.g = g
    BY DEF Idle, Sent
  <2>4. p = Sent(q, "admin_end", calls + 1)
    OBVIOUS
  <2> HIDE DEF p, q
  <2> QED BY <1>0, <2>2, <2>3, <2>4, DispatchMatches
<1> QED BY <1>1, <1>2, <1>3, <1>4

(* The row of one grant changes, and it has no part in any duration: it was *)
(* not applied, or has no accepted_at.                                      *)
LEMMA OneRowMoves ==
  ASSUME TypeOK, TypeOK', DurationInv, UNCHANGED <<agent, accepted, ended>>, NEW g \in Grant,
         status' = [status EXCEPT ![g] = "pending"] \/ (UNCHANGED status /\ status[g] = "pending"),
         \A x \in Grant : x # g => parent'[x] = parent[x] /\ core'[x] = core[x],
         parent'[g] # NoGrant => status'[parent'[g]] # "none",
         accepted[g] # 0 => g \notin agent.applied,
         \/ UNCHANGED dur /\ status[g] # "none"
         \/ dur' = [dur EXCEPT ![g] = Dur[g]] /\ status[g] = "none"
  PROVE  NoneStays /\ (\A x \in Grant : RowMatches(x)') /\ Durations' /\ AgentKnows'
<1>1. \A x \in Grant : (x # g => status'[x] = status[x]) /\ (x = g => status'[x] = "pending")
  BY DEF TypeOK
<1>2. \A x \in Grant : parent[x] # NoGrant => parent[x] \in Grant
  BY DEF TypeOK, OrNull
<1>3. \A x \in Grant : RowMatches(x)
  BY DEF DurationInv
<1>4. \A x \in Grant : RowMatches(x)'
  BY <1>1, <1>2, <1>3 DEF RowMatches
<1>5. NoneStays
  BY <1>1 DEF NoneStays
<1>6. \A c \in agent.applied : c \in Grant
  BY DEF TypeOK, AgentState
<1>7. \A r \in Grant : Recorded(r)' = Recorded(r)
  BY <1>6 DEF Recorded
<1>8. Durations'
  <2>1. CASE UNCHANGED dur /\ status[g] # "none"
    BY <1>1, <1>7, <2>1, DurationsStay DEF DurationInv
  <2>2. CASE dur' = [dur EXCEPT ![g] = Dur[g]] /\ status[g] = "none"
    <3>1. Recorded(g) = {}
      BY <1>3, <1>6, <2>2, GrantAssumption DEF Recorded, RowMatches
    <3>2. Sum({}, Dur) = 0 /\ Dur[g] \in Nat
      BY SumEmpty, GrantAssumption
    <3>3. dur'[g] = Dur[g] + Sum(Recorded(g)', Dur)
      <4>1. Recorded(g)' = {}
        BY <1>7, <3>1
      <4>2. dur'[g] = Dur[g]
        BY <2>2 DEF TypeOK
      <4>3. dur'[g] = Dur[g] + Sum({}, Dur)
        BY <3>2, <4>2
      <4> QED BY <4>1, <4>3
    <3>4. \A r \in Grant : r # g => dur'[r] = dur[r] /\ status'[r] = status[r]
      BY <1>1, <2>2 DEF TypeOK
    <3>5. ASSUME NEW r \in Grant, r # g, status'[r] # "none"
          PROVE  dur'[r] = Dur[r] + Sum(Recorded(r)', Dur)
      <4>1. dur[r] = Dur[r] + Sum(Recorded(r), Dur)
        BY <3>4, <3>5 DEF DurationInv, Durations
      <4> QED BY <1>7, <3>4, <3>5, <4>1
    <3> QED BY <3>3, <3>5 DEF Durations
  <2> QED BY <2>1, <2>2
<1>9. AgentKnows'
  BY <1>1 DEF DurationInv, AgentKnows, TypeOK, AgentState
<1> QED BY <1>4, <1>5, <1>8, <1>9

-----------------------------------------------------------------------------
(* Rows that are sold, merged, put back and extended.                       *)

(* A handler that goes to a step where it waits for no start or extension.  *)
LEMMA MovesOn ==
  ASSUME TypeOK, NEW w \in Worker, NEW p, proc' = [proc EXCEPT ![w] = p], UNCHANGED reply,
         p.at \notin {"start", "extend"}, p.call \in {0, proc[w].call},
         p.at = "merge" => status'[p.root] # "none"
  PROVE  \A v \in Worker : HandlerGoes(v)
<1>1. proc'[w] = p /\ \A v \in Worker \ {w} : Follows(v)
  BY OthersFollow
<1>2. \A v \in Worker \ {w} : Kept(v)
  BY DEF Kept, TypeOK
<1> QED BY <1>1, <1>2 DEF HandlerGoes

LEMMA RedeemMatches ==
  ASSUME TypeOK, TypeOK', DurationInv, NEW w \in Worker, NEW g \in Grant,
         RedeemStart(w, g) \/ RedeemExtend(w, g)
  PROVE  DurationInv'
<1> USE DEF deadlines, settled, returns, netVars
<1>1. /\ status[g] = "none" /\ status' = [status EXCEPT ![g] = "pending"]
      /\ dur' = [dur EXCEPT ![g] = Dur[g]]
      /\ UNCHANGED <<accepted, ended, reply, agent, calls, cmds, wire>>
  BY DEF RedeemStart, RedeemExtend
<1>2. accepted[g] = 0 /\ parent[g] = NoGrant
  BY <1>1 DEF DurationInv, RowMatches
<1>3. /\ \A x \in Grant : x # g => parent'[x] = parent[x] /\ core'[x] = core[x]
      /\ parent'[g] # NoGrant => status'[parent'[g]] # "none"
      /\ \A v \in Worker : HandlerGoes(v)
  <2>1. CASE RedeemStart(w, g)
    <3> DEFINE q == [Idle EXCEPT !.at = "send", !.g = g, !.root = g]
    <3>1. q.at = "send" /\ q.call = 0
      BY DEF Idle
    <3>2. proc' = [proc EXCEPT ![w] = q] /\ UNCHANGED <<parent, core>>
      BY <2>1 DEF RedeemStart
    <3> HIDE DEF q
    <3>3. \A v \in Worker : HandlerGoes(v)
      BY <1>1, <3>1, <3>2, MovesOn
    <3> QED BY <1>2, <3>2, <3>3
  <2>2. CASE RedeemExtend(w, g)
    <3>1. PICK root \in Grant :
            /\ status[root] = "accepted" /\ parent' = [parent EXCEPT ![g] = root]
            /\ core' = [core EXCEPT ![g] = core[root]]
            /\ proc' = [proc EXCEPT ![w] = [Idle EXCEPT !.at = "mark", !.g = g, !.root = root]]
      BY <2>2 DEF RedeemExtend, IsActiveGrantForPC, ActiveGrants
    <3> DEFINE q == [Idle EXCEPT !.at = "mark", !.g = g, !.root = root]
    <3>2. q.at = "mark" /\ q.call = 0
      BY DEF Idle
    <3>3. proc' = [proc EXCEPT ![w] = q]
      BY <3>1
    <3> HIDE DEF q
    <3>4. \A v \in Worker : HandlerGoes(v)
      BY <1>1, <3>2, <3>3, MovesOn
    <3>5. parent'[g] = root /\ status'[root] # "none"
      BY <1>1, <3>1 DEF TypeOK
    <3>6. \A x \in Grant : x # g => parent'[x] = parent[x] /\ core'[x] = core[x]
      BY <3>1 DEF TypeOK
    <3> QED BY <3>4, <3>5, <3>6
  <2> QED BY <2>1, <2>2
<1>4. NoneStays /\ (\A x \in Grant : RowMatches(x)') /\ Durations' /\ AgentKnows'
  <2>1. accepted[g] # 0 => g \notin agent.applied
    BY <1>2
  <2> QED BY <1>1, <1>3, <2>1, OneRowMoves
<1> QED BY <1>1, <1>3, <1>4, RowsSeenTo

LEMMA MergeMatches ==
  ASSUME TypeOK, TypeOK', DurationInv, Handlers, SyncMerge
  PROVE  DurationInv'
<1> USE DEF deadlines, settled, returns, netVars
<1>0. PICK g, root : g = proc[Sync].g /\ root = proc[Sync].root
  OBVIOUS
<1>1. /\ Sync \in Worker /\ proc[Sync] \in Busy /\ proc[Sync].at = "merge"
      /\ g \in Grant /\ root \in Grant
  BY <1>0, AtBusy, BusyFields, GrantAssumption DEF SyncMerge, Step, At
<1>2. status[g] # "none" /\ parent[g] = NoGrant /\ status[root] # "none"
  BY <1>0, <1>1 DEF Handlers, Starting, DurationInv, HandlerHeard, At
<1>3. /\ status' = [status EXCEPT ![g] = "pending"] /\ parent' = [parent EXCEPT ![g] = root]
      /\ core' = [core EXCEPT ![g] = core[root]]
      /\ UNCHANGED <<dur, accepted, ended, reply, agent, calls, cmds, wire>>
  BY <1>0, <1>2 DEF SyncMerge
<1>4. \A v \in Worker : HandlerGoes(v)
  <2> DEFINE q == [proc[Sync] EXCEPT !.at = "mark", !.merge = TRUE]
  <2>1. q.at = "mark" /\ q.call = proc[Sync].call
    BY <1>1 DEF Busy
  <2>2. proc' = [proc EXCEPT ![Sync] = q]
    BY <1>0, <1>1, <1>2 DEF SyncMerge, TypeOK
  <2> HIDE DEF q
  <2> QED BY <1>1, <1>3, <2>1, <2>2, MovesOn
<1>5. accepted[g] # 0 => g \notin agent.applied
  BY <1>1, <1>2 DEF DurationInv, RowMatches
<1>6. \A x \in Grant : x # g => parent'[x] = parent[x] /\ core'[x] = core[x]
  BY <1>3 DEF TypeOK
<1>7. parent'[g] # NoGrant => status'[parent'[g]] # "none"
  BY <1>1, <1>2, <1>3 DEF TypeOK
<1>8. NoneStays /\ (\A x \in Grant : RowMatches(x)') /\ Durations' /\ AgentKnows'
  BY <1>1, <1>2, <1>3, <1>5, <1>6, <1>7, OneRowMoves
<1> QED BY <1>3, <1>4, <1>8, RowsSeenTo

(* An extension that was not applied goes back to the queue, and may leave  *)
(* its root.                                                                *)
LEMMA NotAppliedMatches ==
  ASSUME TypeOK, TypeOK', DurationInv, NEW w \in Worker,
         ExtendError(w) \/ (ExtendOk(w) /\ status[proc[w].g] # "applying")
  PROVE  DurationInv'
<1> USE DEF deadlines, settled, returns, netVars
<1>0. PICK g : g = proc[w].g
  OBVIOUS
<1>1. g \in Grant
  BY <1>0, AtBusy, BusyFields DEF ExtendError, ExtendOk, Step, At
<1>2. Return(w) /\ Take(w) /\ UNCHANGED <<dur, accepted, ended, agent, calls, cmds, wire>>
  BY DEF ExtendError, ExtendOk
<1>3. \A v \in Worker : HandlerGoes(v)
  BY <1>2, ReturnGoes
<1>4. /\ UNCHANGED status \/ (status[g] = "applying" /\ status' = [status EXCEPT ![g] = "pending"])
      /\ UNCHANGED <<parent, core>> \/ Unmerge(w, status')
  <2>1. CASE ExtendError(w)
    <3> DEFINE st == IF status[g] = "applying" THEN [status EXCEPT ![g] = "pending"] ELSE status
    <3>1. status' = st /\ Unmerge(w, st)
      BY <1>0, <2>1 DEF ExtendError
    <3>2. Unmerge(w, status')
      BY <3>1
    <3> QED BY <3>1, <3>2
  <2>2. CASE ExtendOk(w) /\ status[g] # "applying"
    <3>1. UNCHANGED status /\ (UNCHANGED <<parent, core>> \/ Unmerge(w, status))
      BY <1>0, <2>2 DEF ExtendOk
    <3>2. UNCHANGED <<parent, core>> \/ Unmerge(w, status')
      BY <3>1
    <3> QED BY <3>1, <3>2
  <2> QED BY <1>0, <2>1, <2>2
<1>5. CASE UNCHANGED <<parent, core>>
  <2>1. \A x \in Grant : RowStays(x)
    BY <1>1, <1>2, <1>4, <1>5 DEF RowStays, TypeOK
  <2> QED BY <1>2, <1>3, <2>1, NothingSent
<1>6. CASE ~ UNCHANGED <<parent, core>>
  <2>1. /\ status'[g] = "pending" /\ parent' = [parent EXCEPT ![g] = NoGrant]
        /\ core' = [core EXCEPT ![g] = NoGrant]
    BY <1>0, <1>4, <1>6 DEF Unmerge
  <2>2. \/ status[g] = "applying" /\ status' = [status EXCEPT ![g] = "pending"]
        \/ UNCHANGED status /\ status[g] = "pending"
    BY <1>4, <2>1
  <2>3. status[g] # "none" /\ (accepted[g] # 0 => g \notin agent.applied)
    BY <1>1, <2>2 DEF DurationInv, RowMatches
  <2>4. parent'[g] = NoGrant /\ \A x \in Grant : x # g => parent'[x] = parent[x] /\ core'[x] = core[x]
    BY <2>1 DEF TypeOK
  <2>5. NoneStays /\ (\A x \in Grant : RowMatches(x)') /\ Durations' /\ AgentKnows'
    BY <1>1, <1>2, <2>2, <2>3, <2>4, OneRowMoves
  <2> QED BY <1>2, <1>3, <2>5, RowsSeenTo
<1> QED BY <1>5, <1>6

(* The Agent applied the extension: it joins what the root has recorded,    *)
(* where it was not, since it was "applying".                               *)
LEMMA AppliedMatches ==
  ASSUME TypeOK, TypeOK', DurationInv, Clocked, Handlers, NEW w \in Worker,
         ExtendOk(w), status[proc[w].g] = "applying"
  PROVE  DurationInv'
<1> USE DEF deadlines, settled, returns, netVars
<1>0. PICK g, root : g = proc[w].g /\ root = proc[w].root
  OBVIOUS
<1>1. proc[w].at = "extend" /\ g \in Grant /\ root \in Grant
  BY <1>0, AtBusy, BusyFields DEF ExtendOk, Step, At
<1>2. /\ dur' = [dur EXCEPT ![root] = @ + Dur[g]] /\ accepted' = [accepted EXCEPT ![g] = now]
      /\ status' = [status EXCEPT ![g] = "extended"] /\ Return(w) /\ Take(w)
      /\ status[g] = "applying" /\ UNCHANGED <<parent, ended, agent, calls, cmds, wire>>
      /\ core' = [core EXCEPT ![g] = root]
  BY <1>0 DEF ExtendOk
<1>3. /\ parent[g] = root /\ root # NoGrant /\ now # 0 /\ g \in agent.applied
  BY <1>0, <1>1, GrantAssumption
  DEF Handlers, Claiming, Clocked, DurationInv, HandlerHeard, ExtendOk, HasReply
<1>4. /\ \A c \in Grant : c # g => /\ status'[c] = status[c] /\ accepted'[c] = accepted[c]
                                   /\ core'[c] = core[c]
      /\ status'[g] = "extended" /\ accepted'[g] = now
      /\ \A r \in Grant : r # root => dur'[r] = dur[r]
      /\ dur'[root] = dur[root] + Dur[g]
  BY <1>1, <1>2 DEF TypeOK
<1>5. \A c \in Grant : status'[c] = "none" <=> status[c] = "none"
  BY <1>2, <1>4
<1>6. \A c \in Grant : parent[c] # NoGrant => parent[c] \in Grant
  BY DEF TypeOK, OrNull
<1>7. \A c \in Grant : RowMatches(c)'
  <2>1. \A c \in Grant : RowMatches(c)
    BY DEF DurationInv
  <2>2. RowMatches(g)'
    BY <1>1, <1>2, <1>3, <1>4, <1>5, <2>1 DEF RowMatches
  <2>3. \A c \in Grant : c # g => RowMatches(c)'
    BY <1>2, <1>4, <1>5, <1>6, <2>1 DEF RowMatches
  <2> QED BY <2>2, <2>3
<1>8. agent.applied \subseteq Grant /\ agent.ran \subseteq Grant
  BY DEF TypeOK, AgentState
<1>9. ASSUME NEW r \in Grant, status'[r] # "none"
      PROVE  dur'[r] = Dur[r] + Sum(Recorded(r)', Dur)
  <2>1. dur[r] = Dur[r] + Sum(Recorded(r), Dur)
    BY <1>5, <1>9 DEF DurationInv, Durations
  <2>2. CASE r # root
    <3>1. Recorded(r)' = Recorded(r) /\ dur'[r] = dur[r]
      BY <1>2, <1>3, <1>4, <1>8, <2>2 DEF Recorded
    <3> QED BY <2>1, <3>1
  <2>3. CASE r = root
    <3>1. PICK old : old = Recorded(r)
      OBVIOUS
    <3>2. g \notin old /\ old \subseteq Grant
      BY <1>1, <1>2, <1>8, <3>1 DEF Recorded, DurationInv, RowMatches
    <3>3. Recorded(r)' = old \cup {g}
      BY <1>2, <1>3, <1>4, <1>8, <2>3, <3>1 DEF Recorded, Clocked
    <3>4. IsFiniteSet(old) /\ \A c \in old \cup {g} : Dur[c] \in Int
      BY <1>1, <3>2, GrantAssumption, FS_Subset
    <3>5. Sum(old \cup {g}, Dur) = Dur[g] + Sum(old, Dur)
      BY <3>2, <3>4, SumAdd
    <3>6. Sum(old, Dur) \in Int
      BY <3>4, SumInt
    <3>7. dur[r] \in Nat /\ Dur[r] \in Nat /\ Dur[g] \in Nat
      BY <1>1, GrantAssumption DEF TypeOK
    <3>8. dur'[r] = Dur[r] + Sum(old \cup {g}, Dur)
      <4>1. dur'[r] = dur[r] + Dur[g] /\ dur[r] = Dur[r] + Sum(old, Dur)
        BY <1>4, <2>1, <2>3, <3>1
      <4> QED BY <3>5, <3>6, <3>7, <4>1
    <3> QED BY <3>3, <3>8
  <2> QED BY <2>2, <2>3
<1>10. Durations'
  BY <1>9 DEF Durations
<1>11. NoneStays /\ AgentKnows'
  BY <1>2, <1>5, <1>8 DEF NoneStays, DurationInv, AgentKnows
<1>12. \A v \in Worker : HandlerGoes(v)
  BY <1>2, ReturnGoes
<1> QED BY <1>2, <1>7, <1>10, <1>11, <1>12, RowsSeenTo

-----------------------------------------------------------------------------
(* The edge loop's choices, and the steps that only touch ended rows, the   *)
(* PC or the clock.                                                         *)

LEMMA LookupMatches ==
  ASSUME TypeOK, TypeOK', DurationInv, SyncLookup \/ \E g \in Grant : SyncPick(g) \/ SyncExtend(g)
  PROVE  DurationInv'
<1>1. /\ Sync \in Worker /\ UNCHANGED <<dbVars, reply, agent, calls, cmds, wire>>
      /\ proc[Sync] \in Busy \union {Idle}
  BY GrantAssumption DEF SyncLookup, SyncPick, SyncExtend, netVars, TypeOK
<1>2. PICK p : /\ proc' = [proc EXCEPT ![Sync] = p] /\ p.at \in {"picked", "send", "merge", "mark"}
               /\ p.call \in {0, proc[Sync].call}
               /\ p.at = "merge" => status[p.root] # "none"
  <2>1. CASE SyncLookup
    <3>1. proc[Sync] \in Busy
      BY <1>1, <2>1, AtBusy DEF SyncLookup, Step
    <3>2. CASE Goto(Sync, "send")
      <4> DEFINE q == [proc[Sync] EXCEPT !.at = "send"]
      <4>1. proc' = [proc EXCEPT ![Sync] = q]
        BY <1>1, <3>2 DEF Goto, TypeOK
      <4>2. q.at = "send" /\ q.call = proc[Sync].call
        BY <3>1 DEF Busy
      <4> HIDE DEF q
      <4> QED BY <4>1, <4>2
    <3>3. ASSUME NEW root \in Grant, status[root] = "accepted",
                 proc' = [proc EXCEPT ![Sync].at = "merge", ![Sync].root = root]
          PROVE  \E p : /\ proc' = [proc EXCEPT ![Sync] = p]
                        /\ p.at \in {"picked", "send", "merge", "mark"}
                        /\ p.call \in {0, proc[Sync].call}
                        /\ p.at = "merge" => status[p.root] # "none"
      <4> DEFINE q == [proc[Sync] EXCEPT !.at = "merge", !.root = root]
      <4>1. proc' = [proc EXCEPT ![Sync] = q]
        BY <1>1, <3>3 DEF TypeOK
      <4>2. q.at = "merge" /\ q.call = proc[Sync].call /\ q.root = root
        BY <3>1 DEF Busy
      <4> HIDE DEF q
      <4> QED BY <3>3, <4>1, <4>2
    <3> QED BY <2>1, <3>2, <3>3 DEF SyncLookup, IsActiveGrantForPC, ActiveGrants
  <2>2. ASSUME NEW g \in Grant, NEW root \in Grant, NEW step \in {"picked", "mark"},
               proc' = [proc EXCEPT ![Sync] = [Idle EXCEPT !.at = step, !.g = g, !.root = root]]
        PROVE  \E p : /\ proc' = [proc EXCEPT ![Sync] = p]
                      /\ p.at \in {"picked", "send", "merge", "mark"}
                      /\ p.call \in {0, proc[Sync].call}
                      /\ p.at = "merge" => status[p.root] # "none"
    <3> DEFINE q == [Idle EXCEPT !.at = step, !.g = g, !.root = root]
    <3>1. proc' = [proc EXCEPT ![Sync] = q]
      BY <2>2
    <3>2. q.at = step /\ q.call = 0
      BY DEF Idle
    <3> HIDE DEF q
    <3> QED BY <3>1, <3>2
  <2>3. ASSUME NEW g \in Grant, SyncPick(g)
        PROVE  \E p : /\ proc' = [proc EXCEPT ![Sync] = p]
                      /\ p.at \in {"picked", "send", "merge", "mark"}
                      /\ p.call \in {0, proc[Sync].call}
                      /\ p.at = "merge" => status[p.root] # "none"
    BY <2>2, <2>3 DEF SyncPick
  <2>4. ASSUME NEW g \in Grant, SyncExtend(g)
        PROVE  \E p : /\ proc' = [proc EXCEPT ![Sync] = p]
                      /\ p.at \in {"picked", "send", "merge", "mark"}
                      /\ p.call \in {0, proc[Sync].call}
                      /\ p.at = "merge" => status[p.root] # "none"
    BY <2>2, <2>4 DEF SyncExtend
  <2> QED BY <2>1, <2>3, <2>4
<1>3. p.at = "merge" => status'[p.root] # "none"
  BY <1>1, <1>2 DEF dbVars
<1>4. \A v \in Worker : HandlerGoes(v)
  BY <1>1, <1>2, <1>3, MovesOn
<1> QED BY <1>1, <1>4, SameRows, NothingSent

LEMMA ExpireMatches ==
  ASSUME TypeOK, TypeOK', DurationInv, Clocked, Expire
  PROVE  DurationInv'
<1> USE DEF deadlines, netVars, apiVars
<1>1. UNCHANGED <<parent, core, dur, accepted, proc, reply, agent, calls, cmds, wire>>
  BY DEF Expire
<1>2. PICK over, children :
        /\ over = {g \in Grant : status[g] = "accepted" /\ ExpiresAt(g) <= now}
        /\ children = {c \in Grant : parent[c] \in over /\ status[c] \in {"pending", "extended"}}
  OBVIOUS
<1>3. /\ status' = [x \in Grant |->
                      IF x \in over \union children THEN "ended" ELSE status[x]]
      /\ ended' = [x \in Grant |-> IF x \in over THEN ExpiresAt(x)
                                   ELSE IF x \in children THEN now ELSE ended[x]]
  BY <1>2 DEF Expire
<1>4. \A g \in over : ExpiresAt(g) # 0 /\ g # NoGrant
  <2> SUFFICES ASSUME NEW g \in over PROVE ExpiresAt(g) # 0 /\ g # NoGrant
    OBVIOUS
  <2>1. g \in Grant /\ accepted[g] # 0 /\ accepted[g] \in Nat /\ dur[g] \in Nat
    BY <1>2 DEF DurationInv, RowMatches, TypeOK
  <2> QED BY <2>1, GrantAssumption DEF ExpiresAt, Deadline
<1>5. \A x \in Grant : ended[x] # 0 => ended'[x] # 0
  BY <1>3, <1>4 DEF Clocked
<1>6. \A g \in over : ended'[g] # 0
  BY <1>2, <1>3, <1>4
<1>7. \A x \in Grant : status'[x] = status[x] \/ (status'[x] = "ended" /\ x \in over \union children)
  BY <1>3
<1>8. /\ \A x \in over : status[x] = "accepted"
      /\ \A x \in children : parent[x] # NoGrant /\ ended'[parent[x]] # 0
  BY <1>2, <1>4, <1>6
<1>9. \A x \in Grant : RowStays(x)
  BY <1>1, <1>5, <1>7, <1>8 DEF RowStays
<1> QED BY <1>1, <1>9, SameHandlers, NothingSent

LEMMA OthersMatch ==
  ASSUME TypeOK, TypeOK', DurationInv, Clocked,
         \/ ReconcileMissingRemainders \/ Heartbeat \/ AgentOffline \/ LoseCommand \/ Tick
         \/ UNCHANGED vars
         \/ \E w \in Worker, g \in Grant : AdminEnd(w, g) /\ core[g] = NoGrant
  PROVE  DurationInv'
<1> USE DEF deadlines, settled, returns, netVars, apiVars, dbVars, vars
<1>1. /\ UNCHANGED <<proc, reply, agent, calls, wire>> /\ cmds' \subseteq cmds
  BY DEF ReconcileMissingRemainders, Heartbeat, AgentOffline, LoseCommand, Tick, AdminEnd
<1>2. \A x \in Grant : RowStays(x)
  <2>1. CASE \/ ReconcileMissingRemainders \/ Heartbeat \/ AgentOffline \/ LoseCommand \/ Tick
             \/ UNCHANGED vars
    <3>1. UNCHANGED <<status, parent, core, dur, accepted, ended>>
      BY <2>1 DEF ReconcileMissingRemainders, Heartbeat, AgentOffline, LoseCommand, Tick
    <3> QED BY <3>1 DEF RowStays
  <2>2. ASSUME NEW w \in Worker, NEW g \in Grant, AdminEnd(w, g), core[g] = NoGrant
        PROVE  \A x \in Grant : RowStays(x)
    <3>1. \E told : FinishGrant(g, told)
      BY <2>2 DEF AdminEnd
    <3> QED BY <3>1, FinishStays
  <2> QED BY <2>1, <2>2
<1> QED BY <1>1, <1>2, SameHandlers, NothingSent

-----------------------------------------------------------------------------
(* The Agent's steps, and its events.                                       *)

(* The rows stay, and what the Agent newly applies it had not run before.   *)
LEMMA AgentGrows ==
  ASSUME TypeOK, TypeOK', DurationInv, UNCHANGED dbVars,
         agent.ran \subseteq agent'.ran, agent.applied \subseteq agent'.applied,
         \A g \in agent'.applied : g \in agent.applied \/ g \notin agent.ran
  PROVE  NoneStays /\ (\A g \in Grant : RowMatches(g)') /\ Durations'
<1> USE DEF dbVars, deadlines, settled, returns
<1>1. agent'.applied \subseteq Grant /\ \A g \in Grant : RowMatches(g)
  BY DEF TypeOK, AgentState, DurationInv
<1>2. \A g \in agent'.applied : g \in agent.applied \/ accepted[g] = 0
  BY <1>1 DEF RowMatches
<1>3. \A g \in Grant : RowMatches(g)'
  BY <1>1, <1>2 DEF RowMatches
<1>4. \A r \in Grant : Recorded(r)' = Recorded(r)
  BY <1>2 DEF Recorded
<1>5. Durations'
  BY <1>4, DurationsStay DEF DurationInv
<1> QED BY <1>3, <1>5 DEF NoneStays

LEMMA EmitMatches ==
  ASSUME TypeOK, DurationInv, UNCHANGED status, agent.ran \subseteq agent'.ran,
         \/ UNCHANGED wire
         \/ \E kind, g, root, val :
              /\ Emit(kind, g, root, val) /\ status[g] # "none"
              /\ kind = "started" => g \in agent'.ran
  PROVE  \A e \in wire' : EventMatches(e)'
<1>1. \A e \in wire : EventMatches(e)'
  BY DEF DurationInv, EventMatches
<1>2. CASE UNCHANGED wire
  BY <1>1, <1>2
<1>3. ASSUME NEW kind, NEW g, NEW root, NEW val, Emit(kind, g, root, val), status[g] # "none",
             kind = "started" => g \in agent'.ran
      PROVE  \A e \in wire' : EventMatches(e)'
  <2>1. PICK new : new = [kind |-> kind, g |-> g, root |-> root, val |-> val, at |-> now]
    OBVIOUS
  <2>2. wire' = wire \union {new} /\ new.kind = kind /\ new.g = g
    BY <1>3, <2>1 DEF Emit
  <2>3. EventMatches(new)'
    BY <1>3, <2>2 DEF EventMatches
  <2> QED BY <1>1, <2>2, <2>3
<1> QED BY <1>2, <1>3

(* An answer tells a handler of its own grant.                              *)
LEMMA AnswerMatches ==
  ASSUME TypeOK, DurationInv, NEW c \in cmds, NEW kind, NEW val, Answer(c, kind, val),
         agent.ran \subseteq agent'.ran, agent.applied \subseteq agent'.applied,
         kind = "ok" /\ c.op = "start" => c.g \in agent'.ran,
         kind = "ok" /\ c.op = "extend" => c.g \in agent'.applied
  PROVE  /\ \A w \in Worker : HandlerHeard(w)'
         /\ \A d \in cmds' : CommandMatches(d)'
<1>1. UNCHANGED <<proc, calls, status>> /\ cmds' \subseteq cmds
  BY DEF Answer, dbVars
<1>2. CommandMatches(c) /\ \A w \in Worker : HandlerHeard(w)
  BY DEF DurationInv
<1>3. ASSUME NEW w \in Worker PROVE HandlerHeard(w)'
  <2>1. CASE ~ (Awaits(w, c) /\ reply[w].kind = "none")
    <3>1. reply'[w] = reply[w]
      BY <2>1 DEF Answer
    <3> QED BY <1>1, <1>2, <3>1 DEF HandlerHeard, At
  <2>2. CASE Awaits(w, c) /\ reply[w].kind = "none"
    <3>1. reply'[w].kind = kind
      BY <2>2 DEF Answer
    <3>2. /\ At(w, "start") => c.op = "start" /\ c.g = proc[w].g
          /\ At(w, "extend") => c.op = "extend" /\ c.g = proc[w].g
      BY <1>2, <2>2 DEF Awaits, CommandMatches, At
    <3> QED BY <1>1, <1>2, <3>1, <3>2 DEF HandlerHeard, At
  <2> QED BY <2>1, <2>2
<1>4. \A d \in cmds' : CommandMatches(d)'
  BY <1>1 DEF DurationInv, CommandMatches, At
<1> QED BY <1>3, <1>4

LEMMA RefuseMatches ==
  ASSUME TypeOK, TypeOK', DurationInv, NEW c \in cmds, Refuse(c)
  PROVE  DurationInv'
<1>1. Answer(c, "error", 0) /\ UNCHANGED <<agent, dbVars>>
  BY DEF Refuse, Answer
<1>2. (\A w \in Worker : HandlerHeard(w)') /\ (\A d \in cmds' : CommandMatches(d)')
  BY <1>1, AnswerMatches
<1>3. \A e \in wire' : EventMatches(e)'
  <2>1. status[c.g] # "none" /\ UNCHANGED status
    BY <1>1 DEF DurationInv, CommandMatches, dbVars
  <2>2. UNCHANGED wire \/ \E root : Emit("failed", c.g, root, 0)
    BY DEF Refuse
  <2> QED BY <1>1, <2>1, <2>2, EmitMatches
<1>4. NoneStays /\ (\A g \in Grant : RowMatches(g)') /\ Durations'
  BY <1>1, AgentGrows
<1>5. AgentKnows'
  BY <1>1, SameRows, RowsStay
<1> QED BY <1>2, <1>3, <1>4, <1>5 DEF DurationInv

LEMMA StoppedMatches ==
  ASSUME TypeOK, DurationInv, agent' = Stopped, UNCHANGED dbVars
  PROVE  agent'.ran = agent.ran /\ agent'.applied = agent.applied /\ AgentKnows'
<1>1. agent'.ran = agent.ran /\ agent'.applied = agent.applied /\ agent'.sess = NoGrant
  BY DEF TypeOK, AgentState, Stopped
<1> QED BY <1>1 DEF DurationInv, AgentKnows, dbVars

LEMMA AgentStopMatches ==
  ASSUME TypeOK, TypeOK', DurationInv, AgentStop
  PROVE  DurationInv'
<1>1. /\ agent' = Stopped /\ UNCHANGED <<dbVars, proc, reply, cmds, calls>>
      /\ agent.sess # NoGrant
  BY DEF AgentStop, apiVars
<1>2. agent'.ran = agent.ran /\ agent'.applied = agent.applied /\ AgentKnows'
  BY <1>1, StoppedMatches
<1>3. NoneStays /\ (\A g \in Grant : RowMatches(g)') /\ Durations' /\ UNCHANGED status
  BY <1>1, <1>2, AgentGrows DEF dbVars
<1>4. \A e \in wire' : EventMatches(e)'
  <2>1. status[agent.sess] # "none"
    BY <1>1 DEF DurationInv, AgentKnows
  <2>2. \E kind \in {"ended", "expired"} : \E told : Emit(kind, agent.sess, agent.sess, told)
    BY DEF AgentStop
  <2> QED BY <1>2, <1>3, <2>1, <2>2, EmitMatches
<1>5. \A w \in Worker : HandlerHeard(w)'
  BY <1>1, <1>2, <1>3 DEF DurationInv, HandlerHeard, At
<1>6. \A c \in cmds' : CommandMatches(c)'
  BY <1>1, <1>3 DEF DurationInv, CommandMatches, At
<1> QED BY <1>2, <1>3, <1>4, <1>5, <1>6 DEF DurationInv

LEMMA AgentEndMatches ==
  ASSUME TypeOK, TypeOK', DurationInv, NEW c \in cmds, AgentEnd(c)
  PROVE  DurationInv'
<1>1. CASE Refuse(c)
  BY <1>1, RefuseMatches
<1>2. CASE agent.sess = c.root
  <2>1. PICK told \in Reported : /\ agent' = Stopped /\ Emit("ended", c.root, c.root, told)
                                /\ Answer(c, "ok", told)
    BY <1>2 DEF AgentEnd
  <2>2. UNCHANGED dbVars /\ c.op = "end"
    BY <2>1 DEF AgentEnd, Answer
  <2>3. agent'.ran = agent.ran /\ agent'.applied = agent.applied /\ AgentKnows'
    BY <2>1, <2>2, StoppedMatches
  <2>4. NoneStays /\ (\A g \in Grant : RowMatches(g)') /\ Durations' /\ UNCHANGED status
    BY <2>2, <2>3, AgentGrows DEF dbVars
  <2>5. status[c.root] # "none"
    <3>1. c.root # NoGrant
      BY GrantAssumption DEF TypeOK, Command
    <3> QED BY <1>2, <3>1 DEF DurationInv, AgentKnows
  <2>6. \A e \in wire' : EventMatches(e)'
    BY <2>1, <2>3, <2>4, <2>5, EmitMatches
  <2>7. (\A w \in Worker : HandlerHeard(w)') /\ (\A d \in cmds' : CommandMatches(d)')
    BY <2>1, <2>2, <2>3, AnswerMatches
  <2> QED BY <2>3, <2>4, <2>6, <2>7 DEF DurationInv
<1> QED BY <1>1, <1>2 DEF AgentEnd

LEMMA AgentStartMatches ==
  ASSUME TypeOK, TypeOK', DurationInv, NEW c \in cmds, AgentStart(c)
  PROVE  DurationInv'
<1>0. c.g \in Grant /\ status[c.g] # "none" /\ c.op = "start" /\ c.g # NoGrant
  BY GrantAssumption DEF TypeOK, Command, DurationInv, CommandMatches, AgentStart
<1>1. CASE Refuse(c)
  BY <1>1, RefuseMatches
<1>2. CASE agent.sess = c.g /\ UNCHANGED agent /\ UNCHANGED wire
           /\ Answer(c, "ok", ToldInReply(agent.ends))
  <2>1. UNCHANGED <<dbVars, status>> /\ c.g \in agent'.ran /\ AgentKnows'
    BY <1>0, <1>2 DEF Answer, dbVars, DurationInv, AgentKnows
  <2>2. (\A w \in Worker : HandlerHeard(w)') /\ (\A d \in cmds' : CommandMatches(d)')
    BY <1>0, <1>2, <2>1, AnswerMatches
  <2>3. (\A g \in Grant : RowMatches(g)') /\ Durations'
    BY <1>2, <2>1, AgentGrows
  <2>4. \A e \in wire' : EventMatches(e)'
    BY <1>2, <2>1, EmitMatches
  <2> QED BY <2>1, <2>2, <2>3, <2>4 DEF DurationInv
<1>3. CASE /\ agent.sess = NoGrant /\ c.g \notin agent.ran \union agent.applied
           /\ agent' = [agent EXCEPT !.sess = c.g, !.ends = now + c.add,
                                     !.ran = @ \union {c.g}]
           /\ Emit("started", c.g, c.g, now + c.add)
           /\ Answer(c, "ok", ToldInReply(now + c.add))
  <2>1. /\ agent'.sess = c.g /\ agent'.ran = agent.ran \union {c.g}
        /\ agent'.applied = agent.applied
    BY <1>3 DEF TypeOK, AgentState
  <2>2. UNCHANGED <<dbVars, status>>
    BY <1>3 DEF Answer, dbVars
  <2>3. AgentKnows'
    BY <1>0, <1>3, <2>1, <2>2 DEF DurationInv, AgentKnows
  <2>4. (\A w \in Worker : HandlerHeard(w)') /\ (\A d \in cmds' : CommandMatches(d)')
    BY <1>0, <1>3, <2>1, AnswerMatches
  <2>5. (\A g \in Grant : RowMatches(g)') /\ Durations'
    BY <2>1, <2>2, AgentGrows
  <2>6. \A e \in wire' : EventMatches(e)'
    BY <1>0, <1>3, <2>1, <2>2, EmitMatches
  <2> QED BY <2>3, <2>4, <2>5, <2>6 DEF DurationInv
<1> QED BY <1>1, <1>2, <1>3 DEF AgentStart

LEMMA AgentExtendMatches ==
  ASSUME TypeOK, TypeOK', DurationInv, NEW c \in cmds, AgentExtend(c)
  PROVE  DurationInv'
<1>0. c.g \in Grant /\ status[c.g] # "none" /\ c.op = "extend"
  BY DEF TypeOK, Command, DurationInv, CommandMatches, AgentExtend
<1>1. CASE Refuse(c)
  BY <1>1, RefuseMatches
<1>2. CASE c.g \in agent.applied /\ UNCHANGED agent /\ UNCHANGED wire
           /\ Answer(c, "ok", ToldInReply(agent.ends))
  <2>1. UNCHANGED <<dbVars, status>> /\ AgentKnows'
    BY <1>2 DEF Answer, dbVars, DurationInv, AgentKnows
  <2>2. (\A w \in Worker : HandlerHeard(w)') /\ (\A d \in cmds' : CommandMatches(d)')
    BY <1>0, <1>2, AnswerMatches
  <2>3. (\A g \in Grant : RowMatches(g)') /\ Durations'
    BY <1>2, <2>1, AgentGrows
  <2>4. \A e \in wire' : EventMatches(e)'
    BY <1>2, <2>1, EmitMatches
  <2> QED BY <2>1, <2>2, <2>3, <2>4 DEF DurationInv
<1>3. CASE agent.sess = c.root /\ c.g \notin agent.ran /\ c.g \notin agent.applied
  <2>1. PICK ends : /\ agent' = [agent EXCEPT !.ends = ends, !.applied = @ \union {c.g}]
                    /\ Emit("extended", c.g, c.root, ends)
                    /\ Answer(c, "ok", ToldInReply(ends))
    BY <1>3 DEF AgentExtend
  <2>2. /\ agent'.sess = agent.sess /\ agent'.ran = agent.ran
        /\ agent'.applied = agent.applied \union {c.g}
    BY <2>1 DEF TypeOK, AgentState
  <2>3. UNCHANGED <<dbVars, status>>
    BY <2>1 DEF Answer, dbVars
  <2>4. AgentKnows'
    BY <1>3, <2>2, <2>3 DEF DurationInv, AgentKnows
  <2>5. (\A w \in Worker : HandlerHeard(w)') /\ (\A d \in cmds' : CommandMatches(d)')
    BY <1>0, <2>1, <2>2, AnswerMatches
  <2>6. (\A g \in Grant : RowMatches(g)') /\ Durations'
    BY <1>3, <2>2, <2>3, AgentGrows
  <2>7. \A e \in wire' : EventMatches(e)'
    BY <1>0, <2>1, <2>2, <2>3, EmitMatches
  <2> QED BY <2>4, <2>5, <2>6, <2>7 DEF DurationInv
<1> QED BY <1>1, <1>2, <1>3 DEF AgentExtend

LEMMA EventMatched ==
  ASSUME TypeOK, TypeOK', DurationInv, Clocked, CoreEvent
  PROVE  DurationInv'
<1> USE DEF deadlines, settled, returns
<1>1. PICK e \in wire : EventStarted(e) \/ EventExtended(e) \/ EventEnded(e) \/ EventFailed(e)
  BY DEF CoreEvent
<1>2. /\ UNCHANGED <<proc, reply, agent, calls, cmds>> /\ wire' \subseteq wire
      /\ e.g \in Grant /\ e.at # 0 /\ EventMatches(e)
  BY <1>1 DEF EventStarted, EventExtended, EventEnded, EventFailed, Receive, apiVars, TypeOK,
              Event, Clocked, DurationInv
<1>3. \A x \in Grant : RowStays(x)
  <2>1. CASE EventStarted(e)
    <3>1. e.g \in agent.ran /\ status[e.g] # "none"
      BY <1>2, <2>1 DEF EventStarted, Receive, EventMatches
    <3>2. /\ status' = [status EXCEPT ![e.g] = "accepted"]
          /\ core' = [core EXCEPT ![e.g] = e.root]
          /\ accepted' = [accepted EXCEPT ![e.g] = e.at]
          /\ UNCHANGED <<parent, dur, ended>>
      BY <2>1 DEF EventStarted
    <3> QED BY <1>2, <3>1, <3>2 DEF RowStays, TypeOK
  <2>2. CASE EventExtended(e)
    <3>1. /\ UNCHANGED <<status, parent, dur, accepted, ended>>
          /\ core' = [g \in Grant |-> IF g \in RowsOf(e) THEN e.root ELSE core[g]]
      BY <2>2 DEF EventExtended
    <3>2. \A x \in RowsOf(e) : status[x] # "none"
      BY <1>2 DEF RowsOf, EventMatches, DurationInv, RowMatches
    <3> QED BY <3>1, <3>2 DEF RowStays
  <2>3. CASE EventEnded(e)
    <3>1. \E g \in Grant : \E told : FinishGrant(g, told)
      BY <1>2, <2>3 DEF EventEnded
    <3> QED BY <3>1, FinishStays
  <2>4. CASE EventFailed(e)
    <3>1. /\ UNCHANGED <<parent, core, dur, accepted, ended>>
          /\ status' = [g \in Grant |-> IF g \in RowsOf(e) THEN "start_failed" ELSE status[g]]
      BY <2>4 DEF EventFailed
    <3>2. \A x \in RowsOf(e) : status[x] # "none"
      BY <1>2 DEF RowsOf, EventMatches, DurationInv, RowMatches
    <3> QED BY <3>1, <3>2 DEF RowStays
  <2> QED BY <1>1, <2>1, <2>2, <2>3, <2>4
<1> QED BY <1>2, <1>3, SameHandlers, NothingSent

-----------------------------------------------------------------------------
LEMMA InitDurationInv == Init => DurationInv
<1> SUFFICES ASSUME Init PROVE DurationInv
  OBVIOUS
<1>1. AgentKnows
  BY DEF Init, AgentKnows
<1>2. \A g \in Grant : RowMatches(g)
  BY DEF Init, RowMatches
<1>3. Durations
  BY DEF Init, Durations
<1>4. \A w \in Worker : HandlerHeard(w)
  BY DEF Init, HandlerHeard, Idle, At
<1>5. cmds = {} /\ wire = {}
  BY DEF Init
<1> QED BY <1>1, <1>2, <1>3, <1>4, <1>5 DEF DurationInv

LEMMA NextDurationInv ==
  ASSUME TypeOK, TypeOK', CountInv, DurationInv, [Next]_vars
  PROVE  DurationInv'
<1>0. Clocked /\ Handlers
  BY DEF CountInv
<1>1. ASSUME NEW w \in Worker, HandlerStep(w) \/ Crash(w) PROVE DurationInv'
  <2>1. CASE \/ RefundPlayerBalance(w) \/ StartOk(w) \/ StartError(w) \/ Crash(w)
             \/ NoSessionToExtend(w) \/ EndOk(w) \/ EndError(w)
    BY <1>0, <2>1, PlainSteps
  <2>2. CASE SendStart(w) \/ SendExtend(w)
    BY <1>0, <2>2, SendMatches
  <2>3. CASE MarkApplying(w)
    BY <2>3, ClaimMatches
  <2>4. CASE ExtendError(w) \/ (ExtendOk(w) /\ status[proc[w].g] # "applying")
    BY <2>4, NotAppliedMatches
  <2>5. CASE ExtendOk(w) /\ status[proc[w].g] = "applying"
    BY <1>0, <2>5, AppliedMatches
  <2> QED BY <1>1, <2>1, <2>2, <2>3, <2>4, <2>5 DEF HandlerStep
<1>2. ASSUME NEW w \in Worker, NEW g \in Grant, Request(w, g) PROVE DurationInv'
  <2>1. CASE RedeemStart(w, g) \/ RedeemExtend(w, g)
    BY <2>1, RedeemMatches
  <2>2. CASE KioskEnd(w, g) \/ (AdminEnd(w, g) /\ core[g] # NoGrant)
    BY <1>0, <2>2, SendMatches
  <2>3. CASE AdminEnd(w, g) /\ core[g] = NoGrant
    BY <1>0, <2>3, OthersMatch
  <2> QED BY <1>2, <2>1, <2>2, <2>3 DEF Request
<1>3. CASE SyncLoop
  BY <1>0, <1>3, LookupMatches, MergeMatches DEF SyncLoop
<1>4. CASE Expire
  BY <1>0, <1>4, ExpireMatches
<1>5. CASE \/ ReconcileMissingRemainders \/ Heartbeat \/ AgentOffline \/ LoseCommand \/ Tick
           \/ UNCHANGED vars
  BY <1>0, <1>5, OthersMatch
<1>6. CASE AgentStep
  BY <1>6, AgentStopMatches, AgentStartMatches, AgentExtendMatches, AgentEndMatches DEF AgentStep
<1>7. CASE CoreEvent
  BY <1>0, <1>7, EventMatched
<1> QED BY <1>1, <1>2, <1>3, <1>4, <1>5, <1>6, <1>7 DEF Next

(* What was applied and is not in the duration is still in sight.           *)
LEMMA DurationInvProperty == TypeOK /\ DurationInv => AgentAgreesOnDuration
<1> SUFFICES ASSUME TypeOK, DurationInv, NEW r \in Grant, status[r] # "none"
             PROVE  /\ dur[r] = Dur[r] + Sum(Recorded(r), Dur)
                    /\ \A c \in agent.applied \ Recorded(r) :
                         parent[c] = r =>
                           \/ status[c] \in {"pending", "applying", "start_failed",
                                           "offline_failed"}
                           \/ status[c] = "ended" /\ ended[r] # 0
  BY DEF AgentAgreesOnDuration
<1>1. dur[r] = Dur[r] + Sum(Recorded(r), Dur)
  BY DEF DurationInv, Durations
<1>2. ASSUME NEW c \in agent.applied \ Recorded(r), parent[c] = r
      PROVE  \/ status[c] \in {"pending", "applying", "start_failed",
                                           "offline_failed"}
             \/ status[c] = "ended" /\ ended[r] # 0
  <2>1. c \in Grant /\ accepted[c] = 0 /\ RowMatches(c) /\ r # NoGrant
    BY <1>2, GrantAssumption DEF TypeOK, AgentState, Recorded, DurationInv
  <2>2. status[c] \in Status \ {"none", "accepted", "extended"}
    BY <1>2, <2>1 DEF TypeOK, RowMatches
  <2> QED BY <1>2, <2>1, <2>2 DEF Status, RowMatches
<1> QED BY <1>1, <1>2

(* The recorded duration of every grant is what was bought with it and the  *)
(* extensions that the Agent applied and the database recorded, each once;  *)
(* an applied extension that is missing there is still waiting, failed, or  *)
(* was closed with its session: for any number of purchases, handlers and   *)
(* faults, vouchers and merges by the edge loop included.                   *)
THEOREM AgreedDuration == Spec => []AgentAgreesOnDuration
<1>1. Init => CountInv /\ DurationInv
  BY InitCountInv, InitDurationInv
<1>2. TypeOK /\ TypeOK' /\ CountInv /\ DurationInv /\ [Next]_vars => CountInv' /\ DurationInv'
  BY NextCountInv, NextDurationInv
<1>3. TypeOK /\ DurationInv => AgentAgreesOnDuration
  BY DurationInvProperty
<1> QED BY <1>1, <1>2, <1>3, TypeCorrect, PTL DEF Spec

-----------------------------------------------------------------------------
(* Time is conserved with extensions.  Who may let a session go on - the    *)
(* Agent, a row, an answer, a command, an event - names an end that what    *)
(* was bought for it, with the extensions the Agent applied, affords.       *)

(* Executions in which no grant is merged, and no session that was given    *)
(* back as a voucher gets an owner.                                         *)
Unmerged == \A w \in Worker : ~proc[w].merge
OwnersInTime == \A g \in Grant : ~ LateOwner(g)

(* Then what a row returned, it returned in one channel.                    *)
OneChannel == CreditOwned /\ OwnersInTime

Bought(r) == Dur[r] + Sum(AppliedTo(r), Dur)

(* A session may go on until the given end with what was bought for it.     *)
Affords(r, end) == played[r] + end <= now + Bought(r)

(* The Agent runs a session only, and applies an extension only to the      *)
(* session its row names.                                                   *)
AgentAffords ==
  /\ agent.sess # NoGrant => agent.ends # 0 /\ Affords(agent.sess, agent.ends)
  /\ \A g \in Grant : played[g] <= Bought(g) /\ (played[g] # 0 => g \in agent.ran)
  /\ \A g \in agent.ran : parent[g] = NoGrant
  /\ \A g \in agent.applied : parent[g] # NoGrant /\ parent[g] \in agent.ran

(* An extension is a child of a root for good.  What was returned belongs   *)
(* to a session that is over.                                               *)
RowAffords(g) ==
  /\ IF parent[g] = NoGrant
     THEN core[g] \in {NoGrant, g} /\ (planned[g] # 0 => Affords(g, planned[g]))
     ELSE core[g] = parent[g] /\ parent[parent[g]] = NoGrant /\ status[g] # "accepted"
  /\ status[g] = "accepted" => core[g] = g /\ planned[g] # 0
  /\ Back(g) # 0 => /\ g \in agent.ran /\ g # agent.sess
                    /\ played[g] + Back(g) <= Bought(g)

HandlerAffords(w) ==
  /\ proc[w].at \in Starting => parent[proc[w].g] = NoGrant
  /\ Ending(w) => parent[proc[w].g] \in {NoGrant, proc[w].root}
                  /\ (parent[proc[w].g] = NoGrant => proc[w].root = proc[w].g)
  /\ reply[w].kind = "ok" =>
       /\ At(w, "start") => reply[w].val # 0 /\ Affords(proc[w].g, reply[w].val)
       /\ At(w, "extend") => reply[w].val # 0 /\ Affords(proc[w].root, reply[w].val)
       /\ Ending(w) => proc[w].root \in agent.ran /\ proc[w].root # agent.sess

CommandAffords(c) ==
  /\ c.op = "start" => parent[c.g] = NoGrant /\ (c.g \notin agent.ran => c.add = Dur[c.g])
  /\ c.op = "extend" => parent[c.g] = c.root /\ c.add = Dur[c.g]
  /\ \A w \in Worker : proc[w].call = c.id /\ Ending(w) =>
       c.op = "end" /\ c.root = proc[w].root

EventAffords(e) ==
  /\ e.kind \in {"started", "extended"} =>
       e.root # NoGrant /\ e.val # 0 /\ Affords(e.root, e.val)
  /\ e.kind = "started" => e.root = e.g
  /\ e.kind = "extended" => parent[e.g] = e.root
  /\ e.kind \in {"ended", "expired"} =>
       e.root = e.g /\ e.g \in agent.ran /\ e.g # agent.sess

BudgetInv ==
  /\ AgentAffords
  /\ \A g \in Grant : RowAffords(g)
  /\ \A w \in Worker : HandlerAffords(w)
  /\ \A c \in cmds : CommandAffords(c)
  /\ \A e \in wire : EventAffords(e)

-----------------------------------------------------------------------------
(* What was bought for a session is never less than it was.                 *)

LEMMA AppliedFinite ==
  ASSUME TypeOK, NEW r
  PROVE  AppliedTo(r) \subseteq Grant /\ IsFiniteSet(AppliedTo(r))
<1>1. AppliedTo(r) \subseteq Grant
  BY DEF AppliedTo, TypeOK, AgentState
<1> QED BY <1>1, GrantAssumption, FS_Subset

LEMMA BoughtType ==
  ASSUME TypeOK, NEW r \in Grant
  PROVE  Bought(r) \in Nat /\ Dur[r] \in Nat /\ Dur[r] <= Bought(r)
<1>1. \A c \in AppliedTo(r) : Dur[c] \in Nat
  BY AppliedFinite, GrantAssumption
<1>2. Sum(AppliedTo(r), Dur) \in Nat
  BY <1>1, AppliedFinite, SumGrows
<1>3. Dur[r] \in Nat
  BY GrantAssumption
<1> QED BY <1>2, <1>3 DEF Bought

LEMMA BoughtTypeNext == ASSUME TypeOK', NEW r \in Grant PROVE Bought(r)' \in Nat
<1>1. AppliedTo(r)' \subseteq Grant
  BY DEF AppliedTo, TypeOK, AgentState
<1>2. IsFiniteSet(AppliedTo(r)') /\ \A c \in AppliedTo(r)' : Dur[c] \in Nat
  BY <1>1, GrantAssumption, FS_Subset
<1>3. Sum(AppliedTo(r)', Dur) \in Nat
  BY <1>2, SumGrows
<1>4. Dur[r] \in Nat
  BY GrantAssumption
<1> QED BY <1>3, <1>4 DEF Bought

LEMMA BoughtGrows ==
  ASSUME TypeOK, TypeOK', agent.applied \subseteq agent'.applied,
         \A c \in agent.applied : core'[c] = core[c], NEW r \in Grant
  PROVE  Bought(r) <= Bought(r)'
<1> DEFINE old == AppliedTo(r)
           new == AppliedTo(r)'
<1>1. old \subseteq new
  BY DEF AppliedTo
<1>2. new \subseteq Grant /\ IsFiniteSet(new)
  <2>1. new \subseteq Grant
    BY DEF AppliedTo, TypeOK, AgentState
  <2> QED BY <2>1, GrantAssumption, FS_Subset
<1>3. \A c \in new : Dur[c] \in Nat
  BY <1>2, GrantAssumption
<1> HIDE DEF old, new
<1>4. Sum(old, Dur) \in Nat /\ Sum(old, Dur) <= Sum(new, Dur) /\ Sum(new, Dur) \in Nat
  BY <1>1, <1>2, <1>3, SumGrows
<1>5. Dur[r] \in Nat
  BY GrantAssumption
<1>6. Dur[r] + Sum(old, Dur) <= Dur[r] + Sum(new, Dur)
  BY <1>4, <1>5
<1> QED BY <1>6 DEF Bought, old, new

(* What every step leaves true of the sessions: those that were run and     *)
(* those that are over, what they can afford, and what belongs to them.     *)
Steady ==
  /\ agent.ran \subseteq agent'.ran
  /\ \A g \in agent.ran : agent'.sess = g => agent.sess = g
  /\ \A r \in Grant : /\ \A end \in Nat : Affords(r, end) => Affords(r, end)'
                      /\ Bought(r) <= Bought(r)'
                      /\ played'[r] = played[r] \/ agent.sess = r
  /\ \A g \in Grant : status[g] # "none" => parent'[g] = parent[g]

LEMMA StaysAffordable ==
  ASSUME TypeOK, TypeOK', UNCHANGED <<now, played>>, NEW r \in Grant, NEW end \in Nat,
         Affords(r, end), Bought(r) <= Bought(r)'
  PROVE  Affords(r, end)'
<1>1. played[r] \in Nat /\ now \in Nat /\ Bought(r) \in Nat /\ Bought(r)' \in Nat
  BY BoughtType, BoughtTypeNext DEF TypeOK
<1>2. played[r] + end <= now + Bought(r)
  BY DEF Affords
<1>3. played[r] + end <= now + Bought(r)'
  BY <1>1, <1>2
<1> QED BY <1>3 DEF Affords

LEMMA SteadySteps ==
  ASSUME TypeOK, TypeOK', UNCHANGED <<now, played>>,
         agent.ran \subseteq agent'.ran, agent.applied \subseteq agent'.applied,
         \A g \in agent.ran : agent'.sess = g => agent.sess = g,
         \A c \in agent.applied : core'[c] = core[c],
         \A g \in Grant : status[g] # "none" => parent'[g] = parent[g]
  PROVE  Steady
BY BoughtGrows, StaysAffordable DEF Steady

-----------------------------------------------------------------------------
(* A row, a handler, a command and an event that a step leaves alone.       *)

RowPlain(g) ==
  /\ parent'[g] = parent[g] /\ core'[g] = core[g] /\ planned'[g] = planned[g]
  /\ credited'[g] = credited[g] /\ voucher'[g] = voucher[g]
  /\ status'[g] \in {status[g]} \union (Status \ {"accepted"})

LEMMA ParentOfParent ==
  ASSUME TypeOK, DurationInv, Steady, NEW g \in Grant, parent[g] # NoGrant
  PROVE  parent[g] \in Grant /\ parent'[parent[g]] = parent[parent[g]]
BY DEF TypeOK, OrNull, DurationInv, RowMatches, Steady

LEMMA CreditStays ==
  ASSUME TypeOK, TypeOK', BudgetInv, Steady, NEW g \in Grant, credited'[g] = credited[g],
         voucher'[g] = voucher[g], Back(g)' # 0
  PROVE  g \in agent'.ran /\ g # agent'.sess /\ played'[g] + Back(g)' <= Bought(g)'
<1>1. RowAffords(g) /\ Back(g)' = Back(g)
  BY DEF BudgetInv, Back
<1>2. g \in agent.ran /\ g # agent.sess /\ played[g] + Back(g) <= Bought(g)
  BY <1>1 DEF RowAffords
<1>3. g \in agent'.ran /\ g # agent'.sess /\ played'[g] = played[g] /\ Bought(g) <= Bought(g)'
  BY <1>2 DEF Steady
<1>4. played[g] \in Nat /\ Back(g) \in Nat /\ Bought(g) \in Nat /\ Bought(g)' \in Nat
  BY BoughtType, BoughtTypeNext DEF TypeOK, Back
<1> QED BY <1>1, <1>2, <1>3, <1>4

LEMMA RowStaysPlain ==
  ASSUME TypeOK, TypeOK', DurationInv, BudgetInv, Steady, NEW g \in Grant, RowPlain(g)
  PROVE  RowAffords(g)'
<1>1. RowAffords(g)
  BY DEF BudgetInv
<1>2. PICK end \in Nat : end = planned[g]
  BY DEF TypeOK
<1>3. planned[g] # 0 /\ parent[g] = NoGrant => Affords(g, end)'
  BY <1>1, <1>2 DEF RowAffords, Steady
<1>4. CASE parent[g] = NoGrant
  <2>1. parent'[g] = NoGrant /\ core'[g] \in {NoGrant, g}
    BY <1>1, <1>4 DEF RowAffords, RowPlain, Back
  <2>2. planned'[g] # 0 => Affords(g, planned[g])'
    BY <1>2, <1>3, <1>4 DEF RowPlain, Affords
  <2> QED BY <1>1, <2>1, <2>2, CreditStays DEF RowAffords, RowPlain, Back
<1>5. CASE parent[g] # NoGrant
  <2>1. /\ parent'[g] # NoGrant /\ core'[g] = parent'[g]
        /\ parent'[parent'[g]] = NoGrant /\ status'[g] # "accepted"
    BY <1>1, <1>5, ParentOfParent DEF RowAffords, RowPlain, Back
  <2> QED BY <1>1, <2>1, CreditStays DEF RowAffords, RowPlain, Back
<1> QED BY <1>4, <1>5

(* A handler that goes on or stops keeps what it was told.                  *)
Goes(w) == Follows(w) /\ Kept(w)

LEMMA HandlerStays ==
  ASSUME TypeOK, TypeOK', Handlers, BudgetInv, Steady, NEW w \in Worker, Goes(w)
  PROVE  HandlerAffords(w)'
<1>1. HandlerAffords(w)
  BY DEF BudgetInv
<1>2. CASE proc'[w].at = "idle"
  BY <1>2 DEF HandlerAffords, At, Ending, Starting
<1>3. CASE proc'[w].at # "idle"
  <2>1. /\ proc'[w].at = proc[w].at /\ proc'[w].g = proc[w].g /\ proc'[w].root = proc[w].root
        /\ reply'[w].kind = "ok" => reply'[w] = reply[w]
    BY <1>3 DEF Goes, Follows, Kept, Idle
  <2>2. proc[w].at # "idle" /\ proc[w].g \in Grant /\ proc[w].root \in Grant
    BY <1>3, <2>1, BusyFields DEF TypeOK, Idle
  <2>3. parent'[proc[w].g] = parent[proc[w].g]
    BY <2>2 DEF Handlers, Steady
  <2>4. PICK g \in Grant, root \in Grant, told \in Nat :
          g = proc[w].g /\ root = proc[w].root /\ told = reply[w].val
    BY <2>2, ReplyFields DEF TypeOK
  <2>5. ASSUME reply'[w].kind = "ok"
        PROVE  /\ At(w, "start")' => reply'[w].val # 0 /\ Affords(g, told)'
               /\ At(w, "extend")' => reply'[w].val # 0 /\ Affords(root, told)'
               /\ Ending(w)' => proc'[w].root \in agent'.ran /\ proc'[w].root # agent'.sess
    <3>1. reply[w].kind = "ok" /\ reply'[w] = reply[w]
      BY <2>1, <2>5
    <3> QED BY <1>1, <2>1, <2>4, <3>1 DEF HandlerAffords, Steady, At, Ending
  <2>6. reply'[w].kind = "ok" => told = reply'[w].val
    BY <2>1, <2>4
  <2>7. g = proc'[w].g /\ root = proc'[w].root
    BY <2>1, <2>4
  <2>8. reply'[w].kind = "ok" =>
         /\ At(w, "start")' => reply'[w].val # 0 /\ Affords(proc[w].g, reply[w].val)'
         /\ At(w, "extend")' => reply'[w].val # 0 /\ Affords(proc[w].root, reply[w].val)'
         /\ Ending(w)' => proc'[w].root \in agent'.ran /\ proc'[w].root # agent'.sess
    BY <2>5, <2>6, <2>7 DEF Affords
  <2>9. /\ proc'[w].at \in Starting => parent'[proc'[w].g] = NoGrant
        /\ Ending(w)' => /\ parent'[proc'[w].g] \in {NoGrant, proc'[w].root}
                         /\ parent'[proc'[w].g] = NoGrant => proc'[w].root = proc'[w].g
    BY <1>1, <2>1, <2>3 DEF HandlerAffords, Ending, At
  <2> QED BY <2>8, <2>9 DEF HandlerAffords
<1> QED BY <1>2, <1>3

LEMMA CommandStaysSound ==
  ASSUME TypeOK, TypeOK', DurationInv, BudgetInv, Steady, NEW c \in cmds,
         \A w \in Worker : proc'[w].call = c.id /\ Ending(w)' =>
           proc[w].call = c.id /\ Ending(w) /\ proc'[w].root = proc[w].root
  PROVE  CommandAffords(c)'
<1>1. CommandAffords(c) /\ status[c.g] # "none" /\ c.g \in Grant
  BY DEF BudgetInv, DurationInv, CommandMatches, TypeOK, Command
<1>2. parent'[c.g] = parent[c.g]
  BY <1>1 DEF Steady
<1> QED BY <1>1, <1>2 DEF CommandAffords, Steady

LEMMA EventStaysSound ==
  ASSUME TypeOK, TypeOK', DurationInv, BudgetInv, Steady, NEW e \in wire
  PROVE  EventAffords(e)'
<1>1. EventAffords(e) /\ status[e.g] # "none" /\ e.g \in Grant /\ e.root \in OrNull /\ e.val \in Nat
  BY DEF BudgetInv, DurationInv, EventMatches, TypeOK, Event
<1>2. parent'[e.g] = parent[e.g]
  BY <1>1 DEF Steady
<1>3. e.kind \in {"started", "extended"} => e.root \in Grant /\ Affords(e.root, e.val)'
  BY <1>1 DEF EventAffords, OrNull, Steady
<1>4. e.kind \in {"ended", "expired"} => e.g \in agent'.ran /\ e.g # agent'.sess
  BY <1>1 DEF EventAffords, Steady
<1> QED BY <1>1, <1>2, <1>3, <1>4 DEF EventAffords

(* The sessions the Agent knows, when it learns of none.                    *)
LEMMA AgentStays ==
  ASSUME TypeOK, TypeOK', DurationInv, BudgetInv, Steady, UNCHANGED <<agent, now, played>>
  PROVE  AgentAffords'
<1>1. AgentAffords /\ AgentKnows
  BY DEF BudgetInv, DurationInv
<1>2. /\ agent.ran \subseteq Grant /\ agent.applied \subseteq Grant /\ agent.ends \in Nat
      /\ agent.sess \in OrNull
  BY DEF TypeOK, AgentState
<1>3. agent.sess # NoGrant => agent.sess \in Grant
  BY <1>2 DEF OrNull
<1>4. PICK s \in OrNull, ends \in Nat : s = agent.sess /\ ends = agent.ends
  BY <1>2
<1>5. s # NoGrant => ends # 0 /\ Affords(s, ends)'
  BY <1>1, <1>3, <1>4 DEF AgentAffords, Steady
<1>6. agent'.sess # NoGrant => agent'.ends # 0 /\ Affords(agent.sess, agent.ends)'
  BY <1>4, <1>5 DEF Affords
<1>7. ASSUME NEW g \in Grant
      PROVE  played'[g] <= Bought(g)' /\ (played'[g] # 0 => g \in agent'.ran)
  <2>1. played[g] \in Nat /\ Bought(g) \in Nat /\ Bought(g)' \in Nat
    BY BoughtType, BoughtTypeNext DEF TypeOK
  <2>2. played[g] <= Bought(g) /\ Bought(g) <= Bought(g)' /\ (played[g] # 0 => g \in agent.ran)
    BY <1>1 DEF AgentAffords, Steady
  <2> QED BY <2>1, <2>2
<1>8. \A g \in agent.ran : parent'[g] = NoGrant
  BY <1>1, <1>2 DEF AgentAffords, AgentKnows, Steady
<1>9. \A g \in agent.applied : parent'[g] # NoGrant /\ parent'[g] \in agent.ran
  <2>1. \A g \in agent.applied : parent[g] # NoGrant /\ parent[g] \in agent.ran /\ status[g] # "none"
    BY <1>1, <1>2 DEF AgentAffords, DurationInv, RowMatches
  <2> QED BY <1>2, <2>1 DEF Steady
<1> QED BY <1>6, <1>7, <1>8, <1>9 DEF AgentAffords

(* The steps that send nothing, once their rows are seen to.                *)
LEMMA QuietBudget ==
  ASSUME TypeOK, TypeOK', DurationInv, Handlers, BudgetInv,
         UNCHANGED <<agent, now, played>>, cmds' \subseteq cmds, wire' \subseteq wire,
         \A c \in agent.applied : core'[c] = core[c],
         \A g \in Grant : status[g] # "none" => parent'[g] = parent[g],
         \A g \in Grant : RowPlain(g) \/ (Steady => RowAffords(g)'),
         \A w \in Worker : Goes(w) \/ (HandlerAffords(w)' /\ ~ Ending(w)')
  PROVE  BudgetInv'
<1>1. Steady
  BY SteadySteps
<1>2. \A g \in Grant : RowAffords(g)'
  BY <1>1, RowStaysPlain
<1>3. \A w \in Worker : HandlerAffords(w)'
  BY <1>1, HandlerStays
<1>4. ASSUME NEW c \in cmds' PROVE CommandAffords(c)'
  <2>1. c \in cmds /\ c.id # 0
    BY DEF DurationInv, CommandMatches
  <2>2. ASSUME NEW w \in Worker, proc'[w].call = c.id, Ending(w)'
        PROVE  proc[w].call = c.id /\ Ending(w) /\ proc'[w].root = proc[w].root
    <3>1. Goes(w) /\ proc'[w].at # "idle"
      BY <2>2 DEF Ending, At
    <3> QED BY <2>1, <2>2, <3>1 DEF Goes, Follows, Kept, Idle, Ending, At
  <2> QED BY <1>1, <2>1, <2>2, CommandStaysSound
<1>5. \A e \in wire' : EventAffords(e)'
  BY <1>1, EventStaysSound
<1> QED BY <1>1, <1>2, <1>3, <1>4, <1>5, AgentStays DEF BudgetInv

-----------------------------------------------------------------------------
(* The steps of the API node that send nothing.                             *)

LEMMA ReturnGoesOn ==
  ASSUME TypeOK, NEW w \in Worker, Return(w), Take(w) \/ UNCHANGED reply
  PROVE  \A v \in Worker : Goes(v)
BY ReturnFollows, ReturnKeeps DEF Goes

LEMMA SameGoesOn ==
  ASSUME TypeOK, UNCHANGED <<proc, reply>>
  PROVE  \A v \in Worker : Goes(v)
BY ProcFollows DEF Goes, Kept

LEMMA SamePlain ==
  ASSUME TypeOK, UNCHANGED <<parent, core, planned, credited, voucher>>,
         \A g \in Grant : status'[g] \in {status[g]} \union (Status \ {"accepted"})
  PROVE  /\ \A g \in Grant : RowPlain(g)
         /\ \A c \in agent.applied : core'[c] = core[c]
         /\ \A g \in Grant : status[g] # "none" => parent'[g] = parent[g]
BY DEF RowPlain

(* A row the Agent has run, which is on record as open.                     *)
LEMMA AcceptedRan ==
  ASSUME TypeOK, DurationInv, BudgetInv, NEW g \in Grant, status[g] = "accepted"
  PROVE  g \in agent.ran /\ parent[g] = NoGrant /\ core[g] = g /\ planned[g] # 0
         /\ g \notin agent.applied
<1>1. RowAffords(g) /\ RowMatches(g)
  BY DEF BudgetInv, DurationInv
<1>2. parent[g] = NoGrant /\ core[g] = g /\ planned[g] # 0 /\ accepted[g] # 0
  BY <1>1 DEF RowAffords, RowMatches
<1>3. g \notin agent.applied
  BY <1>2 DEF BudgetInv, AgentAffords
<1> QED BY <1>1, <1>2, <1>3 DEF RowMatches

(* Handlers that give up, and repairs.                                      *)
LEMMA GivingUpBudget ==
  ASSUME TypeOK, TypeOK', DurationInv, Handlers, BudgetInv, NEW w \in Worker,
         ~ proc[w].merge,
         \/ RefundPlayerBalance(w) \/ StartError(w) \/ ExtendError(w) \/ EndError(w)
         \/ NoSessionToExtend(w) \/ Crash(w)
  PROVE  BudgetInv'
<1> USE DEF deadlines, settled, returns, netVars, dbVars
<1>1. /\ Return(w) /\ (Take(w) \/ UNCHANGED reply)
      /\ UNCHANGED <<agent, now, played, cmds, wire>>
  BY DEF RefundPlayerBalance, StartError, ExtendError, EndError, NoSessionToExtend, Crash
<1>2. \A v \in Worker : Goes(v)
  BY <1>1, ReturnGoesOn
<1>3. UNCHANGED <<parent, core, planned, credited, voucher>>
  BY DEF RefundPlayerBalance, StartError, ExtendError, EndError, NoSessionToExtend, Crash,
         Unmerge
<1>4. \A g \in Grant : status'[g] \in {status[g]} \union (Status \ {"accepted"})
  <2>1. CASE RefundPlayerBalance(w) \/ ExtendError(w)
    BY <2>1 DEF RefundPlayerBalance, ExtendError, TypeOK, Status
  <2>2. CASE StartError(w)
    BY <2>2 DEF StartError, TypeOK, Status
  <2>3. CASE EndError(w) \/ NoSessionToExtend(w) \/ Crash(w)
    BY <2>3 DEF EndError, NoSessionToExtend, Crash
  <2> QED BY <2>1, <2>2, <2>3
<1> QED BY <1>1, <1>2, <1>3, <1>4, SamePlain, QuietBudget

LEMMA RepairsBudget ==
  ASSUME TypeOK, TypeOK', DurationInv, Handlers, BudgetInv,
         Expire \/ Heartbeat \/ AgentOffline \/ LoseCommand \/ UNCHANGED vars
  PROVE  BudgetInv'
<1> USE DEF deadlines, settled, returns, netVars, dbVars, apiVars, vars
<1>1. UNCHANGED <<agent, now, played, wire, proc, reply>> /\ cmds' \subseteq cmds
  BY DEF Expire, Heartbeat, AgentOffline, LoseCommand
<1>2. UNCHANGED <<parent, core, planned, credited, voucher>>
  BY DEF Expire, Heartbeat, AgentOffline, LoseCommand
<1>3. \A g \in Grant : status'[g] \in {status[g]} \union (Status \ {"accepted"})
  BY DEF Expire, Heartbeat, AgentOffline, LoseCommand, Status
<1> QED BY <1>1, <1>2, <1>3, SameGoesOn, SamePlain, QuietBudget

(* A handler that goes on to a step without an answer.                      *)
LEMMA NextStep ==
  ASSUME TypeOK, NEW w \in Worker, NEW p, proc' = [proc EXCEPT ![w] = p], UNCHANGED reply,
         p.at \in {"picked", "merge", "send", "mark", "read"},
         p.at \in Starting => parent'[p.g] = NoGrant
  PROVE  \A v \in Worker : Goes(v) \/ (HandlerAffords(v)' /\ ~ Ending(v)')
<1>1. proc'[w] = p /\ \A v \in Worker \ {w} : Follows(v) /\ proc'[v] = proc[v]
  BY OthersFollow DEF TypeOK
<1>2. HandlerAffords(w)' /\ ~ Ending(w)'
  BY <1>1 DEF HandlerAffords, Ending, At
<1> QED BY <1>1, <1>2 DEF Goes, Kept

LEMMA LoopBudget ==
  ASSUME TypeOK, TypeOK', DurationInv, Handlers, BudgetInv,
         \A w \in Worker : ~ proc'[w].merge, SyncLoop
  PROVE  BudgetInv'
<1> USE DEF deadlines, settled, returns, netVars, dbVars
<1>0. Sync \in Worker
  BY GrantAssumption
<1>1. ~ SyncMerge
  <2> SUFFICES ASSUME SyncMerge PROVE FALSE
    OBVIOUS
  <2>1. parent[proc[Sync].g] = NoGrant
    BY DEF SyncMerge, Handlers, Starting, At
  <2>2. proc' = [proc EXCEPT ![Sync].at = "mark", ![Sync].merge = TRUE]
    BY <2>1 DEF SyncMerge
  <2>3. proc[Sync] \in Busy
    BY <1>0, AtBusy DEF SyncMerge, Step
  <2>4. proc'[Sync].merge = TRUE
    BY <1>0, <2>2, <2>3 DEF TypeOK, Busy
  <2> QED BY <1>0, <2>4
<1>2. UNCHANGED <<now, status, parent, core, planned, credited, voucher, reply, cmds,
                  wire, agent, played>>
  BY <1>1 DEF SyncLoop, SyncLookup, SyncPick, SyncExtend
<1>3. \E p : /\ proc' = [proc EXCEPT ![Sync] = p]
             /\ p.at \in {"picked", "merge", "send", "mark", "read"}
             /\ p.at \in Starting => parent'[p.g] = NoGrant
  <2>1. CASE SyncLookup
    <3>1. proc[Sync] \in Busy /\ parent[proc[Sync].g] = NoGrant
      BY <1>0, <2>1, AtBusy DEF SyncLookup, Handlers, Starting, At, Step
    <3>2. CASE Goto(Sync, "send")
      <4>1. PICK p : p = [proc[Sync] EXCEPT !.at = "send"]
        OBVIOUS
      <4>2. proc' = [proc EXCEPT ![Sync] = p]
        BY <3>2, <4>1 DEF Goto
      <4>3. p.at = "send" /\ p.g = proc[Sync].g
        BY <3>1, <4>1 DEF Busy
      <4> QED BY <1>2, <3>1, <4>2, <4>3
    <3>3. ASSUME NEW root \in Grant,
                 proc' = [proc EXCEPT ![Sync].at = "merge", ![Sync].root = root]
          PROVE  \E p : /\ proc' = [proc EXCEPT ![Sync] = p]
                        /\ p.at \in {"picked", "merge", "send", "mark", "read"}
                        /\ p.at \in Starting => parent'[p.g] = NoGrant
      <4>1. PICK p : p = [proc[Sync] EXCEPT !.at = "merge", !.root = root]
        OBVIOUS
      <4>2. proc' = [proc EXCEPT ![Sync] = p]
        BY <1>0, <3>3, <4>1 DEF TypeOK
      <4>3. p.at = "merge" /\ p.g = proc[Sync].g
        BY <3>1, <4>1 DEF Busy
      <4> QED BY <1>2, <3>1, <4>2, <4>3
    <3> QED BY <2>1, <3>2, <3>3 DEF SyncLookup
  <2>2. ASSUME NEW g \in Grant, SyncPick(g)
        PROVE  \E p : /\ proc' = [proc EXCEPT ![Sync] = p]
                      /\ p.at \in {"picked", "merge", "send", "mark", "read"}
                      /\ p.at \in Starting => parent'[p.g] = NoGrant
    <3>1. PICK p : p = [Idle EXCEPT !.at = "picked", !.g = g, !.root = g]
      OBVIOUS
    <3>2. p.at = "picked" /\ p.g = g
      BY <3>1 DEF Idle
    <3> QED BY <1>2, <2>2, <3>1, <3>2 DEF SyncPick
  <2>3. ASSUME NEW g \in Grant, SyncExtend(g)
        PROVE  \E p : /\ proc' = [proc EXCEPT ![Sync] = p]
                      /\ p.at \in {"picked", "merge", "send", "mark", "read"}
                      /\ p.at \in Starting => parent'[p.g] = NoGrant
    <3>1. PICK root \in Grant : proc' = [proc EXCEPT ![Sync] =
              [Idle EXCEPT !.at = "mark", !.g = g, !.root = root]]
      BY <2>3 DEF SyncExtend
    <3>2. PICK p : p = [Idle EXCEPT !.at = "mark", !.g = g, !.root = root]
      OBVIOUS
    <3>3. p.at = "mark"
      BY <3>2 DEF Idle
    <3> QED BY <3>1, <3>2, <3>3 DEF Starting
  <2> QED BY <1>1, <2>1, <2>2, <2>3 DEF SyncLoop
<1>4. \A v \in Worker : Goes(v) \/ (HandlerAffords(v)' /\ ~ Ending(v)')
  BY <1>0, <1>2, <1>3, NextStep
<1> QED BY <1>2, <1>4, SamePlain, QuietBudget

LEMMA ClaimBudget ==
  ASSUME TypeOK, TypeOK', DurationInv, Handlers, BudgetInv, NEW w \in Worker, MarkApplying(w)
  PROVE  BudgetInv'
<1> USE DEF deadlines, settled, returns, netVars
<1>1. UNCHANGED <<now, parent, core, planned, credited, voucher, reply, cmds, wire,
                  agent, played>>
  BY DEF MarkApplying
<1>2. \A g \in Grant : status'[g] \in {status[g]} \union (Status \ {"accepted"})
  BY DEF MarkApplying, TypeOK, Status
<1>3. \A v \in Worker : Goes(v) \/ (HandlerAffords(v)' /\ ~ Ending(v)')
  <2>1. CASE Return(w)
    BY <1>1, <2>1, ReturnGoesOn
  <2>2. CASE Goto(w, "read")
    <3>1. PICK p : p = [proc[w] EXCEPT !.at = "read"]
      OBVIOUS
    <3>2. proc' = [proc EXCEPT ![w] = p]
      BY <2>2, <3>1 DEF Goto
    <3>3. p.at = "read"
      BY <3>1, AtBusy DEF MarkApplying, Busy, Step
    <3> QED BY <1>1, <3>2, <3>3, NextStep DEF Starting
  <2> QED BY <2>1, <2>2 DEF MarkApplying
<1> QED BY <1>1, <1>2, <1>3, SamePlain, QuietBudget

-----------------------------------------------------------------------------
(* The steps of the API node and the events that open a session, move its   *)
(* end, or end it.                                                          *)

LEMMA RowOpens ==
  ASSUME TypeOK, TypeOK', BudgetInv, Steady, NEW g \in Grant, NEW end \in Nat,
         g \in agent.ran, end # 0, Affords(g, end), UNCHANGED <<parent, credited, voucher>>,
         status'[g] = "accepted", core'[g] = g, planned'[g] = end
  PROVE  RowAffords(g)'
<1>1. parent'[g] = NoGrant
  BY DEF BudgetInv, AgentAffords
<1>2. Affords(g, end)'
  BY DEF Steady
<1>3. Affords(g, planned[g])'
  BY <1>2 DEF Affords
<1> QED BY <1>1, <1>3, CreditStays DEF RowAffords

LEMMA OpenBudget ==
  ASSUME TypeOK, TypeOK', DurationInv, Handlers, BudgetInv, NEW g \in Grant, NEW end \in Nat,
         g \in agent.ran, end # 0, Affords(g, end),
         UNCHANGED <<agent, now, played, parent, credited, voucher>>, cmds' \subseteq cmds,
         wire' \subseteq wire, \A w \in Worker : Goes(w),
         status' = [status EXCEPT ![g] = "accepted"], core' = [core EXCEPT ![g] = g],
         planned' = [planned EXCEPT ![g] = end]
  PROVE  BudgetInv'
<1>1. status'[g] = "accepted" /\ core'[g] = g /\ planned'[g] = end
  BY DEF TypeOK
<1>2. Steady => RowAffords(g)'
  BY <1>1, RowOpens
<1>3. \A x \in Grant : x # g => RowPlain(x)
  BY DEF RowPlain, TypeOK
<1>4. g \notin agent.applied /\ agent.applied \subseteq Grant
  BY DEF DurationInv, AgentKnows, TypeOK, AgentState
<1>5. \A c \in agent.applied : core'[c] = core[c]
  BY <1>3, <1>4 DEF RowPlain
<1> QED BY <1>2, <1>3, <1>5, QuietBudget

LEMMA StartOkBudget ==
  ASSUME TypeOK, TypeOK', DurationInv, Handlers, BudgetInv, Reports = "deadline",
         NEW w \in Worker, StartOk(w)
  PROVE  BudgetInv'
<1> USE DEF deadlines, settled, returns, netVars
<1>1. PICK g, end : g = proc[w].g /\ end = reply[w].val
  OBVIOUS
<1>2. At(w, "start") /\ reply[w].kind = "ok" /\ g \in Grant /\ end \in Nat
  BY <1>1, AtBusy, BusyFields, ReplyFields DEF StartOk, HasReply, Step, At, TypeOK
<1>3. g \in agent.ran
  BY <1>1, <1>2 DEF DurationInv, HandlerHeard
<1>4. end # 0 /\ Affords(g, end)
  BY <1>1, <1>2 DEF BudgetInv, HandlerAffords
<1>5. /\ UNCHANGED <<agent, now, played, parent, credited, voucher, cmds, wire>>
      /\ Return(w) /\ Take(w)
  BY DEF StartOk
<1>6. /\ status' = [status EXCEPT ![g] = "accepted"] /\ core' = [core EXCEPT ![g] = g]
      /\ planned' = [planned EXCEPT ![g] = end]
  BY <1>1 DEF StartOk
<1>7. \A v \in Worker : Goes(v)
  BY <1>5, ReturnGoesOn
<1> QED BY <1>2, <1>3, <1>4, <1>5, <1>6, <1>7, OpenBudget

LEMMA ExtendOkBudget ==
  ASSUME TypeOK, TypeOK', DurationInv, Handlers, BudgetInv, Reports = "deadline",
         NEW w \in Worker, ~ proc[w].merge, ExtendOk(w)
  PROVE  BudgetInv'
<1> USE DEF deadlines, settled, returns, netVars
<1>1. PICK g, root, end : g = proc[w].g /\ root = proc[w].root /\ end = reply[w].val
  OBVIOUS
<1>2. /\ At(w, "extend") /\ reply[w].kind = "ok"
      /\ g \in Grant /\ root \in Grant /\ end \in Nat
  BY <1>1, AtBusy, BusyFields, ReplyFields DEF ExtendOk, HasReply, Step, At, TypeOK
<1>3. /\ UNCHANGED <<agent, now, played, parent, credited, voucher, cmds, wire>>
      /\ Return(w) /\ Take(w)
  BY DEF ExtendOk, Unmerge
<1>4. \A v \in Worker : Goes(v)
  BY <1>3, ReturnGoesOn
<1>5. CASE status[g] # "applying"
  <2>1. UNCHANGED <<core, planned, status>>
    BY <1>1, <1>5 DEF ExtendOk, Unmerge
  <2> QED BY <1>3, <1>4, <2>1, SamePlain, QuietBudget
<1>6. CASE status[g] = "applying"
  <2>1. end # 0 /\ Affords(root, end)
    BY <1>1, <1>2 DEF BudgetInv, HandlerAffords
  <2>2. parent[g] = root /\ root # g /\ root # NoGrant
    BY <1>1, <1>2, GrantAssumption DEF Handlers, Claiming, At
  <2>3. core[g] = root /\ parent[root] = NoGrant
    BY <1>2, <2>2 DEF BudgetInv, RowAffords
  <2>4. ReportedDeadline(end, proc[w].kept) = end
    BY <2>1 DEF ReportedDeadline
  <2>5. /\ status' = [status EXCEPT ![g] = "extended"] /\ core' = [core EXCEPT ![g] = root]
        /\ planned' = [planned EXCEPT ![root] = end, ![g] = end]
    BY <1>1, <1>6, <2>4 DEF ExtendOk
  <2>6. /\ UNCHANGED core /\ status'[g] = "extended" /\ planned'[root] = end
        /\ \A x \in Grant : x # g => status'[x] = status[x]
        /\ \A x \in Grant : x # g /\ x # root => planned'[x] = planned[x]
    BY <1>2, <2>2, <2>3, <2>5 DEF TypeOK
  <2>7. \A x \in Grant : x # g /\ x # root => RowPlain(x)
    BY <1>3, <2>6 DEF RowPlain
  <2>8. Steady => RowAffords(g)'
    BY <1>2, <1>3, <2>2, <2>3, <2>6, CreditStays DEF RowAffords
  <2>9. Steady => RowAffords(root)'
    <3> SUFFICES ASSUME Steady PROVE RowAffords(root)'
      OBVIOUS
    <3>1. Affords(root, end)'
      BY <1>2, <2>1 DEF Steady
    <3>2. Affords(root, planned[root])'
      BY <2>6, <3>1 DEF Affords
    <3>3. RowAffords(root)
      BY <1>2 DEF BudgetInv
    <3> QED BY <1>2, <1>3, <2>1, <2>2, <2>3, <2>6, <3>2, <3>3, CreditStays DEF RowAffords
  <2> QED BY <1>3, <1>4, <2>6, <2>7, <2>8, <2>9, QuietBudget
<1> QED BY <1>5, <1>6

LEMMA RedeemBudget ==
  ASSUME TypeOK, TypeOK', DurationInv, Handlers, BudgetInv, NEW w \in Worker,
         NEW g \in Grant, RedeemStart(w, g) \/ RedeemExtend(w, g)
  PROVE  BudgetInv'
<1> USE DEF deadlines, settled, returns, netVars
<1>1. /\ status[g] = "none" /\ status' = [status EXCEPT ![g] = "pending"]
      /\ UNCHANGED <<planned, credited, voucher, reply, agent, cmds, wire, now, played>>
  BY DEF RedeemStart, RedeemExtend
<1>2. parent[g] = NoGrant
  BY <1>1 DEF DurationInv, RowMatches
<1>3. \A x \in Grant : status'[x] \in {status[x]} \union (Status \ {"accepted"})
  BY <1>1 DEF TypeOK, Status
<1>4. CASE RedeemStart(w, g)
  <2>1. PICK q : q = [Idle EXCEPT !.at = "send", !.g = g, !.root = g]
    OBVIOUS
  <2>2. q.at = "send" /\ q.g = g
    BY <2>1 DEF Idle
  <2>3. proc' = [proc EXCEPT ![w] = q] /\ UNCHANGED <<parent, core>>
    BY <1>4, <2>1 DEF RedeemStart
  <2>4. \A v \in Worker : Goes(v) \/ (HandlerAffords(v)' /\ ~ Ending(v)')
    BY <1>1, <1>2, <2>2, <2>3, NextStep
  <2> QED BY <1>1, <1>3, <2>3, <2>4, SamePlain, QuietBudget
<1>5. CASE RedeemExtend(w, g)
  <2>1. PICK root \in Grant :
          /\ status[root] = "accepted" /\ parent' = [parent EXCEPT ![g] = root]
          /\ core' = [core EXCEPT ![g] = core[root]]
          /\ proc' = [proc EXCEPT ![w] = [Idle EXCEPT !.at = "mark", !.g = g, !.root = root]]
    BY <1>5 DEF RedeemExtend, IsActiveGrantForPC, ActiveGrants
  <2>2. parent[root] = NoGrant /\ core[root] = root /\ root # g /\ root # NoGrant
    BY <1>1, <2>1, AcceptedRan, GrantAssumption
  <2>3. /\ parent'[g] = root /\ core'[g] = root /\ status'[g] = "pending"
        /\ parent'[root] = NoGrant
        /\ \A x \in Grant : x # g => parent'[x] = parent[x] /\ core'[x] = core[x]
    BY <1>1, <2>1, <2>2 DEF TypeOK
  <2>4. PICK q : q = [Idle EXCEPT !.at = "mark", !.g = g, !.root = root]
    OBVIOUS
  <2>5. q.at = "mark" /\ proc' = [proc EXCEPT ![w] = q]
    BY <2>1, <2>4 DEF Idle
  <2>6. \A v \in Worker : Goes(v) \/ (HandlerAffords(v)' /\ ~ Ending(v)')
    BY <1>1, <2>5, NextStep DEF Starting
  <2>7. \A x \in Grant : x # g => RowPlain(x)
    BY <1>1, <1>3, <2>3 DEF RowPlain
  <2>8. Steady => RowAffords(g)'
    BY <1>1, <2>2, <2>3, CreditStays DEF RowAffords
  <2>9. \A c \in agent.applied : core'[c] = core[c]
    <3>1. g \notin agent.applied /\ agent.applied \subseteq Grant
      BY <1>2 DEF BudgetInv, AgentAffords, TypeOK, AgentState
    <3> QED BY <2>3, <3>1
  <2>10. \A x \in Grant : status[x] # "none" => parent'[x] = parent[x]
    BY <1>1, <2>3
  <2> QED BY <1>1, <2>6, <2>7, <2>8, <2>9, <2>10, QuietBudget
<1> QED BY <1>4, <1>5

(* What is given back at the end of a session is still affordable.          *)
LEMMA FinishAffords ==
  ASSUME TypeOK, TypeOK', BudgetInv, DurationInv, OneChannel, NEW grant \in Grant, NEW told \in Nat,
         FinishGrant(grant, told), UNCHANGED <<agent, now, played>>,
         \A g \in Grant : g \in {grant, parent[grant]} /\ status[g] = "accepted" => agent.sess # g
  PROVE  /\ UNCHANGED <<parent, core>>
         /\ \A x \in Grant : RowPlain(x) \/ (Steady => RowAffords(x)')
<1> USE DEF deadlines, settled, returns
<1>1. PICK g : g = IF parent[grant] = NoGrant THEN grant ELSE parent[grant]
  OBVIOUS
<1>2. g \in Grant /\ (status[g] = "accepted" => agent.sess # g)
  BY <1>1 DEF TypeOK, OrNull
<1>3. CASE status[g] # "accepted"
  <2>1. UNCHANGED dbVars
    BY <1>1, <1>3 DEF FinishGrant
  <2> QED BY <2>1 DEF dbVars, RowPlain
<1>4. CASE status[g] = "accepted"
  <2>1. PICK left, children :
          /\ left = BoundedSessionRemainder(TimeLeft(g), told)
          /\ children = {c \in Grant : /\ parent[c] = g
                                       /\ status[c] \in {"pending", "extended"}}
    OBVIOUS
  <2>2. /\ status' = [x \in Grant |->
                        IF x = g \/ x \in children THEN "ended" ELSE status[x]]
        /\ credited' = IF left > 0 /\ g \in owned /\ credited[g] = 0
                       THEN [credited EXCEPT ![g] = left] ELSE credited
        /\ voucher' = IF left > 0 /\ g \notin owned /\ voucher[g] = 0
                      THEN [voucher EXCEPT ![g] = left] ELSE voucher
        /\ UNCHANGED <<parent, core, planned>>
    BY <1>1, <1>4, <2>1 DEF FinishGrant
  <2>3. \A x \in Grant : status'[x] \in {status[x], "ended"}
    BY <2>2
  <2>4. \A x \in Grant : x # g => /\ credited'[x] = credited[x]
                                  /\ voucher'[x] = voucher[x]
    BY <2>2 DEF TypeOK
  <2>5. \A x \in Grant : x # g => RowPlain(x)
    BY <2>2, <2>3, <2>4 DEF RowPlain, Status
  <2>6. CASE ~ (left > 0 /\ Back(g) = 0)
    <3>1. ~ (left > 0) \/ credited[g] # 0 \/ voucher[g] # 0
      BY <1>2, <2>6 DEF Back
    <3>2. credited'[g] = credited[g] /\ voucher'[g] = voucher[g]
      BY <1>2, <2>2, <3>1 DEF OneChannel, CreditOwned, OwnersInTime, LateOwner
    <3>3. RowPlain(g)
      BY <1>2, <2>2, <2>3, <3>2 DEF RowPlain, Status
    <3> QED BY <2>2, <2>5, <3>3
  <2>7. CASE left > 0 /\ Back(g) = 0
    <3>1. g \in agent.ran /\ parent[g] = NoGrant /\ core[g] = g /\ planned[g] # 0
      BY <1>2, <1>4, AcceptedRan
    <3>2. PICK end \in Nat : end = planned[g]
      BY <1>2 DEF TypeOK
    <3>3. Affords(g, end)
      BY <1>2, <3>1, <3>2 DEF BudgetInv, RowAffords
    <3>4. now \in Nat /\ played[g] \in Nat /\ Bought(g) \in Nat
      BY <1>2, BoughtType DEF TypeOK
    <3>5. TimeLeft(g) = Larger(end - now, 0)
      BY <3>1, <3>2 DEF TimeLeft, Deadline
    <3>6. left \in Nat /\ left <= end - now
      BY <2>1, <2>7, <3>2, <3>4, <3>5 DEF BoundedSessionRemainder, Larger
    <3>7. played[g] + left <= Bought(g)
      BY <3>3, <3>4, <3>6 DEF Affords
    <3>8. Back(g)' = left
      <4>1. credited[g] = 0 /\ voucher[g] = 0
        BY <1>2, <2>7 DEF TypeOK, Back
      <4>2. \/ credited'[g] = left /\ voucher'[g] = 0
            \/ credited'[g] = 0 /\ voucher'[g] = left
        BY <1>2, <2>2, <2>7, <4>1 DEF TypeOK
      <4> QED BY <3>6, <4>2 DEF Back
    <3>9. status'[g] = "ended"
      BY <1>2, <2>2
    <3>10. ASSUME Steady PROVE RowAffords(g)'
      <4>1. Affords(g, end)' /\ Bought(g) <= Bought(g)' /\ Bought(g)' \in Nat
        BY <1>2, <3>3, <3>10, BoughtTypeNext DEF Steady
      <4>2. Affords(g, planned[g])'
        BY <2>2, <3>2, <4>1 DEF Affords
      <4>3. played'[g] + Back(g)' <= Bought(g)'
        BY <3>4, <3>6, <3>7, <3>8, <4>1
      <4>4. g \in agent'.ran /\ g # agent'.sess
        BY <1>2, <1>4, <3>1
      <4> QED BY <2>2, <3>1, <3>9, <4>2, <4>3, <4>4 DEF RowAffords
    <3> QED BY <2>2, <2>5, <3>10
  <2> QED BY <2>6, <2>7
<1> QED BY <1>3, <1>4

LEMMA FinishBudget ==
  ASSUME TypeOK, TypeOK', BudgetInv, DurationInv, Handlers, OneChannel,
         NEW grant \in Grant, NEW told \in Nat,
         FinishGrant(grant, told), UNCHANGED <<agent, now, played>>,
         \A g \in Grant : g \in {grant, parent[grant]} /\ status[g] = "accepted" => agent.sess # g,
         cmds' \subseteq cmds, wire' \subseteq wire, \A w \in Worker : Goes(w)
  PROVE  BudgetInv'
<1>1. /\ UNCHANGED <<parent, core>>
      /\ \A x \in Grant : RowPlain(x) \/ (Steady => RowAffords(x)')
  BY FinishAffords
<1> QED BY <1>1, QuietBudget

LEMMA EndOkBudget ==
  ASSUME TypeOK, TypeOK', DurationInv, Handlers, BudgetInv, OneChannel, NEW w \in Worker, EndOk(w)
  PROVE  BudgetInv'
<1> USE DEF netVars
<1>1. Ending(w) /\ reply[w].kind = "ok" /\ Return(w) /\ Take(w)
      /\ UNCHANGED <<now, cmds, wire, agent, played>>
  BY DEF EndOk, Ending, HasReply
<1>2. proc[w].g \in Grant /\ proc[w].root \in Grant /\ proc[w].kept \in Nat
      /\ reply[w].val \in Nat
  BY <1>1, AtBusy, BusyFields, ReplyFields DEF Ending, Step, At, TypeOK
<1>3. PICK told \in Nat : FinishGrant(proc[w].g, told)
  BY <1>2 DEF EndOk
<1>4. /\ parent[proc[w].g] \in {NoGrant, proc[w].root}
      /\ parent[proc[w].g] = NoGrant => proc[w].root = proc[w].g
      /\ proc[w].root # agent.sess /\ proc[w].root \in agent.ran
  BY <1>1 DEF BudgetInv, HandlerAffords
<1>5. ASSUME NEW x \in Grant, x \in {proc[w].g, parent[proc[w].g]}, status[x] = "accepted"
      PROVE  agent.sess # x
  <2>1. parent[x] = NoGrant /\ x # NoGrant
    BY <1>5, AcceptedRan, GrantAssumption
  <2> QED BY <1>4, <1>5, <2>1
<1>7. \A v \in Worker : Goes(v)
  BY <1>1, ReturnGoesOn
<1> QED BY <1>1, <1>2, <1>3, <1>5, <1>7, FinishBudget

LEMMA AdminEndNothing ==
  ASSUME TypeOK, DurationInv, BudgetInv, NEW w \in Worker, NEW g \in Grant,
         AdminEnd(w, g), core[g] = NoGrant
  PROVE  UNCHANGED vars
<1>1. PICK told : FinishGrant(g, told) /\ UNCHANGED <<apiVars, calls, cmds>>
  BY DEF AdminEnd
<1>2. UNCHANGED <<now, wire, agent, played>>
  BY DEF AdminEnd
<1>3. parent[g] = NoGrant
  BY DEF BudgetInv, RowAffords
<1>4. status[g] # "accepted"
  BY AcceptedRan, GrantAssumption
<1>5. UNCHANGED dbVars
  BY <1>1, <1>3, <1>4 DEF FinishGrant
<1> QED BY <1>1, <1>2, <1>5 DEF vars, netVars

LEMMA EventBudget ==
  ASSUME TypeOK, TypeOK', DurationInv, Handlers, BudgetInv, OneChannel, CoreEvent
  PROVE  BudgetInv'
<1> USE DEF deadlines, settled, returns
<1>1. PICK e \in wire : EventStarted(e) \/ EventExtended(e) \/ EventEnded(e) \/ EventFailed(e)
  BY DEF CoreEvent
<1>2. /\ UNCHANGED <<proc, reply, agent, calls, cmds, now, played>> /\ wire' \subseteq wire
      /\ e.g \in Grant /\ e.root \in OrNull /\ e.val \in Nat /\ EventMatches(e) /\ EventAffords(e)
  BY <1>1 DEF EventStarted, EventExtended, EventEnded, EventFailed, Receive, apiVars, TypeOK,
              Event, BudgetInv, DurationInv
<1>3. \A v \in Worker : Goes(v)
  BY <1>2, SameGoesOn
<1>4. CASE EventStarted(e)
  <2>1. e.kind = "started"
    BY <1>4 DEF EventStarted, Receive
  <2>2. e.root = e.g /\ e.val # 0 /\ Affords(e.g, e.val) /\ e.g \in agent.ran
    BY <1>2, <2>1 DEF EventAffords, EventMatches
  <2>3. /\ status' = [status EXCEPT ![e.g] = "accepted"] /\ core' = [core EXCEPT ![e.g] = e.g]
        /\ planned' = [planned EXCEPT ![e.g] = e.val]
        /\ UNCHANGED <<parent, credited, voucher>>
    BY <1>4, <2>2 DEF EventStarted
  <2> QED BY <1>2, <1>3, <2>2, <2>3, OpenBudget
<1>5. CASE EventExtended(e)
  <2>1. e.kind = "extended"
    BY <1>5 DEF EventExtended, Receive
  <2>2. /\ e.root # NoGrant /\ e.val # 0 /\ Affords(e.root, e.val) /\ parent[e.g] = e.root
        /\ e.root \in Grant
    BY <1>2, <2>1 DEF EventAffords, OrNull
  <2>3. core[e.g] = e.root
    BY <1>2, <2>2 DEF BudgetInv, RowAffords
  <2>4. \A x \in RowsOf(e) : core[x] = e.root
    BY <2>3 DEF RowsOf
  <2>5. /\ UNCHANGED <<status, parent, credited, voucher>>
        /\ core' = [g \in Grant |-> IF g \in RowsOf(e) THEN e.root ELSE core[g]]
        /\ planned' = [g \in Grant |-> IF g \in RowsOf(e) THEN e.val ELSE planned[g]]
    BY <1>5, <2>2 DEF EventExtended
  <2>6. \A x \in Grant : core'[x] = core[x]
    BY <2>4, <2>5
  <2>7. \A x \in Grant : x \notin RowsOf(e) => RowPlain(x)
    BY <2>5, <2>6 DEF RowPlain
  <2>8. ASSUME NEW x \in Grant, x \in RowsOf(e), Steady PROVE RowAffords(x)'
    <3>1. RowAffords(x)
      BY DEF BudgetInv
    <3>2. planned'[x] = e.val
      BY <2>5, <2>8
    <3>3. CASE parent[x] = NoGrant
      <4>1. x = e.root
        BY <2>2, <2>4, <2>8, <3>1, <3>3 DEF RowAffords
      <4>2. Affords(e.root, e.val)'
        BY <1>2, <2>2, <2>8 DEF Steady
      <4>3. Affords(x, planned[x])'
        <5>1. PICK r, end : r = e.root /\ end = e.val
          OBVIOUS
        <5>2. Affords(r, end)'
          BY <1>2, <2>2, <2>8, <5>1 DEF Steady
        <5> QED BY <3>2, <4>1, <5>1, <5>2 DEF Affords
      <4> QED BY <2>2, <2>5, <2>6, <3>1, <3>2, <3>3, <4>3, CreditStays, <2>8 DEF RowAffords
    <3>4. CASE parent[x] # NoGrant
      BY <2>5, <2>6, <2>8, <3>1, <3>4, CreditStays DEF RowAffords
    <3> QED BY <3>3, <3>4
  <2>9. agent.applied \subseteq Grant
    BY DEF TypeOK, AgentState
  <2> QED BY <1>2, <1>3, <2>5, <2>6, <2>7, <2>8, <2>9, QuietBudget
<1>6. CASE EventEnded(e)
  <2>1. e.kind \in {"ended", "expired"}
    BY <1>6 DEF EventEnded, Receive
  <2>2. e.root = e.g /\ e.g \in agent.ran /\ e.g # agent.sess
    BY <1>2, <2>1 DEF EventAffords
  <2>3. PICK g \in Grant, told \in Nat : FinishGrant(g, told) /\ g = e.g
    <3>1. \A x \in Grant : status[x] = "accepted" => core[x] = x
      BY AcceptedRan
    <3>2. \E told : FinishGrant(e.g, told) /\ told \in {TimeLeft(e.g), e.val}
      BY <1>6, <2>2, <3>1 DEF EventEnded
    <3>3. TimeLeft(e.g) \in Nat
      BY <1>2 DEF TimeLeft, Larger, Deadline, TypeOK
    <3> QED BY <1>2, <3>2, <3>3
  <2>4. parent[g] = NoGrant
    BY <2>2, <2>3 DEF BudgetInv, AgentAffords
  <2>5. \A x \in Grant : x \in {g, parent[g]} /\ status[x] = "accepted" => agent.sess # x
    BY <2>2, <2>3, <2>4, GrantAssumption
  <2> QED BY <1>2, <1>3, <2>3, <2>5, FinishBudget
<1>7. CASE EventFailed(e)
  <2>1. /\ UNCHANGED <<parent, core, planned, credited, voucher>>
        /\ status' = [g \in Grant |-> IF g \in RowsOf(e) THEN "start_failed" ELSE status[g]]
    BY <1>7 DEF EventFailed
  <2>2. \A x \in Grant : status'[x] \in {status[x]} \union (Status \ {"accepted"})
    BY <2>1 DEF Status
  <2> QED BY <1>2, <1>3, <2>1, <2>2, SamePlain, QuietBudget
<1> QED BY <1>1, <1>4, <1>5, <1>6, <1>7

-----------------------------------------------------------------------------
(* The steps of the API node that send a command.                           *)

LEMMA DispatchBudget ==
  ASSUME TypeOK, TypeOK', DurationInv, Handlers, BudgetInv,
         UNCHANGED <<agent, wire, dbVars, now, played>>,
         NEW w \in Worker, NEW op, NEW step, NEW p, NEW add, Dispatch(w, op, step, p, add),
         NEW sent, sent = Sent(p, step, calls + 1), sent.at = step, sent.g = p.g,
         sent.root = p.root, sent.call = calls + 1,
         \/ /\ op = "start" /\ step = "start"
            /\ parent[p.g] = NoGrant /\ (p.g \notin agent.ran => add = Dur[p.g])
         \/ /\ op = "extend" /\ step = "extend"
            /\ parent[p.g] = p.root /\ add = Dur[p.g]
         \/ /\ op = "end" /\ step \in {"admin_end", "kiosk_end"}
            /\ parent[p.g] \in {NoGrant, p.root} /\ (parent[p.g] = NoGrant => p.root = p.g)
  PROVE  BudgetInv'
<1> USE DEF dbVars, deadlines, settled, returns
<1>1. PICK new : new = [id |-> calls + 1, op |-> op, g |-> p.g, root |-> p.root, add |-> add]
  OBVIOUS
<1>2. /\ proc'[w] = sent /\ reply'[w] = NoReply
      /\ \A v \in Worker \ {w} : Goes(v)
  BY DispatchFollows, DispatchKeeps DEF Goes
<1>3. calls' = calls + 1 /\ cmds' = cmds \union {new} /\ calls \in Nat
  BY <1>1 DEF Dispatch, TypeOK
<1>4. new.id = calls + 1 /\ new.op = op /\ new.g = p.g /\ new.root = p.root /\ new.add = add
  BY <1>1
<1>5. Steady /\ \A g \in Grant : RowAffords(g)'
  BY SamePlain, SteadySteps, RowStaysPlain
<1>6. HandlerAffords(w)'
  BY <1>2 DEF HandlerAffords, Starting, Ending, At, NoReply
<1>7. \A v \in Worker \ {w} : HandlerAffords(v)'
  BY <1>2, <1>5, HandlerStays
<1>8. ASSUME NEW c \in cmds PROVE CommandAffords(c)'
  <2>1. c.id # calls + 1 /\ c.id # 0
    <3>1. 0 < c.id /\ c.id <= calls /\ c.id \in Nat
      BY DEF DurationInv, CommandMatches, TypeOK, Command
    <3> QED BY <1>3, <3>1
  <2>2. ASSUME NEW v \in Worker, proc'[v].call = c.id, Ending(v)'
        PROVE  proc[v].call = c.id /\ Ending(v) /\ proc'[v].root = proc[v].root
    <3>1. v # w
      BY <1>2, <2>1, <2>2
    <3>2. Goes(v) /\ proc'[v].at # "idle"
      BY <1>2, <2>2, <3>1 DEF Ending, At
    <3> QED BY <2>1, <2>2, <3>2 DEF Goes, Follows, Kept, Idle, Ending, At
  <2> QED BY <1>5, <2>2, CommandStaysSound
<1>9. CommandAffords(new)'
  <2>1. ASSUME NEW v \in Worker, proc'[v].call = new.id PROVE v = w
    <3> SUFFICES ASSUME v # w PROVE FALSE
      OBVIOUS
    <3>1. proc'[v].call = calls + 1 /\ proc'[v].call # 0
      BY <1>3, <1>4, <2>1
    <3>2. proc'[v].call = proc[v].call
      BY <1>2, <3>1 DEF Goes, Follows
    <3>3. proc[v].call <= calls
      BY DEF DurationInv, HandlerHeard
    <3> QED BY <1>3, <3>1, <3>2, <3>3
  <2>2. Ending(w)' => new.op = "end" /\ new.root = proc'[w].root
    BY <1>2, <1>4 DEF Ending, At
  <2>3. \A v \in Worker : proc'[v].call = new.id /\ Ending(v)' =>
          new.op = "end" /\ new.root = proc'[v].root
    BY <2>1, <2>2
  <2> QED BY <1>4, <2>3 DEF CommandAffords
<1>10. \A c \in cmds' : CommandAffords(c)'
  BY <1>3, <1>8, <1>9
<1>11. \A e \in wire' : EventAffords(e)'
  BY <1>5, EventStaysSound
<1> QED BY <1>5, <1>6, <1>7, <1>10, <1>11, AgentStays DEF BudgetInv

LEMMA SendStartBudget ==
  ASSUME TypeOK, TypeOK', DurationInv, Handlers, BudgetInv, NEW w \in Worker, SendStart(w)
  PROVE  BudgetInv'
<1> DEFINE p == Keeping(proc[w], now + Dur[proc[w].g])
           sent == Sent(p, "start", calls + 1)
<1>1. proc[w] \in Busy /\ proc[w].at = "send"
  BY AtBusy DEF SendStart, Step, At
<1>2. proc[w].g \in Grant /\ status[proc[w].g] # "none" /\ parent[proc[w].g] = NoGrant
  BY <1>1, BusyFields DEF Handlers, BudgetInv, HandlerAffords, Starting
<1>3. ASSUME proc[w].g \notin agent.ran PROVE dur[proc[w].g] = Dur[proc[w].g]
  <2>1. Recorded(proc[w].g) = {}
    BY <1>3 DEF Recorded, BudgetInv, AgentAffords
  <2>2. dur[proc[w].g] = Dur[proc[w].g] + Sum({}, Dur)
    BY <1>2, <2>1 DEF DurationInv, Durations
  <2>3. Sum({}, Dur) = 0 /\ Dur[proc[w].g] \in Nat
    BY <1>2, SumEmpty, GrantAssumption
  <2> QED BY <2>2, <2>3
<1>4. p.g = proc[w].g /\ p.root = proc[w].root
  BY <1>1 DEF Busy, Keeping
<1>5. sent.at = "start" /\ sent.g = p.g /\ sent.root = p.root /\ sent.call = calls + 1
  BY <1>1 DEF Busy, Keeping, Sent
<1>6. Dispatch(w, "start", "start", p, dur[proc[w].g])
  BY DEF SendStart, Keeping
<1>7. UNCHANGED <<now, agent, played, wire, dbVars>>
  BY DEF SendStart
<1>8. parent[p.g] = NoGrant /\ (p.g \notin agent.ran => dur[proc[w].g] = Dur[p.g])
  BY <1>2, <1>3, <1>4
<1>9. sent = Sent(p, "start", calls + 1)
  OBVIOUS
<1> HIDE DEF p, sent
<1> QED BY <1>5, <1>6, <1>7, <1>8, <1>9, DispatchBudget

LEMMA SendExtendBudget ==
  ASSUME TypeOK, TypeOK', DurationInv, Handlers, BudgetInv, NEW w \in Worker, SendExtend(w)
  PROVE  BudgetInv'
<1> DEFINE p == Keeping(proc[w], Larger(Deadline(proc[w].root), now) + Dur[proc[w].g])
           sent == Sent(p, "extend", calls + 1)
<1>1. proc[w] \in Busy /\ proc[w].at = "read"
  BY AtBusy DEF SendExtend, Step, At
<1>2. parent[proc[w].g] = proc[w].root
  BY <1>1 DEF Handlers, Claiming
<1>3. p.g = proc[w].g /\ p.root = proc[w].root
  BY <1>1 DEF Busy, Keeping
<1>4. sent.at = "extend" /\ sent.g = p.g /\ sent.root = p.root /\ sent.call = calls + 1
  BY <1>1 DEF Busy, Keeping, Sent
<1>5. Dispatch(w, "extend", "extend", p, Dur[proc[w].g])
  BY DEF SendExtend, Keeping
<1>6. UNCHANGED <<now, agent, played, wire, dbVars>>
  BY DEF SendExtend
<1>7. parent[p.g] = p.root /\ Dur[proc[w].g] = Dur[p.g]
  BY <1>2, <1>3
<1>8. sent = Sent(p, "extend", calls + 1)
  OBVIOUS
<1> HIDE DEF p, sent
<1> QED BY <1>4, <1>5, <1>6, <1>7, <1>8, DispatchBudget

(* The end command names the core session of the row, which is its root.    *)
LEMMA SendEndBudget ==
  ASSUME TypeOK, TypeOK', DurationInv, Handlers, BudgetInv, NEW w \in Worker, NEW g \in Grant,
         KioskEnd(w, g) \/ AdminEnd(w, g), core[g] # NoGrant
  PROVE  BudgetInv'
<1>1. parent[g] \in {NoGrant, core[g]} /\ (parent[g] = NoGrant => core[g] = g)
  BY DEF BudgetInv, RowAffords
<1>2. UNCHANGED <<now, agent, played, wire, dbVars>>
  BY DEF KioskEnd, AdminEnd
<1>3. PICK step \in {"admin_end", "kiosk_end"} : \E p :
        /\ Dispatch(w, "end", step, p, 0) /\ p.g = g /\ p.root = core[g]
        /\ LET sent == Sent(p, step, calls + 1)
           IN  sent.at = step /\ sent.g = g /\ sent.root = core[g] /\ sent.call = calls + 1
  <2>1. CASE AdminEnd(w, g)
    <3>1. PICK k : Dispatch(w, "end", "admin_end",
                            [Idle EXCEPT !.g = g, !.root = core[g], !.kept = k], 0)
      BY <2>1 DEF AdminEnd
    <3> DEFINE p == [Idle EXCEPT !.g = g, !.root = core[g], !.kept = k]
               sent == Sent(p, "admin_end", calls + 1)
    <3>2. /\ p.g = g /\ p.root = core[g]
          /\ sent.at = "admin_end" /\ sent.g = g /\ sent.root = core[g] /\ sent.call = calls + 1
      BY DEF Idle, Sent
    <3> QED BY <3>1, <3>2
  <2>2. CASE KioskEnd(w, g)
    <3> DEFINE p == [Idle EXCEPT !.g = g, !.root = core[g]]
               sent == Sent(p, "kiosk_end", calls + 1)
    <3>1. /\ p.g = g /\ p.root = core[g]
          /\ sent.at = "kiosk_end" /\ sent.g = g /\ sent.root = core[g] /\ sent.call = calls + 1
      BY DEF Idle, Sent
    <3> QED BY <2>2, <3>1 DEF KioskEnd
  <2> QED BY <2>1, <2>2
<1>4. PICK p :
        /\ Dispatch(w, "end", step, p, 0) /\ p.g = g /\ p.root = core[g]
        /\ LET sent == Sent(p, step, calls + 1)
           IN  sent.at = step /\ sent.g = g /\ sent.root = core[g] /\ sent.call = calls + 1
  BY <1>3
<1>5. PICK sent : sent = Sent(p, step, calls + 1)
  OBVIOUS
<1> QED BY <1>1, <1>2, <1>4, <1>5, DispatchBudget

-----------------------------------------------------------------------------
(* The Agent's steps.                                                       *)

LEMMA NewEvent ==
  ASSUME NEW kind, NEW g, NEW root, NEW val, Emit(kind, g, root, val),
         NEW e \in wire', e \notin wire
  PROVE  e.kind = kind /\ e.g = g /\ e.root = root /\ e.val = val
BY DEF Emit

(* The Agent executes a command: what is told to the handlers that wait for *)
(* it is affordable, and so is what is reported.                            *)
LEMMA AnswerBudget ==
  ASSUME TypeOK, TypeOK', DurationInv, Handlers, BudgetInv, Steady, AgentAffords',
         NEW c \in cmds, NEW kind, NEW val \in Nat, Answer(c, kind, val),
         kind = "ok" =>
           /\ c.op = "start" => val # 0 /\ Affords(c.g, val)'
           /\ c.op = "extend" => val # 0 /\ Affords(c.root, val)'
           /\ c.op = "end" => c.root \in agent'.ran /\ c.root # agent'.sess,
         \A e \in wire' : e \in wire \/ EventAffords(e)'
  PROVE  BudgetInv'
<1>1. UNCHANGED <<proc, dbVars, parent>> /\ cmds' \subseteq cmds
  BY DEF Answer, dbVars
<1>2. \A g \in Grant : RowAffords(g)'
  BY <1>1, SamePlain, RowStaysPlain DEF dbVars, deadlines, settled, returns
<1>3. \A e \in wire' : EventAffords(e)'
  BY EventStaysSound
<1>4. \A d \in cmds' : CommandAffords(d)'
  <2>1. ASSUME NEW d \in cmds', NEW w \in Worker, proc'[w].call = d.id, Ending(w)'
        PROVE  proc[w].call = d.id /\ Ending(w) /\ proc'[w].root = proc[w].root
    BY <1>1, <2>1 DEF Ending, At
  <2> QED BY <1>1, <2>1, CommandStaysSound
<1>5. ASSUME NEW w \in Worker PROVE HandlerAffords(w)'
  <2>1. proc'[w] = proc[w] /\ (proc[w].at = "idle" => proc[w].call = 0)
    BY <1>1 DEF TypeOK, Busy, Step, Idle
  <2>2. CASE ~ (Awaits(w, c) /\ reply[w].kind = "none") \/ kind # "ok"
    <3>1. reply'[w] = reply[w] \/ reply'[w].kind # "ok"
      BY <2>2 DEF Answer
    <3>2. Goes(w)
      BY <2>1, <3>1 DEF Goes, Follows, Kept
    <3> QED BY <3>2, HandlerStays
  <2>3. CASE Awaits(w, c) /\ reply[w].kind = "none" /\ kind = "ok"
    <3>1. reply'[w].kind = "ok" /\ reply'[w].val = val
      BY <2>3 DEF Answer
    <3>2. CommandMatches(c) /\ CommandAffords(c) /\ HandlerAffords(w)
      BY DEF DurationInv, BudgetInv
    <3>3. /\ At(w, "start") => c.op = "start" /\ c.g = proc[w].g
          /\ At(w, "extend") => c.op = "extend" /\ c.g = proc[w].g
          /\ Ending(w) => c.op = "end" /\ c.root = proc[w].root
      BY <2>3, <3>2 DEF Awaits, CommandMatches, CommandAffords, Ending, At
    <3>4. At(w, "extend") => c.root = proc[w].root
      BY <3>2, <3>3 DEF CommandAffords, Handlers, Claiming, At
    <3>5. PICK g, root : g = proc[w].g /\ root = proc[w].root
      OBVIOUS
    <3>6. /\ At(w, "start") => val # 0 /\ Affords(g, val)'
          /\ At(w, "extend") => val # 0 /\ Affords(root, val)'
          /\ Ending(w) => root \in agent'.ran /\ root # agent'.sess
      BY <2>3, <3>3, <3>4, <3>5
    <3>7. /\ At(w, "start")' => reply'[w].val # 0 /\ Affords(proc[w].g, reply[w].val)'
          /\ At(w, "extend")' => reply'[w].val # 0 /\ Affords(proc[w].root, reply[w].val)'
          /\ Ending(w)' => proc'[w].root \in agent'.ran /\ proc'[w].root # agent'.sess
      BY <2>1, <3>1, <3>5, <3>6 DEF At, Ending, Affords
    <3>8. /\ proc'[w].at \in Starting => parent'[proc'[w].g] = NoGrant
          /\ Ending(w)' => /\ parent'[proc'[w].g] \in {NoGrant, proc'[w].root}
                           /\ parent'[proc'[w].g] = NoGrant => proc'[w].root = proc'[w].g
      BY <1>1, <2>1, <3>2 DEF HandlerAffords, Ending, At
    <3> QED BY <3>7, <3>8 DEF HandlerAffords
  <2> QED BY <2>2, <2>3
<1> QED BY <1>2, <1>3, <1>4, <1>5 DEF BudgetInv

LEMMA AnswerSteady ==
  ASSUME TypeOK, TypeOK', NEW c, NEW kind, NEW val, Answer(c, kind, val),
         agent.ran \subseteq agent'.ran, agent.applied \subseteq agent'.applied,
         \A g \in agent.ran : agent'.sess = g => agent.sess = g
  PROVE  Steady /\ UNCHANGED <<now, played, dbVars, parent, core>>
<1>1. UNCHANGED <<now, played, dbVars, parent, core>>
  BY DEF Answer, dbVars
<1> QED BY <1>1, SteadySteps

LEMMA RefuseBudget ==
  ASSUME TypeOK, TypeOK', DurationInv, Handlers, BudgetInv, NEW c \in cmds, Refuse(c)
  PROVE  BudgetInv'
<1>1. Answer(c, "error", 0) /\ UNCHANGED agent
  BY DEF Refuse
<1>2. Steady /\ UNCHANGED <<now, played>>
  BY <1>1, AnswerSteady
<1>3. AgentAffords'
  BY <1>1, <1>2, AgentStays
<1>4. ASSUME NEW e \in wire', e \notin wire PROVE EventAffords(e)'
  <2>1. \E root : Emit("failed", c.g, root, 0)
    BY <1>4 DEF Refuse
  <2>2. e.kind = "failed"
    BY <1>4, <2>1, NewEvent
  <2> QED BY <2>2 DEF EventAffords
<1> QED BY <1>1, <1>2, <1>3, <1>4, AnswerBudget

LEMMA StoppedSteady ==
  ASSUME TypeOK, TypeOK', DurationInv, BudgetInv, agent' = Stopped,
         UNCHANGED <<now, played, dbVars>>
  PROVE  /\ Steady /\ AgentAffords' /\ agent'.sess = NoGrant /\ agent'.ran = agent.ran
<1> USE DEF dbVars
<1>1. agent'.ran = agent.ran /\ agent'.applied = agent.applied /\ agent'.sess = NoGrant
  BY DEF TypeOK, AgentState, Stopped
<1>2. agent.ran \subseteq Grant /\ NoGrant \notin Grant
  BY GrantAssumption DEF TypeOK, AgentState
<1>3. Steady
  BY <1>1, <1>2, SteadySteps
<1>4. AgentAffords
  BY DEF BudgetInv
<1>5. ASSUME NEW g \in Grant
      PROVE  played'[g] <= Bought(g)' /\ (played'[g] # 0 => g \in agent'.ran)
  <2>1. played[g] \in Nat /\ Bought(g) \in Nat /\ Bought(g)' \in Nat
    BY BoughtType, BoughtTypeNext DEF TypeOK
  <2>2. played[g] <= Bought(g) /\ Bought(g) <= Bought(g)' /\ (played[g] # 0 => g \in agent.ran)
    BY <1>3, <1>4 DEF AgentAffords, Steady
  <2> QED BY <1>1, <2>1, <2>2
<1> QED BY <1>1, <1>3, <1>4, <1>5 DEF AgentAffords

LEMMA AgentEndBudget ==
  ASSUME TypeOK, TypeOK', DurationInv, Handlers, BudgetInv, NEW c \in cmds, AgentEnd(c)
  PROVE  BudgetInv'
<1>1. CASE Refuse(c)
  BY <1>1, RefuseBudget
<1>2. CASE agent.sess = c.root
  <2>1. PICK told \in Reported : /\ agent' = Stopped /\ Emit("ended", c.root, c.root, told)
                                /\ Answer(c, "ok", told)
    BY <1>2 DEF AgentEnd
  <2>2. c.op = "end" /\ c.root \in Grant /\ c.root # NoGrant /\ told \in Nat
    BY GrantAssumption DEF AgentEnd, TypeOK, Command
  <2>3. UNCHANGED <<now, played, dbVars>>
    BY <2>1 DEF Answer
  <2>4. Steady /\ AgentAffords' /\ agent'.sess = NoGrant /\ agent'.ran = agent.ran
    BY <2>1, <2>3, StoppedSteady
  <2>5. c.root \in agent'.ran /\ c.root # agent'.sess
    BY <1>2, <2>2, <2>4 DEF DurationInv, AgentKnows
  <2>6. ASSUME NEW e \in wire', e \notin wire PROVE EventAffords(e)'
    <3>1. e.kind = "ended" /\ e.g = c.root /\ e.root = c.root
      BY <2>1, <2>6, NewEvent
    <3> QED BY <2>5, <3>1 DEF EventAffords
  <2> QED BY <2>1, <2>2, <2>4, <2>5, <2>6, AnswerBudget
<1> QED BY <1>1, <1>2 DEF AgentEnd

LEMMA AgentStopBudget ==
  ASSUME TypeOK, TypeOK', DurationInv, Handlers, BudgetInv, AgentStop
  PROVE  BudgetInv'
<1>1. /\ agent' = Stopped /\ UNCHANGED <<now, played, dbVars, proc, reply, cmds>>
      /\ agent.sess # NoGrant
  BY DEF AgentStop, apiVars
<1>2. Steady /\ AgentAffords' /\ agent'.sess = NoGrant /\ agent'.ran = agent.ran
  BY <1>1, StoppedSteady
<1>3. \A g \in Grant : RowAffords(g)'
  BY <1>1, <1>2, SamePlain, RowStaysPlain DEF dbVars, deadlines, settled, returns
<1>4. \A w \in Worker : HandlerAffords(w)'
  BY <1>1, <1>2, SameGoesOn, HandlerStays
<1>5. \A c \in cmds' : CommandAffords(c)'
  <2>1. ASSUME NEW c \in cmds', NEW w \in Worker, proc'[w].call = c.id, Ending(w)'
        PROVE  proc[w].call = c.id /\ Ending(w) /\ proc'[w].root = proc[w].root
    BY <1>1, <2>1 DEF Ending, At
  <2> QED BY <1>1, <1>2, <2>1, CommandStaysSound
<1>6. ASSUME NEW e \in wire' PROVE EventAffords(e)'
  <2>1. CASE e \in wire
    BY <1>2, <2>1, EventStaysSound
  <2>2. CASE e \notin wire
    <3>1. PICK kind, told : /\ kind \in {"ended", "expired"}
                            /\ Emit(kind, agent.sess, agent.sess, told)
      BY DEF AgentStop
    <3>2. e.kind = kind /\ e.g = agent.sess /\ e.root = agent.sess
      BY <2>2, <3>1, NewEvent
    <3>3. agent.sess \in agent'.ran /\ agent.sess # agent'.sess
      BY <1>1, <1>2 DEF DurationInv, AgentKnows
    <3> QED BY <3>1, <3>2, <3>3 DEF EventAffords
  <2> QED BY <2>1, <2>2
<1> QED BY <1>2, <1>3, <1>4, <1>5, <1>6 DEF BudgetInv

LEMMA AgentStartBudget ==
  ASSUME TypeOK, TypeOK', DurationInv, Handlers, BudgetInv, Reports = "deadline",
         NEW c \in cmds, AgentStart(c)
  PROVE  BudgetInv'
<1>0. /\ c.g \in Grant /\ c.op = "start" /\ c.g # NoGrant /\ parent[c.g] = NoGrant
      /\ c.g \notin agent.ran => c.add = Dur[c.g]
  BY GrantAssumption DEF TypeOK, Command, BudgetInv, CommandAffords, AgentStart
<1>1. CASE Refuse(c)
  BY <1>1, RefuseBudget
<1>2. CASE agent.sess = c.g /\ UNCHANGED agent /\ UNCHANGED wire
           /\ Answer(c, "ok", ToldInReply(agent.ends))
  <2>1. Steady /\ UNCHANGED <<now, played>>
    BY <1>2, AnswerSteady
  <2>2. AgentAffords'
    BY <1>2, <2>1, AgentStays
  <2>3. PICK end \in Nat : end = agent.ends
    BY DEF TypeOK, AgentState
  <2>4. ToldInReply(agent.ends) = end
    BY <2>3 DEF ToldInReply
  <2>5. end # 0 /\ Affords(c.g, end)
    BY <1>0, <1>2, <2>3 DEF BudgetInv, AgentAffords
  <2>6. Affords(c.g, end)'
    BY <1>0, <2>1, <2>5 DEF Steady
  <2>7. wire' = wire
    BY <1>2
  <2> QED BY <1>0, <1>2, <2>1, <2>2, <2>4, <2>5, <2>6, <2>7, AnswerBudget
<1>3. CASE /\ agent.sess = NoGrant /\ c.g \notin agent.ran \union agent.applied
           /\ agent' = [agent EXCEPT !.sess = c.g, !.ends = now + c.add,
                                     !.ran = @ \union {c.g}]
           /\ Emit("started", c.g, c.g, now + c.add)
           /\ Answer(c, "ok", ToldInReply(now + c.add))
  <2>1. PICK end : end = now + c.add
    OBVIOUS
  <2>2. /\ agent'.sess = c.g /\ agent'.ran = agent.ran \union {c.g}
        /\ agent'.applied = agent.applied /\ agent'.ends = end
    BY <1>3, <2>1 DEF TypeOK, AgentState
  <2>3. Steady /\ UNCHANGED <<now, played, dbVars, parent>>
    BY <1>3, <2>2, AnswerSteady
  <2>4. /\ now \in Nat /\ Dur[c.g] \in Nat \ {0} /\ Bought(c.g) \in Nat /\ Dur[c.g] <= Bought(c.g)
        /\ played[c.g] = 0
    BY <1>0, <1>3, BoughtType, GrantAssumption DEF TypeOK, BudgetInv, AgentAffords
  <2>5. c.add = Dur[c.g]
    BY <1>0, <1>3
  <2>6. end \in Nat /\ end # 0
    BY <2>1, <2>4, <2>5
  <2>7. Affords(c.g, end)
    BY <2>1, <2>4, <2>5 DEF Affords
  <2>8. Affords(c.g, end)'
    BY <1>0, <2>3, <2>6, <2>7 DEF Steady
  <2>9. AgentAffords'
    <3>1. AgentAffords
      BY DEF BudgetInv
    <3>2. ASSUME NEW g \in Grant
          PROVE  played'[g] <= Bought(g)' /\ (played'[g] # 0 => g \in agent'.ran)
      <4>1. played[g] \in Nat /\ Bought(g) \in Nat /\ Bought(g)' \in Nat
        BY BoughtType, BoughtTypeNext DEF TypeOK
      <4>2. played[g] <= Bought(g) /\ Bought(g) <= Bought(g)' /\ (played[g] # 0 => g \in agent.ran)
        BY <2>3, <3>1 DEF AgentAffords, Steady
      <4> QED BY <2>2, <2>3, <4>1, <4>2
    <3>3. agent'.ends # 0 /\ Affords(agent.sess, agent.ends)'
      BY <2>2, <2>6, <2>8 DEF Affords
    <3>4. \A g \in agent'.ran : parent'[g] = NoGrant
      BY <1>0, <2>2, <2>3, <3>1 DEF AgentAffords
    <3>5. \A g \in agent'.applied : parent'[g] # NoGrant /\ parent'[g] \in agent'.ran
      BY <2>2, <2>3, <3>1 DEF AgentAffords
    <3> QED BY <3>2, <3>3, <3>4, <3>5 DEF AgentAffords
  <2>10. ASSUME NEW e \in wire', e \notin wire PROVE EventAffords(e)'
    <3>1. e.kind = "started" /\ e.g = c.g /\ e.root = c.g /\ e.val = end
      BY <1>3, <2>1, <2>10, NewEvent
    <3> QED BY <1>0, <2>6, <2>8, <3>1 DEF EventAffords
  <2>11. Answer(c, "ok", end)
    BY <1>3, <2>1 DEF ToldInReply
  <2> QED BY <1>0, <2>3, <2>6, <2>8, <2>9, <2>10, <2>11, AnswerBudget
<1> QED BY <1>1, <1>2, <1>3 DEF AgentStart

(* An extension that the Agent applies is bought for the session it runs.   *)
LEMMA AppliedBuys ==
  ASSUME TypeOK, NEW r \in Grant, NEW c \in Grant, c \notin agent.applied, core[c] = r,
         UNCHANGED core, agent'.applied = agent.applied \union {c}
  PROVE  Bought(r)' = Bought(r) + Dur[c]
<1>1. PICK old : old = AppliedTo(r)
  OBVIOUS
<1>2. AppliedTo(r)' = old \union {c} /\ c \notin old
  BY <1>1 DEF AppliedTo
<1>3. IsFiniteSet(old) /\ \A x \in old \union {c} : Dur[x] \in Int
  BY <1>1, AppliedFinite, GrantAssumption
<1>4. Sum(old \union {c}, Dur) = Dur[c] + Sum(old, Dur)
  BY <1>2, <1>3, SumAdd
<1>5. Sum(old, Dur) \in Int /\ Dur[c] \in Nat /\ Dur[r] \in Nat
  BY <1>3, SumInt, GrantAssumption
<1>6. Dur[r] + Sum(old \union {c}, Dur) = Dur[r] + Sum(old, Dur) + Dur[c]
  BY <1>4, <1>5
<1> QED BY <1>1, <1>2, <1>6 DEF Bought

LEMMA AgentExtendBudget ==
  ASSUME TypeOK, TypeOK', DurationInv, Handlers, BudgetInv, Reports = "deadline",
         NEW c \in cmds, AgentExtend(c)
  PROVE  BudgetInv'
<1>0. /\ c.g \in Grant /\ c.op = "extend" /\ c.root \in Grant /\ c.root # NoGrant
      /\ parent[c.g] = c.root /\ c.add = Dur[c.g] /\ core[c.g] = c.root
  BY GrantAssumption DEF TypeOK, Command, BudgetInv, CommandAffords, AgentExtend, RowAffords
<1>1. CASE Refuse(c)
  BY <1>1, RefuseBudget
<1>2. CASE agent.sess = c.root /\ UNCHANGED agent /\ UNCHANGED wire
           /\ Answer(c, "ok", ToldInReply(agent.ends))
  <2>1. Steady /\ UNCHANGED <<now, played>>
    BY <1>2, AnswerSteady
  <2>2. AgentAffords'
    BY <1>2, <2>1, AgentStays
  <2>3. PICK end \in Nat : end = agent.ends
    BY DEF TypeOK, AgentState
  <2>4. ToldInReply(agent.ends) = end
    BY <2>3 DEF ToldInReply
  <2>5. end # 0 /\ Affords(c.root, end)
    BY <1>0, <1>2, <2>3 DEF BudgetInv, AgentAffords
  <2>6. Affords(c.root, end)'
    BY <1>0, <2>1, <2>5 DEF Steady
  <2>7. wire' = wire
    BY <1>2
  <2> QED BY <1>0, <1>2, <2>1, <2>2, <2>4, <2>5, <2>6, <2>7, AnswerBudget
<1>3. CASE agent.sess = c.root /\ c.g \notin agent.ran /\ c.g \notin agent.applied
  <2>1. PICK end : /\ end = Larger(agent.ends, now) + c.add
                   /\ agent' = [agent EXCEPT !.ends = end, !.applied = @ \union {c.g}]
                   /\ Emit("extended", c.g, c.root, end)
                   /\ Answer(c, "ok", ToldInReply(end))
    BY <1>3 DEF AgentExtend
  <2>2. /\ agent'.sess = agent.sess /\ agent'.ran = agent.ran
        /\ agent'.applied = agent.applied \union {c.g} /\ agent'.ends = end
    BY <2>1 DEF TypeOK, AgentState
  <2>3. Steady /\ UNCHANGED <<now, played, dbVars, parent, core>>
    BY <2>1, <2>2, AnswerSteady
  <2>4. PICK r, old : r = c.root /\ old = agent.ends /\ old \in Nat
    BY DEF TypeOK, AgentState
  <2>5. r \in Grant /\ r = agent.sess /\ r # NoGrant /\ Affords(r, old) /\ played[r] <= Bought(r)
    BY <1>0, <1>3, <2>4 DEF BudgetInv, AgentAffords
  <2>6. Bought(r)' = Bought(r) + Dur[c.g]
    BY <1>0, <1>3, <2>2, <2>3, <2>4, AppliedBuys
  <2>7. /\ now \in Nat /\ Dur[c.g] \in Nat \ {0} /\ Bought(r) \in Nat /\ played[r] \in Nat
    BY <1>0, <2>5, BoughtType, GrantAssumption DEF TypeOK
  <2>8. end = Larger(old, now) + Dur[c.g]
    BY <1>0, <2>1, <2>4
  <2>9. end \in Nat /\ end # 0
    BY <2>4, <2>7, <2>8 DEF Larger
  <2>10. played[r] + old <= now + Bought(r)
    BY <2>5 DEF Affords
  <2>11. played[r] + end <= now + (Bought(r) + Dur[c.g])
    BY <2>4, <2>5, <2>7, <2>8, <2>10 DEF Larger
  <2>12. Affords(r, end)'
    BY <2>3, <2>6, <2>11 DEF Affords
  <2>13. AgentAffords'
    <3>1. AgentAffords
      BY DEF BudgetInv
    <3>2. ASSUME NEW g \in Grant
          PROVE  played'[g] <= Bought(g)' /\ (played'[g] # 0 => g \in agent'.ran)
      <4>1. played[g] \in Nat /\ Bought(g) \in Nat /\ Bought(g)' \in Nat
        BY BoughtType, BoughtTypeNext DEF TypeOK
      <4>2. played[g] <= Bought(g) /\ Bought(g) <= Bought(g)' /\ (played[g] # 0 => g \in agent.ran)
        BY <2>3, <3>1 DEF AgentAffords, Steady
      <4> QED BY <2>2, <2>3, <4>1, <4>2
    <3>3. agent'.ends # 0 /\ Affords(agent.sess, agent.ends)'
      BY <2>2, <2>5, <2>9, <2>12 DEF Affords
    <3>4. \A g \in agent'.ran : parent'[g] = NoGrant
      BY <2>2, <2>3, <3>1 DEF AgentAffords
    <3>5. c.root \in agent.ran
      BY <1>0, <1>3 DEF DurationInv, AgentKnows
    <3>6. \A g \in agent'.applied : parent'[g] # NoGrant /\ parent'[g] \in agent'.ran
      BY <1>0, <2>2, <2>3, <3>1, <3>5 DEF AgentAffords
    <3> QED BY <3>2, <3>3, <3>4, <3>6 DEF AgentAffords
  <2>14. ASSUME NEW e \in wire', e \notin wire PROVE EventAffords(e)'
    <3>1. e.kind = "extended" /\ e.g = c.g /\ e.root = r /\ e.val = end
      BY <2>1, <2>4, <2>14, NewEvent
    <3> QED BY <1>0, <2>3, <2>4, <2>5, <2>9, <2>12, <3>1 DEF EventAffords
  <2>15. Answer(c, "ok", end) /\ Affords(c.root, end)'
    BY <2>1, <2>4, <2>12 DEF ToldInReply
  <2> QED BY <1>0, <2>3, <2>9, <2>13, <2>14, <2>15, AnswerBudget
<1> QED BY <1>1, <1>2, <1>3 DEF AgentExtend

(* Time passes, and is played only while it is bought.                      *)
LEMMA TickBudget ==
  ASSUME TypeOK, TypeOK', DurationInv, Handlers, BudgetInv, Tick
  PROVE  BudgetInv'
<1> USE DEF dbVars, deadlines, settled, returns, apiVars, netVars
<1>1. /\ now' = now + 1
      /\ UNCHANGED <<agent, parent, core, planned, credited, voucher, status, proc,
                     reply, cmds, wire>>
      /\ played' = IF agent.sess # NoGrant /\ now < agent.ends
                   THEN [played EXCEPT ![agent.sess] = @ + 1] ELSE played
  BY DEF Tick
<1>2. ASSUME NEW r \in Grant
      PROVE  /\ played[r] \in Nat /\ Bought(r) \in Nat /\ Bought(r)' = Bought(r)
             /\ \/ played'[r] = played[r]
                \/ r = agent.sess /\ now < agent.ends /\ played'[r] = played[r] + 1
  <2>1. Bought(r)' = Bought(r)
    BY <1>1 DEF Bought, AppliedTo
  <2> QED BY <1>1, <2>1, BoughtType DEF TypeOK
<1>3. now \in Nat /\ agent.ends \in Nat
  BY DEF TypeOK, AgentState
<1>4. ASSUME NEW r \in Grant, NEW end \in Nat, Affords(r, end) PROVE Affords(r, end)'
  <2>1. played[r] + end <= now + Bought(r)
    BY <1>4 DEF Affords
  <2>2. played'[r] + end <= (now + 1) + Bought(r)
    BY <1>2, <1>3, <2>1
  <2> QED BY <1>1, <1>2, <2>2 DEF Affords
<1>5. Steady
  <2>1. \A r \in Grant : Bought(r) <= Bought(r)' /\ (played'[r] = played[r] \/ agent.sess = r)
    BY <1>2
  <2> QED BY <1>1, <1>4, <2>1 DEF Steady
<1>6. AgentAffords
  BY DEF BudgetInv
<1>7. ASSUME NEW g \in Grant
      PROVE  played'[g] <= Bought(g)' /\ (played'[g] # 0 => g \in agent'.ran)
  <2>1. CASE played'[g] = played[g]
    BY <1>1, <1>2, <1>6, <2>1 DEF AgentAffords
  <2>2. CASE g = agent.sess /\ now < agent.ends /\ played'[g] = played[g] + 1
    <3>1. g # NoGrant
      BY GrantAssumption
    <3>2. Affords(g, agent.ends) /\ g \in agent.ran
      BY <1>6, <2>2, <3>1 DEF AgentAffords, DurationInv, AgentKnows
    <3>3. played[g] + agent.ends <= now + Bought(g)
      BY <3>2 DEF Affords
    <3>4. played[g] + 1 <= Bought(g)
      BY <1>2, <1>3, <2>2, <3>3
    <3> QED BY <1>1, <1>2, <2>2, <3>2, <3>4
  <2> QED BY <1>2, <2>1, <2>2
<1>8. agent'.sess # NoGrant => agent'.ends # 0 /\ Affords(agent.sess, agent.ends)'
  <2>1. agent.sess # NoGrant => agent.sess \in Grant
    BY DEF TypeOK, AgentState, OrNull
  <2>2. PICK s, end : s = agent.sess /\ end = agent.ends /\ end \in Nat
    BY <1>3
  <2>3. s # NoGrant => end # 0 /\ Affords(s, end)'
    BY <1>4, <1>6, <2>1, <2>2 DEF AgentAffords
  <2> QED BY <1>1, <2>2, <2>3 DEF Affords
<1>9. AgentAffords'
  BY <1>1, <1>6, <1>7, <1>8 DEF AgentAffords
<1>10. \A g \in Grant : RowAffords(g)'
  BY <1>1, <1>5, SamePlain, RowStaysPlain
<1>11. \A w \in Worker : HandlerAffords(w)'
  BY <1>1, <1>5, SameGoesOn, HandlerStays
<1>12. \A c \in cmds' : CommandAffords(c)'
  <2>1. ASSUME NEW c \in cmds', NEW w \in Worker, proc'[w].call = c.id, Ending(w)'
        PROVE  proc[w].call = c.id /\ Ending(w) /\ proc'[w].root = proc[w].root
    BY <1>1, <2>1 DEF Ending, At
  <2> QED BY <1>1, <1>5, <2>1, CommandStaysSound
<1>13. \A e \in wire' : EventAffords(e)'
  BY <1>1, <1>5, EventStaysSound
<1> QED BY <1>9, <1>10, <1>11, <1>12, <1>13 DEF BudgetInv

-----------------------------------------------------------------------------
LEMMA InitBudget == Init => BudgetInv
<1> SUFFICES ASSUME Init PROVE BudgetInv
  OBVIOUS
<1>1. agent = [sess |-> NoGrant, ends |-> 0, ran |-> {}, applied |-> {}]
      /\ cmds = {} /\ wire = {}
  BY DEF Init
<1>2. AgentAffords
  <2>1. TypeOK
    BY InitTypeOK
  <2>2. \A g \in Grant : played[g] = 0 /\ Bought(g) \in Nat
    BY <2>1, BoughtType DEF Init
  <2>3. \A g \in Grant : played[g] <= Bought(g)
    BY <2>2
  <2> QED BY <1>1, <2>2, <2>3 DEF AgentAffords
<1>3. \A g \in Grant : RowAffords(g)
  BY DEF Init, RowAffords, Back
<1>4. \A w \in Worker : HandlerAffords(w)
  BY DEF Init, HandlerAffords, Idle, NoReply, Starting, Ending, At
<1> QED BY <1>1, <1>2, <1>3, <1>4 DEF BudgetInv

LEMMA NextBudget ==
  ASSUME TypeOK, TypeOK', CountInv, DurationInv, BudgetInv, Reports = "deadline",
         Unmerged, Unmerged', OneChannel, [Next]_vars, ~ ReconcileMissingRemainders
  PROVE  BudgetInv'
<1>0. Handlers
  BY DEF CountInv
<1>1. ASSUME NEW w \in Worker, HandlerStep(w) \/ Crash(w) PROVE BudgetInv'
  <2>0. ~ proc[w].merge
    BY DEF Unmerged
  <2>1. CASE \/ RefundPlayerBalance(w) \/ StartError(w) \/ ExtendError(w) \/ EndError(w)
             \/ NoSessionToExtend(w) \/ Crash(w)
    BY <1>0, <2>0, <2>1, GivingUpBudget
  <2>2. CASE SendStart(w) \/ SendExtend(w)
    BY <1>0, <2>2, SendStartBudget, SendExtendBudget
  <2>3. CASE MarkApplying(w)
    BY <1>0, <2>3, ClaimBudget
  <2>4. CASE StartOk(w)
    BY <1>0, <2>4, StartOkBudget
  <2>5. CASE ExtendOk(w)
    BY <1>0, <2>0, <2>5, ExtendOkBudget
  <2>6. CASE EndOk(w)
    BY <1>0, <2>6, EndOkBudget
  <2> QED BY <1>1, <2>1, <2>2, <2>3, <2>4, <2>5, <2>6 DEF HandlerStep
<1>2. ASSUME NEW w \in Worker, NEW g \in Grant, Request(w, g) PROVE BudgetInv'
  <2>1. CASE RedeemStart(w, g) \/ RedeemExtend(w, g)
    BY <1>0, <2>1, RedeemBudget
  <2>2. CASE KioskEnd(w, g) \/ (AdminEnd(w, g) /\ core[g] # NoGrant)
    <3>1. core[g] # NoGrant
      BY <2>2 DEF KioskEnd
    <3> QED BY <1>0, <2>2, <3>1, SendEndBudget
  <2>3. CASE AdminEnd(w, g) /\ core[g] = NoGrant
    BY <1>0, <2>3, AdminEndNothing, RepairsBudget
  <2> QED BY <1>2, <2>1, <2>2, <2>3 DEF Request
<1>3. CASE SyncLoop
  <2>1. \A w \in Worker : ~ proc'[w].merge
    BY DEF Unmerged
  <2> QED BY <1>0, <1>3, <2>1, LoopBudget
<1>4. CASE Expire \/ Heartbeat \/ AgentOffline \/ LoseCommand \/ UNCHANGED vars
  BY <1>0, <1>4, RepairsBudget
<1>5. CASE AgentStep
  BY <1>0, <1>5, AgentStopBudget, AgentStartBudget, AgentExtendBudget, AgentEndBudget
  DEF AgentStep
<1>6. CASE CoreEvent
  BY <1>0, <1>6, EventBudget
<1>7. CASE Tick
  BY <1>0, <1>7, TickBudget
<1> QED BY <1>1, <1>2, <1>3, <1>4, <1>5, <1>6, <1>7 DEF Next

LEMMA BudgetConserves == TypeOK /\ BudgetInv => TimeConserved
<1> SUFFICES ASSUME TypeOK, BudgetInv, NEW r \in Grant
             PROVE  Back(r) + played[r] <= Bought(r)
  BY DEF TimeConserved, Bought
<1>1. Back(r) \in Nat /\ played[r] \in Nat /\ Bought(r) \in Nat
  BY BoughtType DEF TypeOK, Back
<1>2. RowAffords(r) /\ played[r] <= Bought(r)
  BY DEF BudgetInv, AgentAffords
<1>3. CASE Back(r) = 0
  BY <1>1, <1>2, <1>3
<1>4. CASE Back(r) # 0
  <2>1. played[r] + Back(r) <= Bought(r)
    BY <1>2, <1>4 DEF RowAffords
  <2> QED BY <1>1, <2>1
<1> QED BY <1>3, <1>4

(* A customer never gets more time than was paid for, played and returned   *)
(* together, extensions included: for any number of grants, handlers and    *)
(* faults, when the Agent's replies carry the deadline, no purchase is      *)
(* merged into a running session by the edge loop, no session returned as a *)
(* voucher gets an owner afterwards (finishGrant returns such a one again   *)
(* to the ledger), and no sign-in repairs a missing return, which knows     *)
(* only the planned end of the row.                                         *)
THEOREM ConservedWithExtensions ==
  ASSUME Reports = "deadline"
  PROVE  Spec /\ []Unmerged /\ []OwnersInTime /\ [][~ ReconcileMissingRemainders]_vars
           => []TimeConserved
<1>1. Init => CountInv /\ DurationInv /\ BudgetInv /\ CreditOwned
  BY InitCountInv, InitDurationInv, InitBudget, InitCreditOwned
<1>2. /\ TypeOK /\ TypeOK' /\ CountInv /\ DurationInv /\ BudgetInv /\ CreditOwned
      /\ Unmerged /\ Unmerged' /\ OwnersInTime
      /\ [Next]_vars /\ [~ ReconcileMissingRemainders]_vars
      => CountInv' /\ DurationInv' /\ BudgetInv' /\ CreditOwned'
  <2> SUFFICES ASSUME TypeOK, TypeOK', CountInv, DurationInv, BudgetInv, CreditOwned,
                      Unmerged, Unmerged', OwnersInTime,
                      [Next]_vars, [~ ReconcileMissingRemainders]_vars
               PROVE  CountInv' /\ DurationInv' /\ BudgetInv' /\ CreditOwned'
    OBVIOUS
  <2>1. CountInv' /\ DurationInv' /\ CreditOwned'
    BY NextCountInv, NextDurationInv, NextCreditOwned
  <2>2. CASE UNCHANGED vars
    <3>1. BudgetInv'
      BY <2>2, RepairsBudget DEF CountInv
    <3> QED BY <2>1, <3>1
  <2>3. CASE ~ ReconcileMissingRemainders
    <3>1. OneChannel
      BY DEF OneChannel
    <3> QED BY <2>1, <2>3, <3>1, NextBudget
  <2> QED BY <2>2, <2>3
<1>3. TypeOK /\ BudgetInv => TimeConserved
  BY BudgetConserves
<1> QED BY <1>1, <1>2, <1>3, TypeCorrect, PTL DEF Spec
=============================================================================
