----------------------------- MODULE Operations -----------------------------
(***************************************************************************)
(* What a mobile client asks for and must not get twice: a checkout or a   *)
(* session from the balance, under an idempotency key.  The server keeps a *)
(* row per key; the client keeps the key until it knows what came of it,   *)
(* and asks for the row when an answer is missing.  Requests are repeated, *)
(* delayed and lost, the server fails between any two steps.  Its names    *)
(* are such that a module can extend it together with Reservations.        *)
(***************************************************************************)
EXTENDS Naturals, FiniteSets

CONSTANTS MaxKeys,    \* bound on the keys the client makes up
          MaxPosts,   \* bound on the requests of a key under way
          MaxPolls,   \* bound on the questions under way
          MaxFaults   \* bound on crashes, failed writes, losses and time-outs

ASSUME BoundsAssumption ==
  MaxKeys \in Nat \ {0} /\ MaxPosts \in Nat \ {0} /\ MaxPolls \in Nat \ {0} /\ MaxFaults \in Nat

Key == 1..MaxKeys

VARIABLES
  key, known,  \* the client's pending operation, and whether it has an invoice or grant
  posts,       \* requests of each key on their way
  polls,       \* questions about a key: with the client still waiting, or given up
  row,         \* mobile_operations
  exec,        \* the handler running under a key
  made,        \* invoices and grants made under a key
  faults

clientVars == <<key, known>>
opsVars == <<clientVars, posts, polls, row, exec, made, faults>>

\* http_status: none yet, below 400 or not; linked: invoice_id or grant_id is set.
NoRow == [status |-> "absent", linked |-> FALSE]
Claimed == [status |-> "none", linked |-> FALSE]
Rejected(r) == r.status = "failed" /\ ~r.linked

OpsTypeOK ==
  /\ key \in Key /\ known \in BOOLEAN
  /\ posts \in [Key -> 0..MaxPosts]
  /\ polls \subseteq [key : Key, step : {"sent", "read"}, live : BOOLEAN]
  /\ \A p, q \in polls : p.live /\ q.live => p = q
  /\ row \in [Key -> [status : {"absent", "none", "ok", "failed"}, linked : BOOLEAN]]
  /\ \A k \in Key : row[k].status = "ok" => row[k].linked
  /\ exec \in [Key -> {"idle", "running", "made", "failing"}]
  /\ \A k \in Key : exec[k] # "idle" => row[k].status = "none"
  /\ made \in [Key -> Nat]
  /\ faults \in 0..MaxFaults

\* The client has stored its operation and sent it.
OpsInit ==
  /\ key = 1 /\ known = FALSE
  /\ posts = [k \in Key |-> IF k = 1 THEN 1 ELSE 0]
  /\ polls = {}
  /\ row = [k \in Key |-> NoRow]
  /\ exec = [k \in Key |-> "idle"]
  /\ made = [k \in Key |-> 0]
  /\ faults = 0

Fault == faults < MaxFaults /\ faults' = faults + 1

\* An answer that names an invoice or a grant is stored, or lost on its way.
Answer(k, r) == known' \in {known, known \/ (r.linked /\ k = key)}

-----------------------------------------------------------------------------
\* Mutant: the key is looked up, and a key whose handler is gone runs again.
ClaimStranded(k) ==
  /\ posts[k] > 0
  /\ posts' = [posts EXCEPT ![k] = @ - 1]
  /\ IF row[k].status \in {"absent", "none"} /\ exec[k] = "idle"
       THEN /\ row' = [row EXCEPT ![k] = Claimed]
            /\ exec' = [exec EXCEPT ![k] = "running"]
            /\ UNCHANGED known
       ELSE /\ Answer(k, row[k])
            /\ UNCHANGED <<row, exec>>
  /\ UNCHANGED <<key, polls, made, faults>>

(***************************************************************************)
(* mobileMutation: the first request of a key claims it and runs the       *)
(* handler; any other is answered from the row, operation_pending if it    *)
(* has no status yet.                                                      *)
(***************************************************************************)
Claim(k) ==
  /\ posts[k] > 0
  /\ posts' = [posts EXCEPT ![k] = @ - 1]
  /\ IF row[k] = NoRow
       THEN /\ row' = [row EXCEPT ![k] = Claimed]
            /\ exec' = [exec EXCEPT ![k] = "running"]
            /\ UNCHANGED known
       ELSE /\ IF row[k].status = "none" THEN UNCHANGED known ELSE Answer(k, row[k])
            /\ UNCHANGED <<row, exec>>
  /\ UNCHANGED <<key, polls, made, faults>>

\* handleCreateCheckout, redeemPlayerBalanceToPC: the order or the grant, and
\* the link to it (linkMobileOperation), in one transaction.
Make(k) ==
  /\ exec[k] = "running"
  /\ made' = [made EXCEPT ![k] = @ + 1]
  /\ row' = [row EXCEPT ![k].linked = TRUE]
  /\ exec' = [exec EXCEPT ![k] = "made"]
  /\ UNCHANGED <<clientVars, posts, polls, faults>>

\* Nothing is made: the PC is taken, the balance is empty, the database fails.
Reject(k) ==
  /\ exec[k] = "running"
  /\ exec' = [exec EXCEPT ![k] = "failing"]
  /\ UNCHANGED <<clientVars, posts, polls, row, made, faults>>

\* What was made does not start, or its commit is not heard of.
FailLate(k) ==
  /\ exec[k] = "made"
  /\ exec' = [exec EXCEPT ![k] = "failing"]
  /\ UNCHANGED <<clientVars, posts, polls, row, made, faults>>

\* The response is stored and sent.
Respond(k) ==
  /\ exec[k] \in {"made", "failing"}
  /\ row' = [row EXCEPT ![k].status = IF exec[k] = "made" THEN "ok" ELSE "failed"]
  /\ exec' = [exec EXCEPT ![k] = "idle"]
  /\ IF exec[k] = "made" THEN Answer(k, row[k]) ELSE UNCHANGED known
  /\ UNCHANGED <<key, posts, polls, made, faults>>

\* The response cannot be stored: its context ends after 90 seconds.
RespondFails(k) ==
  /\ Fault
  /\ exec[k] \in {"made", "failing"}
  /\ exec' = [exec EXCEPT ![k] = "idle"]
  /\ UNCHANGED <<clientVars, posts, polls, row, made>>

\* The server restarts; an open transaction is rolled back.
Crash ==
  /\ Fault
  /\ exec' = [k \in Key |-> "idle"]
  /\ polls' = {p \in polls : p.step = "sent"}
  /\ UNCHANGED <<clientVars, posts, row, made>>

LosePost(k) ==
  /\ Fault
  /\ posts[k] > 0
  /\ posts' = [posts EXCEPT ![k] = @ - 1]
  /\ UNCHANGED <<clientVars, polls, row, exec, made>>

-----------------------------------------------------------------------------
(***************************************************************************)
(* recover: one question at a time, until there is an invoice or a grant.  *)
(***************************************************************************)
Ask ==
  /\ ~known
  /\ ~\E p \in polls : p.live
  /\ Cardinality(polls) < MaxPolls
  /\ polls' = polls \cup {[key |-> key, step |-> "sent", live |-> TRUE]}
  /\ UNCHANGED <<clientVars, posts, row, exec, made, faults>>

\* The client gives up on a question the server may still work on.
AskAgain(p) ==
  /\ Fault
  /\ p.live
  /\ polls' = (polls \ {p}) \cup {[p EXCEPT !.live = FALSE]}
  /\ UNCHANGED <<clientVars, posts, row, exec, made>>

\* "Retransmit the same request with the same key."
Resend(p) ==
  IF p.live /\ posts[p.key] < MaxPosts
    THEN posts' = [posts EXCEPT ![p.key] = @ + 1]
    ELSE UNCHANGED posts

\* Mutant: the invoice is told with the stored response only.
LookupAnswered(p) ==
  /\ p.step = "sent"
  /\ LET r == row[p.key]
     IN IF Rejected(r)
          THEN polls' = (polls \ {p}) \cup {[p EXCEPT !.step = "read"]} /\ UNCHANGED <<posts, known>>
          ELSE /\ polls' = polls \ {p}
               /\ IF r = NoRow THEN Resend(p) ELSE UNCHANGED posts
               /\ known' = (known \/ (p.live /\ p.key = key /\ r.status # "none"))
  /\ UNCHANGED <<key, row, exec, made, faults>>

\* handleMobileOperation: 404, or what the row says; a rejection is to be deleted.
Lookup(p) ==
  /\ p.step = "sent"
  /\ LET r == row[p.key]
     IN IF Rejected(r)
          THEN polls' = (polls \ {p}) \cup {[p EXCEPT !.step = "read"]} /\ UNCHANGED <<posts, known>>
          ELSE /\ polls' = polls \ {p}
               /\ IF r = NoRow THEN Resend(p) ELSE UNCHANGED posts
               /\ known' = (known \/ (p.live /\ p.key = key /\ r.linked))
  /\ UNCHANGED <<key, row, exec, made, faults>>

\* Mutant: the row is deleted as it was read.
DeletableAsRead(r) == TRUE

\* DELETE ... WHERE http_status >= 400 AND invoice_id IS NULL AND grant_id IS NULL.
Deletable(r) == Rejected(r)

\* The client takes a rejection it hears of as final for its key.
ReplaceKey(p) ==
  IF p.live /\ p.key = key /\ key < MaxKeys
    THEN /\ key' = key + 1
         /\ posts' = [posts EXCEPT ![key'] = @ + 1]
    ELSE UNCHANGED <<key, posts>>

Delete(p) ==
  /\ p.step = "read"
  /\ polls' = polls \ {p}
  /\ IF row[p.key] # NoRow /\ Deletable(row[p.key])
       THEN row' = [row EXCEPT ![p.key] = NoRow] /\ Resend(p) /\ UNCHANGED key
       ELSE ReplaceKey(p) /\ UNCHANGED row
  /\ UNCHANGED <<known, exec, made, faults>>

OpsNext ==
  \/ \E k \in Key : Claim(k)
  \/ \E k \in Key : Make(k)
  \/ \E k \in Key : Reject(k)
  \/ \E k \in Key : FailLate(k)
  \/ \E k \in Key : Respond(k)
  \/ \E k \in Key : RespondFails(k)
  \/ Crash
  \/ \E k \in Key : LosePost(k)
  \/ Ask
  \/ \E p \in polls : AskAgain(p)
  \/ \E p \in polls : Lookup(p)
  \/ \E p \in polls : Delete(p)

(***************************************************************************)
(* Fairness.  The client keeps asking (every three seconds), the server    *)
(* answers, and a handler ends, if only by its time-out.                   *)
(***************************************************************************)
OpsFairness ==
  /\ WF_opsVars(Ask)
  /\ WF_opsVars(\E p \in polls : Lookup(p)) /\ WF_opsVars(\E p \in polls : Delete(p))
  /\ \A k \in Key : WF_opsVars(Make(k) \/ Reject(k)) /\ WF_opsVars(Respond(k))

OpsSpec == OpsInit /\ [][OpsNext]_opsVars /\ OpsFairness

-----------------------------------------------------------------------------
(***************************************************************************)
(* "Even if an earlier request arrives later, the server executes it       *)
(* once": under one key at most one order or grant is made, although a     *)
(* rejected key is deleted and used again.                                 *)
(***************************************************************************)
AtMostOnce == \A k \in Key : made[k] <= 1

(***************************************************************************)
(* What was made under a key stays known under it, whatever fails after:   *)
(* no crash, failed write or deletion leaves an order or a grant without   *)
(* the row that leads to it.                                               *)
(***************************************************************************)
NeverForgotten == \A k \in Key : made[k] > 0 => row[k].linked

(***************************************************************************)
(* "A lost response can be recovered through /operations without another   *)
(* charge": a client that still holds the key of what was made gets to     *)
(* know it.                                                                *)
(***************************************************************************)
Recovered == \A k \in Key : (made[k] > 0 /\ key = k) ~> (known \/ key # k)
=============================================================================
