# Formal models of the ClubPay platform

ClubPay sells playing time on the PCs of gaming clubs. A customer pays (Click,
Payme, cash, a voucher or a saved time balance), the platform records a *game
access grant* and tells the Agent program on the PC to start or extend a
session; when the session ends early the unused time goes back to the customer.
The work is spread over a Cloud node, a Controller in each club's LAN, stand-by
Managers and the Agents, which reach one another over HTTP pulls and pushes and
a WebSocket. The models are about what must stay true when these parts
interleave, time out, retry and crash.

## Inventory

| Component | State | Operations | What is hard, and what makes it correct |
|---|---|---|---|
| Game access grants (`server.go`, `player_auth.go`) | rows of `game_access_grants`, `vouchers`, `pc_refs.status_cache` | redeem balance / voucher, start, extend, merge, end, expire, repair remainders, core events | handlers work in several transactions with an Agent command in between; replies and events arrive in either order. Time is neither lost, doubled nor returned twice. |
| Payment orders | `payment_orders`, `payments`, `provider_events` | checkout, Click, Payme, mock callbacks, cash session | callbacks are repeated, late or concurrent. An order is paid once and yields one grant. |
| Profile time ledger (`time_value.go`) | `player_time_ledger`, `player_club_balances`, time-value rows | debit, credit, return, refund, projection repair | rates differ between zones, rounding. The projection equals the ledger, no balance is negative. |
| Agent hub (`core/ws.go`) | connected clients, pending commands | register, unregister, watchdog, command, result, wake | goroutines share maps and channels; a reconnect races the old socket's close. |
| Controller failover (`controller_failover.go`) | `agent_controller_leases` | take over on agent_online, renew on heartbeat, fence events | an old owner keeps sending. At most one node drives an Agent. |
| Edge PC commands (`edge_pc_commands.go`) | `edge_pc_commands` | enqueue, fetch, execute, complete | executed but not completed commands come again. |
| Edge synchronisation (`server.go`) | full snapshots, event outbox | pull, push, apply, forward events | last write wins between nodes; older snapshots. |
| Reservations (`mobile_reservations.go`) | `mobile_reservations` | create, reschedule, start, cancel, expire, complete | concurrent bookings, time windows. |
| Mobile authentication | `mobile_auth_challenges`, `mobile_sessions`, `mobile_tokens` | request, verify, refresh, revoke | attempts and rotation under concurrency. |
| Mobile operations | `mobile_operations` (idempotency keys) | begin, link, replay | a retried request is executed once. |
| Sign-in on the web page | `player_auth_challenges`, `players.telegram_chat_id` | open, claim by link, verify by contact, poll | messages of the bot are handled late, twice or not. Nobody takes over another one's challenge. |
| Controller activation and configuration, Wake on LAN, updates, launcher catalogue, Telegram, staff administration, reports, web and Flutter clients, deployment | - | - | single-row reads and writes or effects outside the program; not modelled, with the reason in `PROJECT.json`. |

How they interact: payment callbacks, redemptions and staff actions create or
end grants in handlers of the API node. `startPendingEdgeGrants` and
`startPendingEdgeExtensions`, run by the serialised loop `syncEdgeOnce`, deliver
whatever is left pending. All talk to the Agent through `core/ws.go`, which
waits for an answer with a timeout. The Agent's events come back through
`processCoreEvent`, concurrently with the handlers. The ledger is written in the
same transactions as the grants.

## The modules

| Module | Models | Proofs |
|---|---|---|
| `GrantSession` | one PC, its grants, handlers, edge loop and Agent | `GrantSession_proofs` |
| `PaymentOrders`, implementing `Purchase` | orders, callbacks, vouchers, debits | `PaymentOrders_proofs` |
| `EdgeSync` | the databases of Cloud, Controller and Manager | `EdgeSync_proofs` |
| `Controllers`, implementing `CommandQueue` | leases, events and the commands of a PC | `Controllers_proofs` |
| `AgentHub` | sockets, goroutines, calls and presence of one PC | `Controllers_proofs`, second part |
| `ProfileLedger` | the saved time of a player on two nodes | `ProfileLedger_proofs` |
| `Reservations` | bookings of PCs | `Reservations_proofs` |
| `SignIn` | the app's code and tokens, the web page's challenge | `SignIn_proofs` |
| `Operations` | idempotency keys and the client's recovery | `Reservations_proofs`, second part |
| `Sums` | the sum of a function over a finite set, for the accounts of the first two and of the ledger | `Sums_proofs` |

Each but `Sums` and the abstract two has an `MC` module with the values of its
constants and one or two `.cfg` files. A definition named after a `Mutant:` comment is a plausible bug of the
definition that follows it; none is used by a specification. What crosses the
borders of the modules: `GrantSession` gives the life of a grant, which
`PaymentOrders` (`Deliver`, `FinishGrant`), `EdgeSync` (`StartPending`,
`SessionEnded`), `ProfileLedger` and `Reservations` (`SessionStarts`,
`SessionEnds`) take in a coarser form; `Controllers` gives the lease that
`EdgeSync` takes for granted (`LeaseMoves`); `AgentHub` is the connection below
both; `Operations` wraps the handlers of `PaymentOrders` and `GrantSession`.

## GrantSession: the life of a grant on one PC

**State.** One function per column of `game_access_grants` that has a meaning
for the life of the grant (`status`, `parent`, `core`, `dur`, `accepted`,
`planned`, `grace`, `ended`, `remaining`, whether there is a player in `owned`),
what gives time back (`credited` and `refunded` are ledger rows, `voucher` the
one of `returned_voucher_id`), the cached PC status, the handlers with
their local variables (`proc`, `reply`), what is on the wire (`cmds`, `wire`),
and the Agent. `played` is an observer: the time the Agent gave.

**Actions.** One per database transaction or command of the code:

| Code | Actions |
|---|---|
| `redeemPlayerBalanceToPC`, `redeemVoucherToPC` | `RedeemStart` / `RedeemExtend`, `SendStart`, `RefundPlayerBalance`, `StartOk`, `StartError` |
| `startPendingEdgeGrants`, `mergeGrantIntoActiveSession` | `SyncPick`, `SyncLookup`, `SyncMerge`, `SendStart`, `StartOk`, `StartError`, `Unmerge` |
| `startPendingEdgeExtensions`, `extendGrantSession` | `SyncExtend`, `MarkApplying`, `SendExtend`, `NoSessionToExtend`, `ExtendOk`, `ExtendError` |
| `handleAdminEndGrant`, `handleAgentEndSession`, `finishGrant` | `AdminEnd`, `KioskEnd`, `EndOk`, `EndError`, `FinishGrant` |
| `expireElapsedGrants`, `reconcileMissingProfileRemainders` | `Expire`, `ReconcileMissingRemainders` |
| `processCoreEvent` | `EventStarted`, `EventExtended`, `EventEnded`, `EventFailed`, `Heartbeat`, `AgentOffline` |
| `sendCommandToClient`, `completeCommand`, `readLoop` | `Dispatch`, `Failed`, `HasReply`, `Answer`, `Forgetting`, `Awaits` |
| a process that stops, a frame that is lost | `Crash`, `LoseCommand` |

A handler that waits for the Agent holds no lock, so every other action may
come between its transactions. `start_session` commands of one grant share the
command id `start_<grant>`; the pending map of `ws.go` then has one entry for
two waiting handlers, which `Forgetting` and `Awaits` describe. The rows that
the edge loop reads in one query are worked off later: `SyncPick`, `SyncLookup`
and the action taken are separate steps, which also covers the loop's memory of
sessions it started itself (`activeByPC`).

**The Agent** is not in the repository. It is modelled from what the code relies
on: one session at a time, starts and extensions applied once per grant id, an
event for everything it does, an answer to every command. Events are processed in
any order and before or after the answers. Constants say how good it is:
`Reports` (deadline, remaining time, or nothing in its replies), `Reported`
(countdowns it may claim), `FailureEvents`, `Lossy`.

**Two ways to give time back.** `finishGrant` looks whether the session has a
player at that moment. If so it writes the ledger, unless the ledger has the key
`session-return:<grant>`; if not it issues a voucher, unless the row has one
(`server.go:7505-7533`). A session bought with a voucher has no player until somebody
extends it with a balance (`player_auth.go:521`) or a paid order
(`server.go:5226`), which `RedeemExtend` models; redeeming a voucher never sets one. So
`ReturnOnce` speaks of the two together and excepts, by the name `LateOwner`, a
session that got its player after its voucher: that one is returned twice.

**Abstractions.** Seconds and minutes are one unit; ids are model values; a core
session is named after the grant that started it; zero stands for NULL in time
columns. QR codes, the texts of errors (but for the one distinction the retry
query makes: `offline_failed`), invoices and authorisation are left out. All
balance grants belong to one player, so the hand-over to another PC does
nothing on this PC but fail or delay the start.


## PaymentOrders: callbacks and what they buy

**State.** The columns of `payment_orders` that decide (`order` is its status,
`ext`, `voucher`, `paymentID`, `orderDur`), the rows of `payments`, for each
order the number of its grants and one record of them (`rows`, `grant`, `dur`,
`core`, `parent`, `owned`), the player's ledger (`balance`, and the
`session-start`, `session-refund` and `session-return` rows as `debit`,
`refunded`, `returned`), the vouchers (`spent`), the row lock and the request
handlers with what they have read.

| Code | Actions |
|---|---|
| `handleCreateCheckout` | `CreateCheckout` |
| Click prepare, complete, error | `ClickPrepare`, `CompletePayment`, `ClickError` |
| Payme CreateTransaction, PerformTransaction, CancelTransaction | `PaymeCreate` and `PaymeCreateWrite`, `PaymePerform`, `PaymeCancel` and `PaymeCancelWrite` |
| `completeMockPayment` | `CompletePayment` |
| `applyPaymentSuccess`: lock and read, then one of three commits or rollbacks | `LockOrder`, then `CommitSession`, `CommitExtension` or `RollbackExtension` |
| the same, after its transaction | `MakeURL`, `URLFails` (with `refundPlayerBalance`), `StartOk` |
| no answer, a process that dies | `Stop` |
| `redeemVoucherToPC` taking a voucher | `RedeemVoucher` |
| the life of a grant, from `GrantSession` | `Deliver`, `DeliveryFails`, `FinishGrant` |

`SELECT ... JOIN pc_refs ... FOR UPDATE` locks the order and the PC, so the
orders of one PC exclude one another: `lock` is one variable. The reads of the
Payme methods come before that lock, which is why they are steps of their own;
the updates outside `applyPaymentSuccess` wait for it (`Unlocked`). The status of
the order's grant is read under the lock but is not protected by it: `Deliver`
and `FinishGrant` may come between `LockOrder` and the commit.

**Abstractions.** One PC, one club, one player and one price; amounts, receipts,
splits and fiscal data are left out, an amount that does not match is refused
before anything is written. The status `created` is never visible outside the
checkout's transaction, and `expires_at` of an order is written but never
compared, so neither is modelled. A repeated delivery of an extension, and
whatever an Agent does, is `GrantSession`'s: here a grant is accepted, fails or
ends at any time. Click's shop-split form makes the same updates as the plain
one; Payme's sandbox page and cash sessions are left out.

**`Purchase`** says what an order promises: `Buy` once, with at most one voucher,
`DebitLater` if a repeated callback finds a balance where the first found none,
`Refund` once, and vouchers that are spent elsewhere. `PaymentOrders` implements
it with the identity as refinement mapping: four of its variables are those of
`Purchase`, every other step is a stutter.


## EdgeSync: three databases of one club

**State.** One row per kind of table is enough, since `applyEdgeSnapshotData`
merges row by row: `db[n]` holds what the Cloud owns (a version number), the
cached status of the PC, an order, a grant, a booking with its time and its
`updated_at`, and whether the session's return is in the ledger. `phase` and `snap`
are where the round of a local node stands and the snapshot in its hands, `lease`
the node whose Agent connection the Cloud recognises, `session` the Agent's session,
`relayed` the events on the way, `hour` the time and `clock` the stamp of the last
write to a booking. `nodes` says which local nodes the club has and `left` what may
still come from outside. `reopened` is an observer.

| Code | Actions |
|---|---|
| `syncEdgeOnce`, `edgeSnapshotData` (no transaction: early tables, later tables) | `BeginPush`, `FinishSnapshot`, `Pull`, `ApplyPulled` |
| `handleEdgeEvents` with a snapshot: the fence, then the apply | `FinishSnapshot`, `ApplyAtCloud` |
| `applyEdgeSnapshotData` | `Merge` and one `Merge...` per rule |
| `startPendingEdgeGrants` in its coarse form, the booking of the player included | `StartPending` with `Claimed` |
| `forwardEdgeCoreEvent`, `forwardManagerCoreEvent`, their arrival | `Relay`, `Arrive`, `Apply`, `Heartbeat` |
| `finishGrant` with its booking, `expireElapsedGrants` | `SessionEnded` and `Arrive` with `Finished` and `Consumed`; `Expire`, `Pull` |
| `applyPaymentSuccess`, also repeated, for a grant that is not accepted | `PaymentSucceeds` |
| the requests about a booking, the sweep on any node | `CancelBooking`, `RescheduleBooking`, `StartBooking`, `Sweep` |
| the catalogue, a lease that moves | `EditCatalog`, `LeaseMoves` |
| time, the Agent's session | `HourPasses`, `TimeOver`, `AgentStops` |
| requests that fail, events that are lost | `RoundFails`, `LoseRelayed` |

Every node writes bookings: the Cloud for the app, the node with the Agent when a
session of the player starts, whoever processes its end, and any node in its sweep. The
latest `updated_at` wins wherever two of them meet, so a cancellation can be
replaced by what a Controller that had not heard of it wrote later. `CancelledStays`
says what is true all the same: it is never replaced by an older row, and never
by one that is confirmed.

**Abstractions.** One row of each table; tables with the same merge rule are one
field; a row a snapshot does not contain stays. The Manager only pulls (the
repository's README says that it pushes too; the code does not). The app talks to
the Cloud. Stamps are those of one clock, so clocks of the nodes that differ are not
covered. A session's grace time is left out, a start that the Agent refuses is final
here. The merging of players and balances by phone number is left out, the ledger's
exchange is in `ProfileLedger`, what happens between two Controllers and the lease is
in `Controllers`.

## Controllers and CommandQueue: who speaks for a PC

**State.** Where the Agent is connected and how often it has been (`at`, `conn`),
relayed events in flight, `controller_agent_leases` (`lease`), the Cloud's `view`
of the PC, `edge_pc_commands` (`queue`), what each node has fetched (`todo`),
completions in flight. `ranBy` and `disturbed` are observers.

| Code | Actions |
|---|---|
| the Agent's connections and events | `Connect`, `Disconnect`, `Heartbeat` |
| `acceptControllerAgentEvent`, `handleEdgeEvents` | `Accept`, `Arrive`; `LeaseExpires` for the TTL |
| `activeControllerNodeForPC`, the enqueue with its join | `ActiveControllerNodeForPC`, `Enqueue` |
| `processPendingEdgePCCommands` | `Fetch`, `Execute` |
| `handleEdgePCCommandComplete` | `Complete` |
| losses, time-outs, restarts | `Lose`, `CompletionTimesOut`, `Restart` |

Events are relayed by a goroutine each: `events` is a set and anything in it may
arrive next. Which nodes the Cloud takes for healthy is any set, since a node that
is down may have been heard of and one that is up may not. `CommandQueue` is what
the dashboard is promised; the mapping shows the rows as they are and takes a
command as executed when some node has executed it.

## AgentHub: sockets of one PC

**State.** The sockets (`link`, `inbox`, `out`), the goroutines of each (`reader`,
`done`), `clients[pc]` (`client`), events and queries on the way to the Server,
`pc_refs.status_cache` (`status`), the calls and the socket each has picked.

| Code | Actions |
|---|---|
| `ServeHTTP`, `registerClient`, `unregisterClient` | `Register`, `Unregister` in `Finish` |
| `readLoop`, `writeLoop`, `watchdog`, `close` | `Read`, `ReadFails`, `Write`, `CloseReplaced`, `Watchdog` |
| `clientForStart`, Wake-on-LAN and the wait | `Pick`, `WakeUp`, `WakeFails` |
| `sendCommandToClient`, `completeCommand` | `Send`, `GiveUp`, `CompleteCommand` |
| `agent_online`, heartbeat, `agent_offline`, `refreshConnectedPCStatus` | `Read`, `Offline`, `RefreshAnswered`, `RefreshWrites` |
| the process ends (also by closing one channel twice) | `RestartServer` |

The pending map and the shared command ids are `GrantSession`'s. The Agent is
taken from how the code treats it: one socket at a time; it may fall silent
without closing.

## ProfileLedger: saved time on two nodes

**State.** `player_time_ledger` of each node (a set of rows with their unique
key, kind, author and value), its projection `player_club_balances`, and of each
grant the status per node, `time_value_rate` and seconds.

| Code | Actions |
|---|---|
| `lockTimeValue`, `recordTimeValue` | the operators of that name |
| `redeemPlayerBalanceToPC` | `RedeemPlayerBalance` |
| `refundPlayerBalance` | `RefundPlayerBalance` |
| a start confirmed whatever the row has become | `ConfirmStart` |
| `finishGrant` with its return | `FinishGrant` |
| `repairProfileBalanceProjection`, `repairKnownProfileLedgerInflation` | `RepairProjection`, `RepairLedger` |
| snapshots of grants, ledger and projection | `Synchronise`, `Import`, `MergeStatus` |

Values are integers, rates are those of `Prices`, and the division is the code's:
the part of a balance that buys no full second stays. One player and one club, and
sessions without an extension, whose purchases a root's return would include; rows
of one node's retired predecessor are in `Init`.

## Reservations: bookings of PCs

**State.** `mobile_reservations`, the transactions and requests in progress with
what they have read (`reqs`), the session of each PC and the past ones, the clock.

| Code | Actions |
|---|---|
| `handleMobileReservationCreate`, `handleMobileReservationReschedule` | `BeginCreate` or `BeginMove`, `CheckPc`, `Commit`, `Abort` |
| `handleMobileReservationCancel` | `Cancel` |
| `handleMobileReservationStart` (its `FOR UPDATE` is outside a transaction) | `BeginStart`, `Start` |
| `reservationAllowsPlayerSession` and the sessions it lets through | `Checkout`, `Redeem`, `SessionStarts`, `SessionFails` |
| `finishGrant`, the sweep of the kiosk's bootstrap | `SessionEnds`, `Sweep` |

Advisory and row locks are held to the end of a transaction: `PlayerLocked`,
`PcLocked` and `RowLocked` read them off `reqs`. Time is counted in the windows of
15 minutes the code uses. A transaction sees the clock move at most once
(`Tick`): one that stayed open for more than half an hour could leave a player
with two bookings, since the check of the player's bookings is made once. A
cancellation is one step here; in the code its `now()` is read before it waits for
the row's lock, so one that waits across the limit of 15 minutes still succeeds.

## SignIn: the app and the web page

**State.** For the app: `mobile_auth_challenges` (`codes`), `mobile_sessions` with
their token pairs (`sessions`), the app's vault (`pair`) and its requests
(`calls`). For the page: `player_auth_challenges` (`logins`), players with a chat
(`bound`), voucher links and the messages to the bot. The two ways meet only in
the players table, so an execution has one of them (`client`).

| Code | Actions |
|---|---|
| `handleMobileChallenge`, `handleMobileVerify` | `Challenge`, `SendMobileOTP`, `Expire`, `BeginVerify`, `Reject`, `AbortVerify`, `Login` |
| `handleMobileRefresh`, `handleMobileLogout` | `Lock`, `Rotate`, `RotateFails`, `Revoke`, `SessionExpires` |
| the app: `api_client.dart`, `auth_repository.dart` | `Refresh`, `Logout`, `Reply`, `SaveFails`, `GiveUp`, `LoseCall` |
| `handleStartPlayerAuth`, the mini app, the page's poll | `StartPlayerAuth`, `MiniAppPlayerAuth`, `LoginExpires`, `Poll` |
| `processTelegramUpdate`, `claimTelegramPlayerAuthChallenge`, `completeTelegramPlayerAuth` | `StartLink`, `Contact`, `VoucherLink`, `HandleFails` |

A person is his phone and his chat; a voucher's link carries the phone of the
person who opens it. Rate limits, names, IP addresses and the texts of the bot are
left out.

## Operations: idempotency keys

**State.** `mobile_operations` by key (`row`), the handler running under a key
(`exec`), what was made under it (`made`), requests and questions on the way, and
the client's pending key with what it knows.

| Code | Actions |
|---|---|
| `mobileMutation` | `Claim`, `Respond`, `RespondFails` |
| the wrapped handler and `linkMobileOperation` in its transaction | `Make`, `Reject`, `FailLate` |
| `handleMobileOperation`, its conditional deletion | `Lookup`, `Delete` |
| `payment_repository.dart`, `recover` | `Ask`, `AskAgain`, `Resend`, `ReplaceKey` |
| the server restarts, requests are lost | `Crash`, `LosePost` |

The wrapped handlers are those of `PaymentOrders` and `GrantSession`; here they
make something, or nothing, and then fail or not.

## The runs

A cfg gives values to the constants and nothing else. All passing runs explore
their state space to the end.

| Run | Instance | Shows |
|---|---|---|
| `single` | one grant, bought with a balance or a voucher, lasting 1 or 2 units; a handler and the edge loop; clock to 3, 2 commands, 1 fault, the three together at most 5 (`SingleBounds`); events and replies in any order | `TypeOK`, `TimeConserved`, `ReturnWithinPlan`, `PaidStartIsDelivered` |
| `extensions` | two grants of one unit, one bought with a balance and one with a voucher, either of them the root and the other its extension; two commands and a fault, after a fault a third command; the clock from 1 to 2 beside at most two of these (`ExtendedBounds`); commands can be lost | `ExtensionCountedOnce`, `AgentAgreesOnDuration`, `ReturnOnce` |
| `payments` | a Click order of the player, a Payme order of a guest, one payment each, one voucher that both may name, two handlers, a balance of 1, direct start | `PaidIsGranted`, `VoucherCountedOnce`, `BalanceConserved`, `OncePerOrder` |
| `payment_repeat` | one test payment, repeated | violates `FullSession` |
| `sync` | eight clubs (`AllMixes`): one or two local nodes, old or new, the Agent at either, two events in flight, and three to five changes and faults that belong together, see below | `ReturnedOnlyIfEnded`, `CloudOwnsCatalog`, `CancelledStays`, `Converges`, `OwnerStatusWins` |
| `controllers` | two nodes, two connections, one command, two events in flight, two faults | `OneExecutor`, `LeaseFollowsAgent`, `QueueIsKept` |
| `hub` | two sockets, one call, room for one command, one restart | `ReplacedIsSilent`, `CallsReturn`, `PresenceSettles` |
| `ledger` | two nodes, two grants, prices 2 and 3, a value of 2 and an impossible return of 1, one integrity repair | `TypeOK`, `NoProfit`, `SpendsOnlyLedger`, `RepairIsClean`, `LedgersMeet` |
| `reservations` | two players, one PC, starts at 2 and 5, sessions of 2, two bookings, two requests at once, one session, clock to 7 | `NoDoubleBooking`, `OnePerPlayer`, `CompletedWasUsed`, `CancelledStays`, `BookingsClose` |
| `signin` | two people, two codes of two attempts, three pairs, two requests, two challenges of the page, one message at a time, one fault | `OneSessionPerCode`, `OneLiveRefresh`, `NoSpuriousReuse`, `IdentityKept`, `StaleGoes` |
| `signin_contact` | the same | violates `ContactVerifies` |
| `operations` | two keys, two requests and three questions at once, five faults | `AtMostOnce`, `NeverForgotten`, `Recovered` |

**Why the bounds are enough.** Every hazard here is between two actors, so each
instance has two of what can collide: two handlers, two orders, two Controllers,
two sockets, two bookings, two refreshes. What comes one after the other is
bounded by what a single counterexample needs: a second connection to take over
from the first, a third token pair to make the first two old, a booking that runs
out and one that follows it, a second key after a rejected one. One fault reaches
every single failure in every state; `sync`, `controllers` and `operations` have
more because their protocols retry. Each property is violated when the code has
the bug that its mutant in `PROJECT.json` describes, in the same instance.

Two constants make a run weaker than the code, because the code is:
`single` has `Lossy = FALSE` and `Reports = "deadline"`. A start whose command is
lost ends in `command_timeout`, which the retry query does not recognise, so
`PaidStartIsDelivered` would fail; and an Agent whose late reply carries no
deadline overwrites the planned end, so `TimeConserved` would. `TimeConserved` is
checked for one grant only; with extensions it holds under the four hypotheses of
`ConservedWithExtensions` and not without them (see below).
`SingleBounds` leaves out of `single` the executions with two commands, a fault and a
clock that reaches 3 (what `single` says of safety is also proved, for every bound).
`ExtendedBounds` gives `extensions` the start, the extension, a fault and the retry, or
an end instead of a retry, while the clock stands, and a moving clock beside two
commands, or a command and a fault: an extended session that expires, is revived or is
repaired is in, one that also suffers a fault or an end command is not.

**The clubs of `sync`.** An execution has one of the sets of changes in
`MCEdgeSync`, because all of them together are too many. They are chosen by what meets
in a merge: a payment whose session starts at the Manager, stops there and comes back
with the Agent (`Failover`); a callback that is repeated before or after the end,
with a lost event and a failed round (`Repeated`) or at a Manager (`RepeatedAway`);
a booking that is moved, cancelled, claimed and used up while a session starts and
ends (`Booked`, `UsedUp`), or swept on three nodes (`Overdue`); an edited catalogue
and nodes without a database (`NewNodes`, `NewPrimary`). The proofs of its safety
properties have no bound.

Deadlock is checked in `single`, `extensions`, `sync` and `ledger`. The other
systems may rest: everything is paid, the Agent is gone for good, no code is
asked for.

## Fairness

Nothing is assumed of customers, staff, faults or, but for `Reservations`, the
clock. What is assumed, and why:

| Module | Fair steps | Because |
|---|---|---|
| `GrantSession` | steps of a handler, the edge loop, the Agent and its events, heartbeats | `sendCommandToClient` selects on a timer in every wait, the loop is a ticker, the read loop goes on; an Agent that comes back reports itself |
| `EdgeSync` | rounds, heartbeats, events that are not lost | `RunEdgeSync` starts one every second; faults are bounded, they stop. Not the end of a session (`TimeOver`, `SessionEnded`) and not the sweeps: `Converges` speaks of executions in which in the end the Agent is with the primary and no session goes on (`Settled`) |
| `Controllers` | arrivals by kind of event, heartbeats, `Fetch`, `Execute`, completions | goroutines per event, rounds every second; a restarted Controller comes back |
| `CommandQueue` | an answer to a queued command | implemented by the above (`QueueIsKept`) |
| `AgentHub` | goroutines, timers, heartbeats | nothing says that an Agent dials, leaves or answers |
| `ProfileLedger` | rounds of synchronisation | as in `EdgeSync` |
| `Reservations` | the sweep, the clock, the end of a transaction | the kiosk of every PC asks for its bootstrap again and again |
| `SignIn` | the app uses its pair, the server works off requests, answers arrive | a lost answer is a fault, and those are bounded |
| `Operations` | questions, their answers, the end of a handler | the client asks every three seconds, a handler has 90 |

## What is proved

Each theorem holds for every value of the constants that satisfies the named
`ASSUME`s of its module; TLC evaluates those in every run. All proofs follow one
scheme: an inductive invariant, a lemma per action or group of alike actions, one
temporal step at the end. The proofs about `AgentHub` and
`Operations` are the second parts of the proof modules of a neighbour, which extends
both; that is why `Init`, `Next`, `Spec` and a few more names of these two modules
carry a prefix.

| Module | Theorems | Why the invariant is what it is |
|---|---|---|
| `GrantSession_proofs` | `TypeCorrect`, `ReturnedOnce`, `ReturnedWithinPlan`, `CountedExtensions`, `AgreedDuration`, `ConservedTime`, `SingleConserved`, `ConservedWithExtensions` | `TypeOK` is inductive and more than types: a handler that is not idle holds a grant and a root, no time is negative (what `GREATEST(..., 0)` is for). Only `FinishGrant` and `ReconcileMissingRemainders` give back, bounded by `BoundedSessionRemainder`, and into each channel where nothing was. What is in the ledger belongs to an owned session, and nobody loses it again (`CreditOwned`): that leaves a voucher given before there was an owner as the only way to two returns (`LateOwner`). For the extensions, `CountInv` and `DurationInv`, and for the time of a session, `TimedInv` and `BudgetInv`, see below |
| `PaymentOrders_proofs` | `TypeCorrect`, `Granted`, `VoucherOnce`, `Conserved`, `Implements` (`Spec => OncePerOrder`) | a transaction with the lock still sees what it read (`LockedCommit`), a cancellation that saw a paid order has a payment to show (`CancelSeen`), an order with a grant has nothing left to redeem (`VoucherTaken`). `Conserved` needs no more than the types: a commit, a refund or a return changes one order and the balance by the same amount |
| `ProfileLedger_proofs` | `TypeCorrect`, `NoProfitHolds`, `SpendingIsCovered`, `RepairCleans` | what each row is worth, see below |
| `EdgeSync_proofs` | `TypeCorrect`, `CatalogOwned`, `ReturnedEnded`, `CancelledForGood` | what is said of databases is said of snapshots under way too; of one that is half read, it is said of the database it is read from. For bookings see below |
| `Controllers_proofs` | `TypeCorrect`, `ExecutedByOne`, `Implements` (safety part of `QueueIsKept`) | a command's target is written once, and what a node has fetched or completed is addressed to it |
| `Controllers_proofs`, of `AgentHub` | `HubTyped`, `LastIsHeard` | the registered socket is read, every other one that is read has been told to close, and a call past picking has picked a socket |
| `Reservations_proofs` | `NeverTwice`, `OneEach`, `UsedUp`, `CancelledForGood` | what a request may rely on when it commits, because of its locks: the PC it found free is free, its player has no booking, the row it moves is as it was |
| `SignIn_proofs` | `TypeCorrect`, `CodeOnce`, `NewestOnly`, `ReuseIsReal`, `IdentityStays` | all pairs but the newest are used, the request with the lock has seen the pairs as they are, one refresh waits, and while every answer was heard the vault or an answer under way has the newest pair |
| `Reservations_proofs`, of `Operations` | `OpsTyped`, `MadeOnce`, `Known` | a handler runs only under a key nothing was made under, and links the row in the step that makes something |

**Sums.** An account is a sum over a finite set, and what a fold computes is an
induction over the set. `Sums_proofs` makes it without an induction rule: strict
inclusion is well-founded on the subsets of a finite set, so of the sets that
refute a claim one includes no other, and what holds of that set without one
element gives the contradiction. From there come the four facts that are used:
a sum without an element (`SumRemove`), of functions that agree or differ in one
place (`SumAgree`, `SumChange`), and its growth and sign. They need
`IsFiniteSet(Grant)` and `IsFiniteSet(Order)`, which the tables justify.

**Extensions.** `ExtensionCountedOnce` says of a session's duration that it is at
most its own and that of the extensions that were ever applied to it
(`AppliedChildren`). That is not inductive: an extension that was put back in the
queue (`Unmerge`) still looks applied, and if it were in the sum it could be added
again. So `CountedOnce` bounds the duration by the applied children whose status lets
nobody apply them again (`Counted`), and `Handlers` says what keeps it so: a
handler that works on an extension holds a child of its own root and never the root
itself, the edge loop starts roots only, and an extension that the loop has merged
nobody else is working on, so that putting it back takes nothing out of a sum.

**The recorded duration.** `AgentAgreesOnDuration` compares two parties that never
meet: the row, and the Agent's memory of what it ran and applied. `DurationInv` says
of each thing between them what it stands for. The Agent runs no grant that it
applied and applies none that it ran (`AgentKnows`). An `accepted_at` is the mark of a
grant that was run or applied, and one that was applied and has it never waits again
(`RowMatches`), so that confirming an extension adds a new element to the sum and
reviving a session adds none. A handler that heard of success heard it of its own
grant (`HandlerHeard`), because of which command can answer which handler
(`CommandMatches`); a started event names a grant that was run (`EventMatches`). The
property was first stated for settled children only, with none of them missing
unless the session is over. That is false: a voucher's start error marks a grant
`start_failed`, or `offline_failed`, that was merged and applied meanwhile, which
takes an instance larger than the run's to see. The second kind the edge loop starts
again. What is stated now, the sum and where a missing one is, holds of every
execution.

**The time of a session.** `TimeConserved` adds what was returned to what was played.
The two are known to different parties: the Agent knows when the session really
ends, and the return is the difference between the planned end in the row and the
clock. So the invariant (`TimedInv`) says that there is one end for each session the
Agent ever ran (`end`, fixed by `AgentStart` and by nothing else) such that every
deadline anywhere is this end: that of the running session, of the rows, of the
replies that handlers are about to read and of the events on the wire. What was played
and what is left until `end` is then never more than what was bought
(`PlayedWithin`). A return needs a session that is over on the Agent, and the row
must not be revived by one that is not: an answer to an end command or an ended
event is proof that the session has stopped, and an Agent runs a session once. A
row that expired is not repaired later, because it expires no earlier than `end`
(`RowKnows`). That answers reach only the handler that they are meant for is part of
the invariant too (`CommandSound`): the starts of one grant share a pending entry.
`ConservedTime` assumes `Reports = "deadline"`, that is an Agent whose replies carry
the end of the session, and speaks of executions in which no grant becomes the
extension of another (`[]Unextended`); without either the property fails. The grants
may be as many as one likes, one after the other or waiting. `SingleConserved` has
`MaxGrants = 1` in place of the second hypothesis: then the edge loop can merge
the grant into itself only (`SoldInv`), and a merged grant is never extended. The
invariant was model-checked with two grants and with three commands, two faults and
lost commands before it was proved.

**The time of an extended session.** An extension moves the end, so there is no one
end to compare every deadline with. What every deadline has in common is that it can
be afforded: `Affords(r, end)` says that the time played so far and the time left until
`end` are within what was bought for `r`, the applied extensions included. It stays
true when time passes (played or not), when an extension is applied, and when the
deadline is an old one, which is why answers and events may come in any order.
`BudgetInv` says it of the running session, of the planned end of each row, of the
answers handlers are about to read and of the events on the wire; and of what was
returned, that it belongs to a session that is over and that it fits with what was
played. It needs the shape of the tables as well: an extension is a child of a root for
good, and `core_session_id` of a root is the root itself, of a child its parent. Proved
from it, with `CountInv` and `DurationInv`, is `ConservedWithExtensions`. It assumes
`Reports = "deadline"` as above, and speaks of executions in which

- no grant is merged into a running session by the edge loop (`[]Unmerged`): a merge
  makes a child of a grant that may have run, whose late `ended` event then ends the
  session it was merged into, and one that fails after the Agent applied it takes
  the child out of the session again;
- no session gets an owner after it was returned as a voucher (`[]OwnersInTime`): it
  may be returned to the ledger too;
- no sign-in repairs a missing return (`[][~ReconcileMissingRemainders]_vars`): a
  session_extended event that arrives after the end moves the planned end of the
  ended row (`server.go:3263`), and the repair gives back the difference.

TLC finds `TimeConserved` violated without the first or the last, and in `extensions` a
session that is returned twice without the second. Purchases at the kiosk's QR, their
retries by the loop, vouchers, and all faults are in. The invariant was model-checked
with two grants, two faults and lost commands and simulated with three grants and
three handlers before it was proved.

**The ledger.** What a grant took and gave back is in several rows, written by two
nodes, and each node knows only those it wrote or imported. The invariant speaks of
one row at a time: a start takes what its seconds cost, nothing gives back more, a
reversal takes back what its writer had returned, and the key of a row says which
of these it is, so that a node has one row of each (`UniqueKeys`, kept by the import's
`ON CONFLICT`). An import is then a set of rows whose worth is known. `NoProfit`
adds up two rows, `RepairIsClean` those of one grant in pairs: a refund with its
start, each reversal with its return.

**Bookings.** That a cancelled booking is not confirmed again is a statement about
all copies of it, in databases and in snapshots under way. `Bookings` says: no stamp
is later than the clock, and two copies with one stamp are the same; a cancelled copy
is not later than what the Cloud has, where bookings are cancelled; a confirmed copy
is older than any cancelled one, since only the Cloud confirms or moves a booking and
it does so to a confirmed one; and all cancelled copies are the same. So when a merge
replaces a cancelled copy, what replaces it is not confirmed.

**Only model-checked.** All liveness, that is `PaidStartIsDelivered`, `Converges`,
`OwnerStatusWins`, `LeaseFollowsAgent`, the fairness of `QueueIsKept`,
`CallsReturn`, `PresenceSettles`, `LedgersMeet`, `BookingsClose`, `StaleGoes` and
`Recovered`: liveness under fairness and `ENABLED` are out of the prover's reach.
Every invariant that a run checks, and every action property of a passing run, is the
statement of a theorem.
No module declares a `RECURSIVE` operator; sums are folds of the community modules.

## Where the code disagrees with what it says

`payment_repeat` (`applyPaymentSuccess`, "the time just purchased plus the
player's existing club balance"): the first callback debits the balance and leaves
the grant pending; the provider repeats it; the second finds no balance and
overwrites the grant's duration with the bought time alone. The debit stays in the
ledger and in no session. Time that reached the balance in between is added and
never debited, since the key `session-start:<grant>` is taken.

`signin_contact` (the page: open the bot, share your number): with updates polled,
or the webhook's secret set, a contact is for the mobile sign-in first, and ends
there. That sign-in never waits for a contact any more, so the page's challenge
is not verified by it; a voucher's link still does it.

The models contain more that a reader of the code should know. None has a run of its own.

- Grants: a session can be returned twice. The edge loop and a handler send the start
  of a voucher's grant; the handler hears first, the customer leaves, the session is
  returned as a voucher; the loop's answer revives the row (4067), as a late
  session_started would (3249); an extension bought with a balance makes the player
  its owner (`player_auth.go:521`); a late session_ended finds an owner without a
  ledger row and credits him (7505). TLC reaches it in `extensions`.
- Grants, further: the start reply's unconditional update revives an ended session
  (`server.go:7226`). An extension known only by its event leaves the old grace end
  (3265). The loop's stale row can be merged into itself (4234), and it can start a
  grant its handler has just refunded (`player_auth.go:637`). A session that ends
  between claim and read strands a child in `applying` (5569). The loop's merge undoes
  what it did "instead of stranding a paid purchase as an unstartable child grant"
  (4243-4245), but for a grant that is `pending` again only: not for this one, which
  no query looks for any more. TLC reaches it with two grants in a few seconds. The
  zero remainder of a time-expired event becomes the planned one (7457). A pending,
  debited extension is closed with its session without a refund (7445), and when the
  Agent applied it, the session's duration never has it, also when a late start reply
  revives the session; `AgentAgreesOnDuration` names this among the places where an
  applied extension may be. A start in flight does not keep the loop from starting
  another grant.
- Payments: a replay after the session has ended sets the ended grant back to
  pending; a cancellation decided before a commit and written after it leaves a
  paid order `failed`; a perform decided before a cancellation pays the cancelled
  order; two Payme transactions may both pass the check for another one.
- Synchronisation: a paid order at the Cloud is overwritten by a Controller's older
  row of it until the next pull (4941). A session_started that arrives after the end
  reopens the grant, and so does a repeated callback (the exception `reopened`); the
  return is in the ledger then, and the primary's ended row wins again with its next
  push. A cancelled booking can be replaced by a Controller's later row of it (4918).
  What a Manager writes goes nowhere: a booking it closed later than the Cloud, and
  the end and return of a session whose event the Cloud skipped or never got; the
  Cloud's expiry then ends that session at its planned end, which leaves the repair of
  missing returns nothing to give. Prices, names and status of zones and tariffs are
  overwritten at the Cloud by the primary's next push (4790, 4873), against "Cloud owns
  catalog names and visibility" (4740): an edit at the Cloud that the push overtakes
  is lost.
- Controllers: the end of a Manager's connection is relayed without a connection id and accepted from
  a former Controller too; once a lease has run out, heartbeats are refused until
  the Agent connects again.
- Ledger: the projection's repair skips totals that are not positive
  (`time_value.go:206`); two nodes may both reverse one impossible return.
- Sign-in and operations: a voucher's link is used up before its phone is bound,
  and a polled update is dropped on an error; a logout during a refresh is followed
  by the refresh's answer; the client replaces its key after a rejection it hears.

## What is not modelled

- The hand-over of a player between two PCs and the repair of duplicate active
  sessions: both need two PCs with an Agent each in the instance of `GrantSession`,
  beyond what TLC finishes. Until then a hand-over delays or fails a start.
- Cash sessions: one handler, no retry and no counterpart; a failed commit after
  the start has no compensation that could be checked. The mobile test payment is
  `PaymentOrders`' test payment under a key.
- Payme's sandbox page, receipts, fiscal and split data: no decision of the modelled
  state depends on them.
- Merging players and balances by phone number in a snapshot, and scheduling of
  Agent updates in a round: no property here speaks of them.
- Controller activation: one conditional UPDATE. Wake on LAN and its relay: no
  state; the wait that follows is in `AgentHub`.
- Clubs, zones, tariffs, staff, reports, catalogue, favourites, lists, rate limits:
  single statements. Most are raced by nothing; edits of zones and tariffs are, by
  snapshots, as said above.
- Updates of Agent and Controller, start-up, migrations, the mock core, the web and
  Flutter clients (but for the token vault and the pending operation), deployment:
  effects outside the program, wiring or views.
