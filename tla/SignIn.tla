------------------------------- MODULE SignIn -------------------------------
(***************************************************************************)
(* The two ways a player gets in.  The mobile app: a code by SMS, then a   *)
(* session whose tokens are replaced again and again, by requests whose    *)
(* answers may get lost.  The web page of a PC: a link to the Telegram     *)
(* bot, whose messages the server handles one by one, once or twice.       *)
(***************************************************************************)
EXTENDS Naturals, Sequences, FiniteSets

CONSTANTS Person,       \* a person is his phone and his Telegram chat
          None,
          MaxCodes,     \* bound on the codes the app asks for
          MaxAttempts,  \* "attempts<5"
          MaxPairs,     \* bound on the token pairs of a session
          MaxCalls,     \* bound on the app's requests under way
          MaxLogins,    \* bound on the challenges of the web page
          MaxMessages,  \* bound on the messages to the bot under way
          MaxFaults     \* bound on lost answers, failed commits and repeats

ASSUME PersonAssumption == None \notin Person
ASSUME BoundsAssumption ==
  /\ {MaxCodes, MaxAttempts, MaxPairs, MaxCalls} \subseteq Nat \ {0}
  /\ {MaxLogins, MaxMessages, MaxFaults} \subseteq Nat

VARIABLES
  codes,     \* mobile_auth_challenges of the app's device
  sessions,  \* mobile_sessions and mobile_tokens, with the lock of the row
  pair,      \* the token pair in the app's vault
  calls,     \* the app's refresh and logout requests
  lost,      \* sessions with a pair that was issued and may not have been heard of
  logins,    \* player_auth_challenges
  bound,     \* players with a telegram_chat_id
  links,     \* people whose voucher link is still unused
  inbox,     \* messages to the bot, not handled yet
  client,    \* who comes: the two ways meet in the players row only
  mobileFirst,  \* updates are polled, or the webhook's secret is set
  faults

mobileVars == <<codes, sessions, pair, calls, lost>>
setting == <<client, mobileFirst>>
webVars == <<logins, bound, links, inbox, setting>>
vars == <<mobileVars, webVars, faults>>

NoPair == [session |-> 0, gen |-> 0]
Unused(s) == (1..sessions[s].pairs) \ sessions[s].used
Locked(s) == \E c \in calls : c.session = s /\ c.step = "locked"

TypeOK ==
  /\ codes \in Seq([status : {"otp", "used", "expired"}, attempts : 0..MaxAttempts,
                    told : BOOLEAN, check : {"none", "right", "wrong"}])
  /\ Len(codes) <= MaxCodes
  /\ \A i \in DOMAIN codes : codes[i].check # "none" => codes[i].status = "otp"
  /\ \A s \in DOMAIN sessions :
       /\ sessions[s].code \in DOMAIN codes
       /\ sessions[s].state \in {"live", "reuse", "logout", "expired"}
       /\ sessions[s].used \subseteq 1..sessions[s].pairs
  /\ pair = NoPair \/ (pair.session \in DOMAIN sessions /\ pair.gen \in 1..sessions[pair.session].pairs)
  /\ \A c \in calls : c.kind \in {"refresh", "logout"}
                      /\ c.step \in {"sent", "locked", "granted", "denied", "done"}
  /\ lost \subseteq DOMAIN sessions
  /\ \A w \in DOMAIN logins :
       /\ logins[w].status \in {"active", "awaiting_contact", "verified", "expired"}
       /\ logins[w].status = "verified" => logins[w].player = logins[w].chat
       /\ {logins[w].chat, logins[w].player} \subseteq Person \cup {None}
  /\ bound \subseteq Person /\ links \subseteq Person
  /\ client \in {"app", "web"} /\ mobileFirst \in BOOLEAN
  /\ faults \in 0..MaxFaults

Init ==
  /\ codes = <<>> /\ sessions = <<>> /\ pair = NoPair /\ calls = {} /\ lost = {}
  /\ logins = <<>> /\ bound = {} /\ links = Person /\ inbox = {}
  /\ client \in {"app", "web"} /\ mobileFirst \in {client = "web", FALSE}
  /\ faults = 0

Fault == faults < MaxFaults /\ faults' = faults + 1

-----------------------------------------------------------------------------
(***************************************************************************)
(* The code.  It is committed before it is sent; a code that could not be  *)
(* sent is withdrawn.                                                      *)
(***************************************************************************)
Challenge ==
  /\ client = "app" /\ pair = NoPair
  /\ Len(codes) < MaxCodes
  /\ codes' = Append(codes, [status |-> "otp", attempts |-> 0, told |-> FALSE, check |-> "none"])
  /\ UNCHANGED <<sessions, pair, calls, lost, webVars, faults>>

SendMobileOTP(i) ==
  /\ codes[i].status = "otp" /\ ~codes[i].told
  /\ codes' = [codes EXCEPT ![i].told = TRUE]
  /\ UNCHANGED <<sessions, pair, calls, lost, webVars, faults>>

\* The provider refuses, or three minutes have passed.
Expire(i) ==
  /\ codes[i].status = "otp" /\ codes[i].check = "none"
  /\ codes' = [codes EXCEPT ![i].status = "expired"]
  /\ UNCHANGED <<sessions, pair, calls, lost, webVars, faults>>

\* Mutant: a used code is looked up as well.
BeginVerifyUsed(i, guess) ==
  /\ codes[i].told /\ codes[i].status # "expired" /\ codes[i].check = "none"
  /\ codes[i].attempts < MaxAttempts
  /\ codes' = [codes EXCEPT ![i].status = "otp", ![i].check = guess]
  /\ UNCHANGED <<sessions, pair, calls, lost, webVars, faults>>

\* handleMobileVerify: the UPDATE of the attempts locks the row until commit,
\* whoever waits for it then finds the row as it has become.
BeginVerify(i, guess) ==
  /\ codes[i].told /\ codes[i].status = "otp" /\ codes[i].check = "none"
  /\ codes[i].attempts < MaxAttempts
  /\ codes' = [codes EXCEPT ![i].check = guess]
  /\ UNCHANGED <<sessions, pair, calls, lost, webVars, faults>>

Reject(i) ==
  /\ codes[i].check = "wrong"
  /\ codes' = [codes EXCEPT ![i].attempts = @ + 1, ![i].check = "none"]
  /\ UNCHANGED <<sessions, pair, calls, lost, webVars, faults>>

AbortVerify(i) ==
  /\ Fault
  /\ codes[i].check # "none"
  /\ codes' = [codes EXCEPT ![i].check = "none"]
  /\ UNCHANGED <<sessions, pair, calls, lost, webVars>>

\* The session, its first pair and the end of the code in one commit.
Login(i) ==
  /\ codes[i].check = "right"
  /\ codes' = [codes EXCEPT ![i].attempts = @ + 1, ![i].check = "none", ![i].status = "used"]
  /\ sessions' = Append(sessions, [code |-> i, state |-> "live", pairs |-> 1, used |-> {}])
  /\ \/ pair' = [session |-> Len(sessions'), gen |-> 1] /\ UNCHANGED <<lost, faults>>
     \/ Fault /\ lost' = lost \cup {Len(sessions')} /\ UNCHANGED pair
  /\ UNCHANGED <<calls, webVars>>

-----------------------------------------------------------------------------
(***************************************************************************)
(* Replacing the tokens.  The app sends one refresh at a time, its         *)
(* requests join it; but an answer it no longer waits for may still be on  *)
(* its way.                                                                *)
(***************************************************************************)
Call(kind, s, g) == [kind |-> kind, session |-> s, gen |-> g, step |-> "sent", waits |-> TRUE,
                     seen |-> {}, stale |-> FALSE]

\* Mutant: each request that meets a 401 refreshes the pair itself.
RefreshUnjoined ==
  /\ pair # NoPair
  /\ Cardinality(calls) < MaxCalls
  /\ calls' = calls \cup {Call("refresh", pair.session, pair.gen)}
  /\ UNCHANGED <<codes, sessions, pair, lost, webVars, faults>>

Refresh ==
  /\ pair # NoPair
  /\ ~\E c \in calls : c.kind = "refresh" /\ c.waits
  /\ Cardinality(calls) < MaxCalls
  /\ calls' = calls \cup {Call("refresh", pair.session, pair.gen)}
  /\ UNCHANGED <<codes, sessions, pair, lost, webVars, faults>>

\* AuthRepository.logout.
Logout ==
  /\ pair # NoPair
  /\ ~\E c \in calls : c.kind = "logout" /\ c.waits
  /\ Cardinality(calls) < MaxCalls
  /\ calls' = calls \cup {Call("logout", pair.session, pair.gen)}
  /\ UNCHANGED <<codes, sessions, pair, lost, webVars, faults>>

Becomes(c, new) == calls' = (calls \ {c}) \cup {new}

\* Mutant: the rows are read without FOR UPDATE.
LockUnlocked(c) ==
  /\ c.kind = "refresh" /\ c.step = "sent"
  /\ IF sessions[c.session].state = "live"
       THEN Becomes(c, [c EXCEPT !.step = "locked", !.seen = Unused(c.session),
                                 !.stale = c.gen \in sessions[c.session].used])
       ELSE Becomes(c, [c EXCEPT !.step = "denied"])
  /\ UNCHANGED <<codes, sessions, pair, lost, webVars, faults>>

\* handleMobileRefresh: SELECT ... FOR UPDATE OF s, t.
Lock(c) ==
  /\ c.kind = "refresh" /\ c.step = "sent"
  /\ ~Locked(c.session)
  /\ IF sessions[c.session].state = "live"
       THEN Becomes(c, [c EXCEPT !.step = "locked", !.seen = Unused(c.session),
                                 !.stale = c.gen \in sessions[c.session].used])
       ELSE Becomes(c, [c EXCEPT !.step = "denied"])
  /\ UNCHANGED <<codes, sessions, pair, lost, webVars, faults>>

Answer(c, step, g) == [Call("refresh", c.session, g) EXCEPT !.step = step, !.waits = c.waits]

\* A used token ends the session, any other ends every token before the new pair.
Rotate(c) ==
  /\ c.step = "locked"
  /\ LET s == c.session
     IN IF c.stale
          THEN /\ sessions' = [sessions EXCEPT ![s].state = "reuse"]
               /\ Becomes(c, Answer(c, "denied", c.gen))
          ELSE /\ sessions[s].pairs < MaxPairs
               /\ sessions' = [sessions EXCEPT ![s].pairs = @ + 1, ![s].used = @ \cup c.seen]
               /\ Becomes(c, Answer(c, "granted", sessions[s].pairs + 1))
  /\ UNCHANGED <<codes, pair, lost, webVars, faults>>

\* Rolled back: the app hears of an error and keeps its pair.
RotateFails(c) ==
  /\ c.step = "locked"
  /\ Fault \/ (~c.stale /\ sessions[c.session].pairs = MaxPairs /\ UNCHANGED faults)
  /\ calls' = calls \ {c}
  /\ UNCHANGED <<codes, sessions, pair, lost, webVars>>

\* handleMobileLogout: any refresh token of the session will do.
Revoke(c) ==
  /\ c.kind = "logout" /\ c.step = "sent"
  /\ ~Locked(c.session)
  /\ sessions' = [sessions EXCEPT ![c.session].state = "logout"]
  /\ Becomes(c, [c EXCEPT !.step = "done"])
  /\ UNCHANGED <<codes, pair, lost, webVars, faults>>

\* Mutant: a refused refresh leaves the pair where it is.
VaultKept(c) == IF c.step = "granted" THEN [session |-> c.session, gen |-> c.gen]
                ELSE IF c.kind = "refresh" THEN pair ELSE NoPair

\* vault.save, or vault.clear, whatever the vault holds by now.
Vault(c) == IF c.step = "granted" THEN [session |-> c.session, gen |-> c.gen] ELSE NoPair

Reply(c) ==
  /\ c.step \in {"granted", "denied", "done"}
  /\ calls' = calls \ {c}
  /\ pair' = IF c.waits THEN Vault(c) ELSE pair
  /\ UNCHANGED <<codes, sessions, lost, webVars, faults>>

\* The new pair cannot be stored: it is revoked at once.
SaveFails(c) ==
  /\ Fault
  /\ c.step = "granted" /\ c.waits
  /\ Becomes(c, [Call("logout", c.session, c.gen) EXCEPT !.waits = FALSE])
  /\ pair' = NoPair
  /\ UNCHANGED <<codes, sessions, lost, webVars>>

\* The app waits no longer: a time-out, a lost answer, the end of the app.
GiveUp(c) ==
  /\ Fault
  /\ c.waits
  /\ Becomes(c, [c EXCEPT !.waits = FALSE])
  /\ lost' = IF c.kind = "refresh" THEN lost \cup {c.session} ELSE lost
  /\ pair' = IF c.kind = "logout" THEN NoPair ELSE pair
  /\ UNCHANGED <<codes, sessions, webVars>>

\* A request that does not arrive.
LoseCall(c) ==
  /\ c.step = "sent" /\ ~c.waits
  /\ calls' = calls \ {c}
  /\ UNCHANGED <<codes, sessions, pair, lost, webVars, faults>>

\* After 30 days.
SessionExpires(s) ==
  /\ sessions[s].state = "live" /\ ~Locked(s)
  /\ sessions' = [sessions EXCEPT ![s].state = "expired"]
  /\ UNCHANGED <<codes, pair, calls, lost, webVars, faults>>

-----------------------------------------------------------------------------
(***************************************************************************)
(* The web page.  A challenge is claimed by the chat that opens its link   *)
(* and verified by a player this chat is known as.                         *)
(***************************************************************************)
Login0(status, chat, player) ==
  [status |-> status, chat |-> chat, player |-> player, over |-> FALSE]

StartPlayerAuth ==
  /\ client = "web" /\ Len(logins) < MaxLogins
  /\ logins' = Append(logins, Login0("active", None, None))
  /\ UNCHANGED <<mobileVars, bound, links, inbox, setting, faults>>

MiniAppPlayerAuth(p) ==
  /\ client = "web" /\ Len(logins) < MaxLogins
  /\ logins' = Append(logins, IF p \in bound THEN Login0("verified", p, p)
                                             ELSE Login0("active", p, None))
  /\ UNCHANGED <<mobileVars, bound, links, inbox, setting, faults>>

\* expires_at passes.
LoginExpires(w) ==
  /\ ~logins[w].over
  /\ logins' = [logins EXCEPT ![w].over = TRUE]
  /\ UNCHANGED <<mobileVars, bound, links, inbox, setting, faults>>

\* handlePlayerAuthStatus writes what it finds.
Poll(w) ==
  /\ logins[w].over /\ logins[w].status # "expired"
  /\ logins' = [logins EXCEPT ![w].status = "expired"]
  /\ UNCHANGED <<mobileVars, bound, links, inbox, setting, faults>>

\* /start auth_..., /start cp_... or a contact of one's own.
Send(m) ==
  /\ client = "web"
  /\ Cardinality(inbox) < MaxMessages
  /\ inbox' = inbox \cup {m}
  /\ UNCHANGED <<mobileVars, logins, bound, links, setting, faults>>

\* Handled: the webhook's update may come again when its answer is lost.
Handled(m) ==
  \/ inbox' = inbox \ {m} /\ UNCHANGED faults
  \/ Fault /\ UNCHANGED inbox

\* Mutant: the link works for whoever opens it.
ClaimAny(p, w) ==
  IF logins[w].status = "active" /\ ~logins[w].over
    THEN logins' = [logins EXCEPT ![w].chat = p,
                                  ![w].player = IF p \in bound THEN p ELSE None,
                                  ![w].status = IF p \in bound THEN "verified" ELSE "awaiting_contact"]
    ELSE UNCHANGED logins

\* claimTelegramPlayerAuthChallenge.
Claim(p, w) ==
  IF logins[w].status = "active" /\ ~logins[w].over /\ logins[w].chat \in {None, p}
    THEN logins' = [logins EXCEPT ![w].chat = p,
                                  ![w].player = IF p \in bound THEN p ELSE None,
                                  ![w].status = IF p \in bound THEN "verified" ELSE "awaiting_contact"]
    ELSE UNCHANGED logins

StartLink(m) ==
  /\ m.kind = "start"
  /\ Claim(m.from, m.login)
  /\ Handled(m)
  /\ UNCHANGED <<mobileVars, bound, links, setting>>

Awaiting(p) ==
  {w \in DOMAIN logins : logins[w].status = "awaiting_contact" /\ logins[w].chat = p /\ ~logins[w].over}

\* completeTelegramPlayerAuth: the latest challenge that waits for this chat.
Complete(p) ==
  IF Awaiting(p) = {} THEN UNCHANGED <<logins, bound>>
  ELSE \E w \in Awaiting(p) :
         /\ \A u \in Awaiting(p) : u <= w
         /\ logins' = [logins EXCEPT ![w].status = "verified", ![w].player = p]
         /\ bound' = bound \cup {p}

\* processTelegramUpdate: a contact is for the mobile sign-in first, and there
\* its end if no challenge of the app waits for it; none ever does.
Contact(m) ==
  /\ m.kind = "contact"
  /\ IF mobileFirst THEN UNCHANGED <<logins, bound>> ELSE Complete(m.from)
  /\ Handled(m)
  /\ UNCHANGED <<mobileVars, links, setting>>

\* A voucher's link is consumed, then its phone is taken for a contact.
VoucherLink(m) ==
  /\ m.kind = "voucher"
  /\ links' = links \ {m.from}
  /\ IF m.from \in links THEN Complete(m.from) ELSE UNCHANGED <<logins, bound>>
  /\ Handled(m)
  /\ UNCHANGED <<mobileVars, setting>>

\* The database fails: a polled update is gone, one of the webhook comes again.
HandleFails(m) ==
  /\ Fault
  /\ inbox' \in {inbox, inbox \ {m}}
  /\ links' = IF m.kind = "voucher" THEN links \ {m.from} ELSE links
  /\ UNCHANGED <<mobileVars, logins, bound, setting>>

Message == [kind : {"contact", "voucher"}, from : Person, login : {0}]
           \cup [kind : {"start"}, from : Person, login : DOMAIN logins]

Next ==
  \/ Challenge
  \/ \E i \in DOMAIN codes : SendMobileOTP(i)
  \/ \E i \in DOMAIN codes : Expire(i)
  \/ \E i \in DOMAIN codes, guess \in {"right", "wrong"} : BeginVerify(i, guess)
  \/ \E i \in DOMAIN codes : Reject(i)
  \/ \E i \in DOMAIN codes : AbortVerify(i)
  \/ \E i \in DOMAIN codes : Login(i)
  \/ Refresh
  \/ Logout
  \/ \E c \in calls : Lock(c)
  \/ \E c \in calls : Rotate(c)
  \/ \E c \in calls : RotateFails(c)
  \/ \E c \in calls : Revoke(c)
  \/ \E c \in calls : Reply(c)
  \/ \E c \in calls : SaveFails(c)
  \/ \E c \in calls : GiveUp(c)
  \/ \E c \in calls : LoseCall(c)
  \/ \E s \in DOMAIN sessions : SessionExpires(s)
  \/ StartPlayerAuth
  \/ \E p \in Person : MiniAppPlayerAuth(p)
  \/ \E w \in DOMAIN logins : LoginExpires(w)
  \/ \E w \in DOMAIN logins : Poll(w)
  \/ \E m \in Message : Send(m)
  \/ \E m \in inbox : StartLink(m)
  \/ \E m \in inbox : Contact(m)
  \/ \E m \in inbox : VoucherLink(m)
  \/ \E m \in inbox : HandleFails(m)

(***************************************************************************)
(* Fairness.  The app keeps using its pair, and meets a 401 when it is no  *)
(* good any more; the server works off its requests; messages are fetched. *)
(***************************************************************************)
Fairness ==
  /\ WF_vars(Refresh)
  /\ WF_vars(\E c \in calls : Lock(c) \/ Rotate(c) \/ RotateFails(c) \/ Revoke(c))
  /\ WF_vars(\E c \in calls : Reply(c))

Spec == Init /\ [][Next]_vars /\ Fairness

-----------------------------------------------------------------------------
(***************************************************************************)
(* A code opens one session, however often it is entered, by however many  *)
(* requests at once, and whether the answer to the first is lost or not.   *)
(***************************************************************************)
OneSessionPerCode ==
  \A s, t \in DOMAIN sessions : sessions[s].code = sessions[t].code => s = t

(***************************************************************************)
(* A live session never has two refresh tokens that are both good: of two  *)
(* refreshes with the same token one is the reuse that ends the session.   *)
(***************************************************************************)
OneLiveRefresh ==
  \A s \in DOMAIN sessions : sessions[s].state = "live" => Cardinality(Unused(s)) <= 1

(***************************************************************************)
(* Reuse is only found where an answer may have been lost: an app that     *)
(* hears every answer is not signed out by its own concurrent requests,    *)
(* its logouts, failed commits and failed saves.                           *)
(***************************************************************************)
NoSpuriousReuse ==
  \A s \in DOMAIN sessions : sessions[s].state = "reuse" => s \in lost

(***************************************************************************)
(* A challenge that has a chat keeps it, a verified one its player; one    *)
(* that has run out is never verified.                                     *)
(***************************************************************************)
IdentityKept ==
  [][\A w \in DOMAIN logins :
       /\ logins[w].chat # None => logins'[w].chat = logins[w].chat
       /\ logins[w].player # None => logins'[w].player = logins[w].player
       /\ logins[w].over /\ logins[w].status # "verified" => logins'[w].status # "verified"]_vars

(***************************************************************************)
(* The app is not stuck with a pair that is no good: it gets a better one, *)
(* or drops it and asks for a new code.                                    *)
(***************************************************************************)
Stale == pair # NoPair /\ (sessions[pair.session].state # "live"
                           \/ pair.gen \in sessions[pair.session].used)
StaleGoes == Stale ~> ~Stale

(***************************************************************************)
(* App.tsx: "Откройте бота, поделитесь номером и вернитесь сюда."  Whoever *)
(* has opened his challenge in the bot and shares his number is verified.  *)
(***************************************************************************)
ContactVerifies ==
  [][\A m \in inbox :
       Contact(m) /\ Awaiting(m.from) # {}
         => \E w \in Awaiting(m.from) : logins'[w].status = "verified"]_vars
=============================================================================
