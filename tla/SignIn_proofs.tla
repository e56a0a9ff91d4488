---------------------------- MODULE SignIn_proofs ----------------------------
(***************************************************************************)
(* For every number of people, codes, token pairs, requests and faults:    *)
(* what SignIn checks of sessions, tokens and challenges, but for the      *)
(* liveness.  The inductive invariant rests on the two locks of the code   *)
(* (a code under check, a session under refresh) and on one observation:   *)
(* as long as every answer was heard, the pair in the vault is the newest. *)
(***************************************************************************)
EXTENDS SignIn, TLAPS, SequenceTheorems, FiniteSetTheorems

Code == [status : {"otp", "used", "expired"}, attempts : 0..MaxAttempts,
         told : BOOLEAN, check : {"none", "right", "wrong"}]
Session == [code : Nat, state : {"live", "reuse", "logout", "expired"},
            pairs : Nat \ {0}, used : SUBSET Nat]
Request == [kind : {"refresh", "logout"}, session : Nat, gen : Nat,
            step : {"sent", "locked", "granted", "denied", "done"},
            waits : BOOLEAN, seen : SUBSET Nat, stale : BOOLEAN]
Attempt == [status : {"active", "awaiting_contact", "verified", "expired"},
            chat : Person \cup {None}, player : Person \cup {None}, over : BOOLEAN]

-----------------------------------------------------------------------------
\* The app.
CodesOK ==
  /\ codes \in Seq(Code) /\ Len(codes) <= MaxCodes
  /\ \A i \in DOMAIN codes : codes[i].check # "none" => codes[i].status = "otp"
                                                        /\ codes[i].attempts < MaxAttempts

SessionsOK ==
  /\ sessions \in Seq(Session)
  /\ \A s \in DOMAIN sessions : sessions[s].code \in DOMAIN codes
                                /\ codes[sessions[s].code].status = "used"

\* Every pair but the newest is used.
UsedInOrder == \A s \in DOMAIN sessions : sessions[s].used = 1..(sessions[s].pairs - 1)

VaultOK ==
  /\ pair \in [session : Nat, gen : Nat]
  /\ pair # NoPair => pair.session \in DOMAIN sessions
                      /\ pair.gen \in 1..sessions[pair.session].pairs
  /\ lost \subseteq DOMAIN sessions

CallsOK ==
  /\ calls \subseteq Request
  /\ \A c \in calls : c.session \in DOMAIN sessions
                      /\ c.gen \in 1..sessions[c.session].pairs

\* Who holds the lock of a session has seen the pairs as they are.
LocksOK ==
  /\ \A c \in calls : c.step \in {"locked", "granted"} => c.kind = "refresh"
  /\ \A c \in calls : c.step = "locked" =>
       /\ c.seen = {sessions[c.session].pairs}
       /\ c.stale => c.session \in lost
  /\ \A c, d \in calls :
       c.step = "locked" /\ d.step = "locked" /\ c.session = d.session => c = d

\* A refresh nobody waits for may go unheard; there is one that is waited for.
OneWaits ==
  /\ \A c \in calls : c.kind = "refresh" => c.waits \/ c.session \in lost
  /\ \A c, d \in calls :
       c.kind = "refresh" /\ d.kind = "refresh" /\ c.waits /\ d.waits => c = d

Heard(s) == s \notin lost

\* The requests of a session that was always heard carry its newest pair.
NewestSent ==
  \A c \in calls : c.kind = "refresh" /\ c.step \in {"sent", "locked", "granted"}
                   /\ Heard(c.session) => c.gen = sessions[c.session].pairs

\* So does the vault, or the newest is on its way.
Coming(s) == \E c \in calls : c.kind = "refresh" /\ c.session = s /\ c.step = "granted"
NewestHeld ==
  pair # NoPair /\ Heard(pair.session) /\ ~Coming(pair.session)
    => pair.gen = sessions[pair.session].pairs

Rows == CodesOK /\ SessionsOK /\ UsedInOrder /\ OneSessionPerCode /\ NoSpuriousReuse
Requests == VaultOK /\ CallsOK /\ LocksOK /\ OneWaits /\ NewestSent /\ NewestHeld
App == Rows /\ Requests

-----------------------------------------------------------------------------
\* The web page.
LoginsOK ==
  /\ logins \in Seq(Attempt)
  /\ \A w \in DOMAIN logins :
       /\ logins[w].status = "verified" => logins[w].player = logins[w].chat
       /\ logins[w].status \in {"active", "awaiting_contact"} => logins[w].player = None

MessagesOK ==
  /\ bound \subseteq Person /\ links \subseteq Person
  /\ \A m \in inbox : m.from \in Person /\ (m.kind = "start" => m.login \in DOMAIN logins)

Page == LoginsOK /\ MessagesOK

RestOK == client \in {"app", "web"} /\ mobileFirst \in BOOLEAN /\ faults \in 0..MaxFaults

Inv == App /\ Page /\ RestOK

-----------------------------------------------------------------------------
LEMMA SetItem ==
  ASSUME NEW S, NEW q \in Seq(S), NEW i \in DOMAIN q, NEW e \in S
  PROVE  LET r == [q EXCEPT ![i] = e]
         IN r \in Seq(S) /\ Len(r) = Len(q) /\ DOMAIN r = DOMAIN q
            /\ r[i] = e /\ \A j \in DOMAIN q : j # i => r[j] = q[j]
<1> DEFINE r == [q EXCEPT ![i] = e]
<1>1. DOMAIN q = 1..Len(q)
  BY LenProperties
<1>2. r \in Seq(S) /\ Len(r) = Len(q) /\ \A j \in 1..Len(q) : r[j] = IF j = i THEN e ELSE q[j]
  BY <1>1, ExceptSeq
<1>3. DOMAIN r = 1..Len(r)
  BY <1>2, LenProperties
<1> HIDE DEF r
<1>4. r \in Seq(S) /\ Len(r) = Len(q) /\ DOMAIN r = DOMAIN q
      /\ r[i] = e /\ \A j \in DOMAIN q : j # i => r[j] = q[j]
  BY <1>1, <1>2, <1>3
<1> QED BY <1>4 DEF r

LEMMA AddItem ==
  ASSUME NEW S, NEW q \in Seq(S), NEW e \in S
  PROVE  LET r == Append(q, e)
             n == Len(r)
         IN r \in Seq(S) /\ n = Len(q) + 1 /\ DOMAIN r = DOMAIN q \cup {n} /\ n \notin DOMAIN q
            /\ n \in Nat \ {0} /\ r[n] = e /\ \A j \in DOMAIN q : r[j] = q[j]
<1> DEFINE r == Append(q, e)
<1>1. DOMAIN q = 1..Len(q) /\ Len(q) \in Nat
  BY LenProperties
<1>2. /\ r \in Seq(S) /\ Len(r) = Len(q) + 1 /\ r[Len(q) + 1] = e
      /\ \A j \in 1..Len(q) : r[j] = q[j]
  BY AppendProperties
<1>3. DOMAIN r = 1..Len(r)
  BY <1>2, LenProperties
<1> HIDE DEF r
<1>4. r \in Seq(S) /\ Len(r) = Len(q) + 1 /\ DOMAIN r = DOMAIN q \cup {Len(r)} /\ Len(r) \notin DOMAIN q
      /\ Len(r) \in Nat \ {0} /\ r[Len(r)] = e /\ \A j \in DOMAIN q : r[j] = q[j]
  BY <1>1, <1>2, <1>3
<1> QED BY <1>4 DEF r

LEMMA Items ==
  ASSUME NEW S, NEW q \in Seq(S)
  PROVE  DOMAIN q \subseteq Nat \ {0} /\ \A i \in DOMAIN q : q[i] \in S
BY LenProperties

LEMMA FaultKeeps == ASSUME Fault, faults \in 0..MaxFaults PROVE faults' \in 0..MaxFaults
BY BoundsAssumption DEF Fault

LEMMA InitInv == ASSUME Init PROVE Inv
<1>1. << >> \in Seq(Code) /\ << >> \in Seq(Session) /\ << >> \in Seq(Attempt)
      /\ Len(<< >>) = 0 /\ DOMAIN << >> = {}
  BY EmptySeq
<1>2. CodesOK /\ SessionsOK /\ UsedInOrder /\ OneSessionPerCode /\ NoSpuriousReuse
  BY <1>1, BoundsAssumption DEF Init, CodesOK, SessionsOK, UsedInOrder, OneSessionPerCode, NoSpuriousReuse
<1>3. VaultOK /\ CallsOK /\ LocksOK /\ OneWaits /\ NewestSent /\ NewestHeld
  BY DEF Init, VaultOK, CallsOK, LocksOK, OneWaits, NewestSent, NewestHeld, NoPair
<1>4. Page
  BY <1>1 DEF Init, Page, LoginsOK, MessagesOK
<1>5. mobileFirst \in BOOLEAN
  BY DEF Init
<1>6. RestOK
  BY <1>5, BoundsAssumption DEF Init, RestOK
<1> QED BY <1>2, <1>3, <1>4, <1>6 DEF Inv, App, Rows, Requests

-----------------------------------------------------------------------------
\* The codes.
LEMMA CodesMove ==
  ASSUME App, CodesOK', UNCHANGED <<sessions, pair, calls, lost>>,
         \A i \in DOMAIN codes : i \in DOMAIN codes' /\ (codes[i].status = "used" => codes'[i].status = "used")
  PROVE  App'
<1>1. SessionsOK' /\ UsedInOrder' /\ OneSessionPerCode' /\ NoSpuriousReuse'
  BY DEF App, Rows, SessionsOK, UsedInOrder, OneSessionPerCode, NoSpuriousReuse
<1>2. Requests'
  BY DEF App, Requests, VaultOK, CallsOK, LocksOK, OneWaits, NewestSent, NewestHeld, Heard, Coming
<1> QED BY <1>1, <1>2 DEF App, Rows

LEMMA SetCode ==
  ASSUME App, UNCHANGED <<sessions, pair, calls, lost>>,
         NEW i \in DOMAIN codes, NEW e \in Code,
         codes' = [codes EXCEPT ![i] = e], codes[i].status = "used" => e.status = "used",
         e.check # "none" => e.status = "otp" /\ e.attempts < MaxAttempts
  PROVE  App'
<1>1. codes \in Seq(Code) /\ Len(codes) <= MaxCodes
      /\ \A j \in DOMAIN codes : codes[j].check # "none" => codes[j].status = "otp"
                                                           /\ codes[j].attempts < MaxAttempts
  BY DEF App, Rows, CodesOK
<1>2. /\ codes' \in Seq(Code) /\ Len(codes') = Len(codes) /\ DOMAIN codes' = DOMAIN codes
      /\ codes'[i] = e /\ \A j \in DOMAIN codes : j # i => codes'[j] = codes[j]
  BY <1>1, SetItem
<1>3. CodesOK'
  BY <1>1, <1>2 DEF CodesOK
<1>4. \A j \in DOMAIN codes : j \in DOMAIN codes' /\ (codes[j].status = "used" => codes'[j].status = "used")
  BY <1>2
<1> QED BY <1>3, <1>4, CodesMove

LEMMA CodeKeeps ==
  ASSUME App, NEW i \in DOMAIN codes,
         \/ SendMobileOTP(i) \/ Expire(i) \/ BeginVerify(i, "right") \/ BeginVerify(i, "wrong")
         \/ Reject(i) \/ AbortVerify(i)
  PROVE  App'
<1>1. codes[i] \in Code
  BY Items DEF App, Rows, CodesOK
<1>2. codes[i].check # "none" => codes[i].status = "otp" /\ codes[i].attempts < MaxAttempts
  BY DEF App, Rows, CodesOK
<1>3. UNCHANGED <<sessions, pair, calls, lost>>
  BY DEF SendMobileOTP, Expire, BeginVerify, Reject, AbortVerify
<1>4. CASE SendMobileOTP(i)
  <2> DEFINE e == [codes[i] EXCEPT !.told = TRUE]
  <2>1. e \in Code /\ e.check = codes[i].check /\ e.status = codes[i].status /\ e.attempts = codes[i].attempts
    BY <1>1 DEF Code
  <2>2. codes' = [codes EXCEPT ![i] = e]
    BY <1>4 DEF SendMobileOTP
  <2> QED BY <1>2, <1>3, <2>1, <2>2, SetCode
<1>5. CASE Expire(i)
  <2> DEFINE e == [codes[i] EXCEPT !.status = "expired"]
  <2>1. e \in Code /\ e.check = "none" /\ codes[i].status # "used"
    BY <1>1, <1>5 DEF Code, Expire
  <2>2. codes' = [codes EXCEPT ![i] = e]
    BY <1>5 DEF Expire
  <2> QED BY <1>3, <2>1, <2>2, SetCode
<1>6. ASSUME NEW guess \in {"right", "wrong"}, BeginVerify(i, guess) PROVE App'
  <2> DEFINE e == [codes[i] EXCEPT !.check = guess]
  <2>1. e \in Code /\ e.status = "otp" /\ e.attempts < MaxAttempts /\ codes[i].status # "used"
    BY <1>1, <1>6 DEF Code, BeginVerify
  <2>2. codes' = [codes EXCEPT ![i] = e]
    BY <1>6 DEF BeginVerify
  <2> QED BY <1>3, <2>1, <2>2, SetCode
<1>7. CASE Reject(i)
  <2> DEFINE e == [codes[i] EXCEPT !.attempts = @ + 1, !.check = "none"]
  <2>1. codes[i].attempts \in 0..MaxAttempts /\ codes[i].attempts < MaxAttempts /\ codes[i].status = "otp"
    BY <1>1, <1>2, <1>7 DEF Code, Reject
  <2>2. codes[i].attempts + 1 \in 0..MaxAttempts
    BY <2>1, BoundsAssumption
  <2>3. e \in Code /\ e.check = "none"
    BY <1>1, <2>2 DEF Code
  <2>4. codes' = [codes EXCEPT ![i] = e]
    BY <1>7 DEF Reject
  <2> QED BY <1>3, <2>1, <2>3, <2>4, SetCode
<1>8. CASE AbortVerify(i)
  <2> DEFINE e == [codes[i] EXCEPT !.check = "none"]
  <2>1. e \in Code /\ e.check = "none" /\ e.status = codes[i].status
    BY <1>1 DEF Code
  <2>2. codes' = [codes EXCEPT ![i] = e]
    BY <1>8 DEF AbortVerify
  <2> QED BY <1>3, <2>1, <2>2, SetCode
<1> QED BY <1>4, <1>5, <1>6, <1>7, <1>8

LEMMA ChallengeKeeps == ASSUME App, Challenge PROVE App'
<1> DEFINE e == [status |-> "otp", attempts |-> 0, told |-> FALSE, check |-> "none"]
<1>1. e \in Code /\ e.check = "none"
  BY BoundsAssumption DEF Code
<1>2. codes \in Seq(Code) /\ codes' = Append(codes, e) /\ Len(codes) < MaxCodes
  BY DEF App, Rows, CodesOK, Challenge
<1>3. /\ codes' \in Seq(Code) /\ Len(codes') = Len(codes) + 1
      /\ DOMAIN codes' = DOMAIN codes \cup {Len(codes')} /\ codes'[Len(codes')] = e
      /\ \A j \in DOMAIN codes : codes'[j] = codes[j]
  BY <1>1, <1>2, AddItem
<1>4. Len(codes') <= MaxCodes
  BY <1>2, <1>3, LenProperties, BoundsAssumption
<1>5. CodesOK'
  BY <1>1, <1>3, <1>4 DEF App, Rows, CodesOK
<1> QED BY <1>3, <1>5, CodesMove DEF Challenge

-----------------------------------------------------------------------------
\* The rows of the sessions, whatever the requests do.
States == {"live", "reuse", "logout", "expired"}
KeptPairs == /\ DOMAIN sessions' = DOMAIN sessions
             /\ \A t \in DOMAIN sessions : sessions'[t].pairs = sessions[t].pairs

LEMMA RowsStay ==
  ASSUME Rows, UNCHANGED <<codes, sessions>>, lost \subseteq lost'
  PROVE  Rows' /\ KeptPairs
BY DEF Rows, CodesOK, SessionsOK, UsedInOrder, OneSessionPerCode, NoSpuriousReuse, KeptPairs

LEMMA SetState ==
  ASSUME Rows, UNCHANGED <<codes, lost>>, NEW s \in DOMAIN sessions, NEW st \in States,
         sessions' = [sessions EXCEPT ![s].state = st], st = "reuse" => s \in lost
  PROVE  Rows' /\ KeptPairs
<1> DEFINE e == [sessions[s] EXCEPT !.state = st]
<1>1. sessions \in Seq(Session) /\ sessions[s] \in Session
  BY Items DEF Rows, SessionsOK
<1>2. /\ e \in Session /\ e.state = st /\ e.code = sessions[s].code
      /\ e.pairs = sessions[s].pairs /\ e.used = sessions[s].used
  BY <1>1 DEF Session, States
<1>3. sessions' = [sessions EXCEPT ![s] = e]
  OBVIOUS
<1>4. /\ sessions' \in Seq(Session) /\ DOMAIN sessions' = DOMAIN sessions
      /\ sessions'[s] = e /\ \A t \in DOMAIN sessions : t # s => sessions'[t] = sessions[t]
  BY <1>1, <1>2, <1>3, SetItem
<1>5. \A t \in DOMAIN sessions : /\ sessions'[t].code = sessions[t].code
                                 /\ sessions'[t].pairs = sessions[t].pairs
                                 /\ sessions'[t].used = sessions[t].used
                                 /\ sessions'[t].state = IF t = s THEN st ELSE sessions[t].state
  BY <1>2, <1>4
<1> HIDE DEF e
<1>6. SessionsOK' /\ UsedInOrder' /\ OneSessionPerCode' /\ NoSpuriousReuse'
  BY <1>4, <1>5 DEF Rows, SessionsOK, UsedInOrder, OneSessionPerCode, NoSpuriousReuse
<1>7. CodesOK'
  BY DEF Rows, CodesOK
<1> QED BY <1>4, <1>5, <1>6, <1>7 DEF Rows, KeptPairs

\* A request is answered or lost, and the vault is as it was.
LEMMA Dropped ==
  ASSUME Requests, KeptPairs, UNCHANGED <<pair, lost>>,
         NEW c \in calls, calls' = calls \ {c}, c.step # "granted" \/ c.session \in lost
  PROVE  Requests'
<1>1. VaultOK' /\ CallsOK' /\ LocksOK' /\ OneWaits' /\ NewestSent'
  BY DEF Requests, VaultOK, CallsOK, LocksOK, OneWaits, NewestSent, Heard, KeptPairs
<1>2. NewestHeld'
  <2> SUFFICES ASSUME pair # NoPair, Heard(pair.session), ~Coming(pair.session)'
               PROVE  pair.gen = sessions'[pair.session].pairs
    BY DEF NewestHeld, Heard
  <2>1. ~Coming(pair.session)
    BY DEF Coming, Heard
  <2>2. pair.session \in DOMAIN sessions /\ pair.gen = sessions[pair.session].pairs
    BY <2>1 DEF Requests, NewestHeld, VaultOK
  <2> QED BY <2>2 DEF KeptPairs
<1> QED BY <1>1, <1>2 DEF Requests

\* A request gets on, and the vault is as it was.
LEMMA GotOn ==
  ASSUME Requests, KeptPairs, UNCHANGED <<pair, lost>>,
         NEW c \in calls, NEW new \in Request, Becomes(c, new),
         new.session = c.session, new.gen = c.gen, new.kind = c.kind, new.waits = c.waits,
         c.step # "granted", new.step # "granted",
         new.step = "sent" => c.step = "sent",
         new.step = "locked" => /\ c.step = "sent" /\ c.kind = "refresh" /\ ~Locked(c.session)
                                /\ new.seen = {sessions[c.session].pairs}
                                /\ new.stale => c.session \in lost
  PROVE  Requests'
<1>1. VaultOK' /\ CallsOK'
  BY DEF Requests, VaultOK, CallsOK, KeptPairs, Becomes
<1>2. LocksOK'
  <2>1. \A d \in calls' : d.step \in {"locked", "granted"} => d.kind = "refresh"
    BY DEF Requests, LocksOK, Becomes
  <2>2. ASSUME NEW d \in calls', d.step = "locked"
        PROVE  d.seen = {sessions'[d.session].pairs} /\ (d.stale => d.session \in lost')
    <3>1. d.session \in DOMAIN sessions
      BY DEF Requests, CallsOK, Becomes
    <3>2. CASE d = new
      BY <2>2, <3>1, <3>2 DEF KeptPairs
    <3>3. CASE d \in calls
      BY <2>2, <3>1, <3>3 DEF Requests, LocksOK, KeptPairs
    <3> QED BY <3>2, <3>3 DEF Becomes
  <2>3. ASSUME NEW d \in calls', NEW f \in calls', d.step = "locked", f.step = "locked", d.session = f.session
        PROVE  d = f
    BY <2>3 DEF Requests, LocksOK, Becomes, Locked
  <2> QED BY <2>1, <2>2, <2>3 DEF LocksOK
<1>3. OneWaits'
  <2>1. ASSUME NEW d \in calls', d.kind = "refresh" PROVE d.waits \/ d.session \in lost'
    BY <2>1, Zenon DEF Requests, OneWaits, Becomes
  <2>2. ASSUME NEW d \in calls', NEW f \in calls', d.kind = "refresh", f.kind = "refresh", d.waits, f.waits
        PROVE  d = f
    BY <2>2, Zenon DEF Requests, OneWaits, Becomes
  <2> QED BY <2>1, <2>2 DEF OneWaits
<1>4. NewestSent'
  <2> SUFFICES ASSUME NEW d \in calls', d.kind = "refresh", d.step \in {"sent", "locked", "granted"},
                      Heard(d.session)'
               PROVE  d.gen = sessions'[d.session].pairs
    BY DEF NewestSent
  <2>1. d.session \in DOMAIN sessions
    BY DEF Requests, CallsOK, Becomes
  <2>2. d.gen = sessions[d.session].pairs
    BY DEF Requests, NewestSent, Heard, Becomes
  <2> QED BY <2>1, <2>2 DEF KeptPairs
<1>5. NewestHeld'
  <2> SUFFICES ASSUME pair # NoPair, Heard(pair.session), ~Coming(pair.session)'
               PROVE  pair.gen = sessions'[pair.session].pairs
    BY DEF NewestHeld, Heard
  <2>1. ~Coming(pair.session)
    BY DEF Coming, Becomes
  <2>2. pair.session \in DOMAIN sessions /\ pair.gen = sessions[pair.session].pairs
    BY <2>1 DEF Requests, NewestHeld, VaultOK
  <2> QED BY <2>2 DEF KeptPairs
<1> QED BY <1>1, <1>2, <1>3, <1>4, <1>5 DEF Requests

-----------------------------------------------------------------------------
\* The requests, one by one.
LEMMA AppParts == ASSUME App PROVE Rows /\ Requests
BY DEF App

LEMMA IsRequest ==
  ASSUME CallsOK, NEW c \in calls
  PROVE  /\ c \in Request /\ c.session \in DOMAIN sessions /\ c.session \in Nat
         /\ c.gen \in Nat /\ c.gen \in 1..sessions[c.session].pairs
BY DEF CallsOK, Request

LEMMA CallIs ==
  ASSUME NEW kind \in {"refresh", "logout"}, NEW s \in Nat, NEW g \in Nat
  PROVE  LET c == Call(kind, s, g)
         IN /\ c \in Request /\ c.kind = kind /\ c.session = s /\ c.gen = g /\ c.step = "sent"
            /\ c.waits
BY DEF Call, Request

\* "The newest is used by nobody": of a session's pairs one is unused.
LEMMA OneUnused ==
  ASSUME SessionsOK, UsedInOrder, NEW s \in DOMAIN sessions
  PROVE  sessions[s].pairs \in Nat \ {0} /\ Unused(s) = {sessions[s].pairs}
<1>1. sessions[s].pairs \in Nat \ {0}
  <2>1. sessions \in Seq(Session)
    BY DEF SessionsOK
  <2>2. sessions[s] \in Session
    BY <2>1, Items
  <2> QED BY <2>2 DEF Session
<1>2. sessions[s].used = 1..(sessions[s].pairs - 1)
  BY DEF UsedInOrder
<1> QED BY <1>1, <1>2 DEF Unused

LEMMA RefreshKeeps == ASSUME App, Refresh PROVE App'
<1>1. PICK n : n = Call("refresh", pair.session, pair.gen)
  OBVIOUS
<1>2. pair.session \in Nat /\ pair.gen \in Nat /\ pair.session \in DOMAIN sessions
      /\ pair.gen \in 1..sessions[pair.session].pairs
  BY DEF App, Requests, VaultOK, Refresh
<1>3. /\ n \in Request /\ n.kind = "refresh" /\ n.session = pair.session /\ n.gen = pair.gen
      /\ n.step = "sent" /\ n.waits
  BY <1>1, <1>2, CallIs
<1>4. calls' = calls \cup {n} /\ UNCHANGED <<codes, sessions, pair, lost>>
      /\ pair # NoPair /\ \A c \in calls : ~(c.kind = "refresh" /\ c.waits)
  BY <1>1 DEF Refresh
<1>5. Rows'
  BY <1>4, RowsStay, AppParts
<1>6. VaultOK' /\ CallsOK'
  BY <1>2, <1>3, <1>4 DEF App, Requests, VaultOK, CallsOK
<1>7. LocksOK'
  <2>1. LocksOK
    BY DEF App, Requests
  <2> QED BY <1>3, <1>4, <2>1 DEF LocksOK
<1>8. OneWaits'
  <2>1. OneWaits
    BY DEF App, Requests
  <2> QED BY <1>3, <1>4, <2>1, Zenon DEF OneWaits
<1>9. NewestSent'
  <2>1. NewestSent /\ OneWaits /\ NewestHeld
    BY DEF App, Requests
  <2>2. Coming(pair.session) => pair.session \in lost
    BY <1>4, <2>1, Zenon DEF Coming, OneWaits
  <2>3. Heard(pair.session) => n.gen = sessions[pair.session].pairs
    BY <1>3, <1>4, <2>1, <2>2 DEF NewestHeld, Heard
  <2> QED BY <1>3, <1>4, <2>1, <2>3 DEF NewestSent, Heard
<1>10. NewestHeld'
  <2>1. NewestHeld
    BY DEF App, Requests
  <2>2. Coming(pair.session)' = Coming(pair.session)
    BY <1>3, <1>4 DEF Coming
  <2> QED BY <1>4, <2>1, <2>2 DEF NewestHeld, Heard
<1> QED BY <1>5, <1>6, <1>7, <1>8, <1>9, <1>10 DEF App, Requests

LEMMA LogoutKeeps == ASSUME App, Logout PROVE App'
<1>1. PICK n : n = Call("logout", pair.session, pair.gen)
  OBVIOUS
<1>2. pair.session \in Nat /\ pair.gen \in Nat /\ pair.session \in DOMAIN sessions
      /\ pair.gen \in 1..sessions[pair.session].pairs
  BY DEF App, Requests, VaultOK, Logout
<1>3. /\ n \in Request /\ n.kind = "logout" /\ n.session = pair.session /\ n.gen = pair.gen
      /\ n.step = "sent"
  BY <1>1, <1>2, CallIs
<1>4. calls' = calls \cup {n} /\ UNCHANGED <<codes, sessions, pair, lost>>
  BY <1>1 DEF Logout
<1>5. Rows'
  BY <1>4, RowsStay, AppParts
<1>6. VaultOK' /\ CallsOK'
  BY <1>2, <1>3, <1>4 DEF App, Requests, VaultOK, CallsOK
<1>7. LocksOK'
  <2>1. LocksOK
    BY DEF App, Requests
  <2> QED BY <1>3, <1>4, <2>1 DEF LocksOK
<1>8. OneWaits'
  <2>1. OneWaits
    BY DEF App, Requests
  <2>2. n.kind # "refresh"
    BY <1>3
  <2> QED BY <1>4, <2>1, <2>2, Zenon DEF OneWaits
<1>9. NewestSent' /\ NewestHeld'
  <2>1. NewestSent /\ NewestHeld
    BY DEF App, Requests
  <2>2. Coming(pair.session)' = Coming(pair.session)
    BY <1>3, <1>4 DEF Coming
  <2> QED BY <1>3, <1>4, <2>1, <2>2 DEF NewestSent, NewestHeld, Heard
<1> QED BY <1>5, <1>6, <1>7, <1>8, <1>9 DEF App, Requests

LEMMA LockKeeps == ASSUME App, NEW c \in calls, Lock(c) PROVE App'
<1>1. Rows /\ Requests /\ CallsOK /\ SessionsOK /\ UsedInOrder /\ NewestSent /\ UNCHANGED <<codes, sessions, pair, lost>>
  BY DEF App, Rows, Requests, Lock
<1>2. Rows' /\ KeptPairs
  BY <1>1, RowsStay
<1>3. c \in Request /\ c.kind = "refresh" /\ c.step = "sent" /\ ~Locked(c.session) /\ c.session \in DOMAIN sessions
  BY <1>1, IsRequest DEF Lock
<1>4. CASE sessions[c.session].state = "live"
  <2>1. \E b \in BOOLEAN : b = (c.gen \in sessions[c.session].used)
    <3>1. (c.gen \in sessions[c.session].used) \in BOOLEAN
      OBVIOUS
    <3> WITNESS (c.gen \in sessions[c.session].used) \in BOOLEAN
    <3> QED OBVIOUS
  <2>2. PICK b \in BOOLEAN : b = (c.gen \in sessions[c.session].used)
    BY <2>1, Zenon
  <2>3. PICK u : u = Unused(c.session)
    OBVIOUS
  <2>4. PICK n : n = [c EXCEPT !.step = "locked", !.seen = u, !.stale = b]
    OBVIOUS
  <2>5. Becomes(c, n)
    BY <1>4, <2>2, <2>3, <2>4, Zenon DEF Lock
  <2>6. sessions[c.session].pairs \in Nat \ {0} /\ u = {sessions[c.session].pairs}
    BY <1>1, <1>3, <2>3, OneUnused
  <2>7. u \in SUBSET Nat
    BY <2>6
  <2>8. /\ n \in Request /\ n.session = c.session /\ n.gen = c.gen /\ n.kind = c.kind
        /\ n.waits = c.waits /\ n.step = "locked" /\ n.seen = u /\ n.stale = b
    <3>1. n \in Request
      BY <1>3, <2>4, <2>7 DEF Request
    <3>2. n.session = c.session /\ n.gen = c.gen /\ n.kind = c.kind /\ n.step = "locked" /\ n.seen = u
      BY <1>3, <2>4, <2>7 DEF Request
    <3>3. n.waits = c.waits /\ n.stale = b
      BY <1>3, <2>4, Zenon DEF Request
    <3> QED BY <3>1, <3>2, <3>3
  <2>9. c.gen \in sessions[c.session].used => c.session \in lost
    BY <1>1, <1>3, <2>6 DEF UsedInOrder, NewestSent, Heard
  <2>10. n.stale => c.session \in lost
    BY <2>2, <2>8, <2>9, Zenon
  <2>11. Requests'
    BY <1>1, <1>2, <1>3, <2>5, <2>6, <2>8, <2>10, GotOn, Zenon
  <2> QED BY <1>2, <2>11 DEF App
<1>5. CASE sessions[c.session].state # "live"
  <2>1. PICK n : n = [c EXCEPT !.step = "denied"]
    OBVIOUS
  <2>2. Becomes(c, n)
    BY <1>5, <2>1 DEF Lock
  <2>3. /\ n \in Request /\ n.session = c.session /\ n.gen = c.gen /\ n.kind = c.kind /\ n.waits = c.waits
        /\ n.step = "denied"
    BY <1>3, <2>1 DEF Request
  <2> QED BY <1>1, <1>2, <1>3, <2>2, <2>3, GotOn DEF App
<1> QED BY <1>4, <1>5

LEMMA RevokeKeeps == ASSUME App, NEW c \in calls, Revoke(c) PROVE App'
<1>1. Rows /\ Requests /\ CallsOK /\ UNCHANGED <<codes, pair, lost>>
  BY DEF App, Requests, Revoke
<1>2. c \in Request /\ c.kind = "logout" /\ c.step = "sent" /\ c.session \in DOMAIN sessions
  BY <1>1, IsRequest DEF Revoke
<1>3. sessions' = [sessions EXCEPT ![c.session].state = "logout"]
  BY DEF Revoke
<1>4. Rows' /\ KeptPairs
  BY <1>1, <1>2, <1>3, SetState DEF States
<1>5. PICK n : n = [c EXCEPT !.step = "done"]
  OBVIOUS
<1>6. Becomes(c, n)
  BY <1>5 DEF Revoke
<1>7. /\ n \in Request /\ n.session = c.session /\ n.gen = c.gen /\ n.kind = c.kind /\ n.waits = c.waits
      /\ n.step = "done"
  BY <1>2, <1>5 DEF Request
<1>8. Requests'
  BY <1>1, <1>2, <1>4, <1>6, <1>7, GotOn
<1> QED BY <1>4, <1>8 DEF App

LEMMA RotateKeeps == ASSUME App, NEW c \in calls, Rotate(c) PROVE App'
<1>1. Rows /\ Requests /\ VaultOK /\ CallsOK /\ LocksOK /\ OneWaits /\ NewestSent /\ NewestHeld
      /\ SessionsOK /\ UsedInOrder /\ UNCHANGED <<codes, pair, lost>>
  BY DEF App, Rows, Requests, Rotate
<1>2. /\ c \in Request /\ c.kind = "refresh" /\ c.step = "locked" /\ c.session \in DOMAIN sessions
      /\ c.gen \in Nat /\ c.seen = {sessions[c.session].pairs}
  BY <1>1, IsRequest DEF Rotate, LocksOK
<1>3. CASE c.stale
  <2>1. sessions' = [sessions EXCEPT ![c.session].state = "reuse"] /\ Becomes(c, Answer(c, "denied", c.gen))
    BY <1>3 DEF Rotate
  <2>2. c.session \in lost
    BY <1>1, <1>2, <1>3 DEF LocksOK
  <2>3. Rows' /\ KeptPairs
    BY <1>1, <1>2, <2>1, <2>2, SetState DEF States
  <2>4. PICK n : n = Answer(c, "denied", c.gen)
    OBVIOUS
  <2>5. n \in Request /\ n.kind = c.kind /\ n.session = c.session /\ n.gen = c.gen
        /\ n.step = "denied" /\ n.waits = c.waits
    <3>1. c.session \in Nat /\ c.waits \in BOOLEAN /\ c.gen \in Nat
      BY <1>2 DEF Request
    <3>2. n = [kind |-> "refresh", session |-> c.session, gen |-> c.gen, step |-> "denied",
               waits |-> c.waits, seen |-> {}, stale |-> FALSE]
      BY <2>4 DEF Answer, Call
    <3>3. n \in Request
      BY <3>1, <3>2 DEF Request
    <3>4. n.kind = "refresh" /\ n.session = c.session /\ n.gen = c.gen /\ n.step = "denied"
      BY <3>2
    <3>5. n.waits = c.waits
      BY <3>2, Zenon
    <3> QED BY <1>2, <3>3, <3>4, <3>5, Zenon
  <2>6. Requests'
    BY <1>1, <1>2, <2>1, <2>3, <2>4, <2>5, GotOn
  <2> QED BY <2>3, <2>6 DEF App
<1>4. CASE ~c.stale
  <2>1. PICK s : s = c.session
    OBVIOUS
  <2>2. PICK k \in Nat \ {0} : k = sessions[s].pairs
    BY <1>1, <1>2, <2>1, OneUnused
  <2>3. /\ sessions' = [sessions EXCEPT ![s].pairs = @ + 1, ![s].used = @ \cup c.seen]
        /\ Becomes(c, Answer(c, "granted", k + 1))
    BY <1>4, <2>1, <2>2 DEF Rotate
  <2>4. PICK n : n = Answer(c, "granted", k + 1)
    OBVIOUS
  <2>5. n \in Request /\ n.kind = "refresh" /\ n.session = s /\ n.gen = k + 1
        /\ n.step = "granted" /\ n.waits = c.waits
    <3>1. c.session \in Nat /\ c.waits \in BOOLEAN /\ k + 1 \in Nat
      BY <1>2, <2>2 DEF Request
    <3>2. n = [kind |-> "refresh", session |-> c.session, gen |-> k + 1, step |-> "granted",
               waits |-> c.waits, seen |-> {}, stale |-> FALSE]
      BY <2>4 DEF Answer, Call
    <3>3. n \in Request
      BY <3>1, <3>2 DEF Request
    <3>4. n.kind = "refresh" /\ n.session = c.session /\ n.gen = k + 1 /\ n.step = "granted"
      BY <3>2
    <3>5. n.waits = c.waits
      BY <3>2, Zenon
    <3> QED BY <2>1, <3>3, <3>4, <3>5, Zenon
  <2>6. calls' = (calls \ {c}) \cup {n}
    BY <2>3, <2>4 DEF Becomes
  <2>7. PICK e : e = [sessions[s] EXCEPT !.pairs = @ + 1, !.used = @ \cup c.seen]
    OBVIOUS
  <2>8. sessions \in Seq(Session) /\ s \in DOMAIN sessions
    BY <1>1, <1>2, <2>1 DEF SessionsOK
  <2>9. sessions[s] \in Session
    BY <2>8, Items
  <2>10. /\ e \in Session /\ e.state = sessions[s].state /\ e.code = sessions[s].code
         /\ e.pairs = k + 1 /\ e.used = sessions[s].used \cup {k}
    <3>1. c.seen = {k} /\ sessions[s].pairs = k /\ k + 1 \in Nat \ {0}
      BY <1>2, <2>1, <2>2
    <3>2. e = [sessions[s] EXCEPT !.pairs = k + 1, !.used = sessions[s].used \cup {k}]
      BY <2>7, <2>9, <3>1 DEF Session
    <3>3. sessions[s].used \cup {k} \in SUBSET Nat
      BY <2>2, <2>9 DEF Session
    <3> QED BY <2>9, <3>1, <3>2, <3>3 DEF Session
  <2>11. e.used = 1..k
    BY <1>1, <2>2, <2>8, <2>10 DEF UsedInOrder
  <2>12. sessions' = [sessions EXCEPT ![s] = e]
    BY <2>3, <2>7
  <2>13. /\ sessions' \in Seq(Session) /\ DOMAIN sessions' = DOMAIN sessions
         /\ sessions'[s] = e /\ \A t \in DOMAIN sessions : t # s => sessions'[t] = sessions[t]
    BY <2>8, <2>10, <2>12, SetItem
  <2>14. /\ sessions'[s].pairs = k + 1 /\ sessions'[s].used = 1..((k + 1) - 1)
         /\ sessions'[s].code = sessions[s].code /\ sessions'[s].state = sessions[s].state
    BY <2>2, <2>10, <2>11, <2>13
  <2>15. Rows'
    <3>1. SessionsOK' /\ OneSessionPerCode' /\ NoSpuriousReuse'
      BY <1>1, <2>8, <2>13, <2>14 DEF Rows, SessionsOK, OneSessionPerCode, NoSpuriousReuse
    <3>2. UsedInOrder'
      BY <1>1, <2>13, <2>14 DEF UsedInOrder
    <3>3. CodesOK'
      BY <1>1 DEF Rows, CodesOK
    <3> QED BY <3>1, <3>2, <3>3 DEF Rows
  <2>16. \A d \in calls : d.session \in DOMAIN sessions /\ d.gen \in 1..sessions'[d.session].pairs
    BY <1>1, <2>2, <2>13, <2>14 DEF CallsOK
  <2>17. VaultOK' /\ CallsOK'
    <3>1. VaultOK'
      BY <1>1, <2>2, <2>8, <2>13, <2>14 DEF VaultOK
    <3>2. CallsOK'
      BY <1>1, <2>2, <2>5, <2>6, <2>8, <2>13, <2>14, <2>16 DEF CallsOK
    <3> QED BY <3>1, <3>2
  <2>18. LocksOK'
    <3>1. \A d \in calls : d # c /\ d.step = "locked" => d.session # s
      BY <1>1, <1>2, <2>1 DEF LocksOK
    <3>2. \A d \in calls' : d.step \in {"locked", "granted"} => d.kind = "refresh"
      BY <1>1, <2>5, <2>6 DEF LocksOK
    <3>3. ASSUME NEW d \in calls', d.step = "locked"
          PROVE  d.seen = {sessions'[d.session].pairs} /\ (d.stale => d.session \in lost')
      <4>1. d \in calls /\ d # c /\ d.session # s /\ d.session \in DOMAIN sessions
        BY <2>5, <2>6, <2>16, <3>1, <3>3
      <4> QED BY <1>1, <2>13, <3>3, <4>1 DEF LocksOK
    <3>4. \A d, f \in calls' : d.step = "locked" /\ f.step = "locked" /\ d.session = f.session => d = f
      BY <1>1, <2>5, <2>6 DEF LocksOK
    <3> QED BY <3>2, <3>3, <3>4 DEF LocksOK
  <2>19. OneWaits'
    <3>1. ASSUME NEW d \in calls', d.kind = "refresh" PROVE d.waits \/ d.session \in lost'
      BY <1>1, <1>2, <2>1, <2>5, <2>6, <3>1, Zenon DEF OneWaits
    <3>2. ASSUME NEW d \in calls', NEW f \in calls', d.kind = "refresh", f.kind = "refresh", d.waits, f.waits
          PROVE  d = f
      BY <1>1, <1>2, <2>5, <2>6, <3>2, Zenon DEF OneWaits
    <3> QED BY <3>1, <3>2 DEF OneWaits
  <2>20. NewestSent'
    <3> SUFFICES ASSUME NEW d \in calls', d.kind = "refresh", d.step \in {"sent", "locked", "granted"},
                        Heard(d.session)'
                 PROVE  d.gen = sessions'[d.session].pairs
      BY DEF NewestSent
    <3>1. CASE d = n
      BY <2>5, <2>14, <3>1
    <3>2. CASE d # n
      <4>1. d \in calls /\ d # c /\ d.session \notin lost
        BY <1>1, <2>6, <3>2 DEF Heard
      <4>2. d.session # s
        BY <1>1, <1>2, <2>1, <4>1, Zenon DEF OneWaits
      <4> QED BY <1>1, <2>13, <2>16, <4>1, <4>2 DEF NewestSent, Heard
    <3> QED BY <3>1, <3>2
  <2>21. NewestHeld'
    <3> SUFFICES ASSUME pair # NoPair, Heard(pair.session), ~Coming(pair.session)'
                 PROVE  pair.gen = sessions'[pair.session].pairs
      BY <1>1 DEF NewestHeld, Heard
    <3>1. pair.session # s
      BY <1>1, <2>5, <2>6 DEF Coming
    <3>2. ~Coming(pair.session)
      BY <1>1, <1>2, <2>6 DEF Coming
    <3> QED BY <1>1, <2>13, <3>1, <3>2 DEF NewestHeld, VaultOK
  <2> QED BY <2>15, <2>17, <2>18, <2>19, <2>20, <2>21 DEF App, Requests
<1> QED BY <1>3, <1>4

LEMMA DropKeeps ==
  ASSUME App, NEW c \in calls, RotateFails(c) \/ LoseCall(c)
  PROVE  App'
<1>1. Rows /\ Requests /\ UNCHANGED <<codes, sessions, pair, lost>> /\ calls' = calls \ {c}
      /\ c.step # "granted"
  BY DEF App, RotateFails, LoseCall
<1>2. Rows' /\ KeptPairs
  BY <1>1, RowsStay
<1> QED BY <1>1, <1>2, Dropped DEF App

LEMMA ReplyKeeps == ASSUME App, NEW c \in calls, Reply(c) PROVE App'
<1>1. Rows /\ Requests /\ VaultOK /\ CallsOK /\ LocksOK /\ OneWaits /\ NewestSent /\ NewestHeld
      /\ UNCHANGED <<codes, sessions, lost>> /\ calls' = calls \ {c}
  BY DEF App, Requests, Reply
<1>2. Rows' /\ KeptPairs
  BY <1>1, RowsStay
<1>3. CASE ~c.waits
  <2>1. UNCHANGED pair
    BY <1>3 DEF Reply
  <2>2. c.step # "granted" \/ c.session \in lost
    BY <1>1, <1>3, Zenon DEF LocksOK, OneWaits
  <2> QED BY <1>1, <1>2, <2>1, <2>2, Dropped DEF App
<1>4. CASE c.waits
  <2>1. LocksOK' /\ CallsOK' /\ OneWaits' /\ NewestSent'
    BY <1>1 DEF LocksOK, CallsOK, OneWaits, NewestSent, Heard
  <2>2. pair' = Vault(c)
    BY <1>4 DEF Reply
  <2>3. CASE c.step # "granted"
    <3>1. pair' = NoPair
      BY <2>2, <2>3 DEF Vault
    <3> QED BY <1>1, <1>2, <2>1, <3>1 DEF App, Requests, VaultOK, NewestHeld, NoPair
  <2>4. CASE c.step = "granted"
    <3>1. pair' = [session |-> c.session, gen |-> c.gen]
      BY <2>2, <2>4 DEF Vault
    <3>2. /\ c.session \in DOMAIN sessions /\ c.session \in Nat
          /\ c.gen \in Nat /\ c.gen \in 1..sessions[c.session].pairs
      BY <1>1, IsRequest
    <3>3. VaultOK'
      BY <1>1, <3>1, <3>2 DEF VaultOK
    <3>4. c.kind = "refresh"
      BY <1>1, <2>4 DEF LocksOK
    <3>5. Heard(c.session) => c.gen = sessions[c.session].pairs
      BY <1>1, <2>4, <3>4 DEF NewestSent
    <3>6. NewestHeld'
      BY <1>1, <3>1, <3>5 DEF NewestHeld, Heard
    <3> QED BY <1>2, <2>1, <3>3, <3>6 DEF App, Requests
  <2> QED BY <2>3, <2>4
<1> QED BY <1>3, <1>4

LEMMA SaveFailsKeeps == ASSUME App, NEW c \in calls, SaveFails(c) PROVE App'
<1>1. Rows /\ VaultOK /\ CallsOK /\ LocksOK /\ OneWaits /\ NewestSent
      /\ UNCHANGED <<codes, sessions, lost>> /\ pair' = NoPair
  BY DEF App, Requests, SaveFails
<1>2. c \in Request /\ c.session \in DOMAIN sessions /\ c.gen \in 1..sessions[c.session].pairs
      /\ c.session \in Nat /\ c.gen \in Nat
  BY <1>1, IsRequest
<1>3. PICK n : n = [Call("logout", c.session, c.gen) EXCEPT !.waits = FALSE]
  OBVIOUS
<1>4. calls' = (calls \ {c}) \cup {n}
  BY <1>3 DEF SaveFails, Becomes
<1>5. n \in Request /\ n.kind = "logout" /\ n.session = c.session /\ n.gen = c.gen /\ n.step = "sent"
  BY <1>2, <1>3 DEF Call, Request
<1>6. Rows'
  BY <1>1, RowsStay
<1>7. VaultOK' /\ CallsOK' /\ NewestHeld'
  BY <1>1, <1>2, <1>4, <1>5 DEF VaultOK, CallsOK, NewestHeld, NoPair
<1>8. LocksOK' /\ NewestSent'
  BY <1>1, <1>4, <1>5 DEF LocksOK, NewestSent, Heard
<1>9. OneWaits'
  <2>1. n.kind # "refresh"
    BY <1>5
  <2> QED BY <1>1, <1>4, <2>1, Zenon DEF OneWaits
<1> QED BY <1>6, <1>7, <1>8, <1>9 DEF App, Requests

LEMMA GiveUpKeeps == ASSUME App, NEW c \in calls, GiveUp(c) PROVE App'
<1>1. Rows /\ VaultOK /\ CallsOK /\ LocksOK /\ OneWaits /\ NewestSent /\ NewestHeld
      /\ UNCHANGED <<codes, sessions>>
  BY DEF App, Requests, GiveUp
<1>2. c \in Request /\ c.session \in DOMAIN sessions /\ c.gen \in 1..sessions[c.session].pairs
  BY <1>1, IsRequest
<1>3. /\ lost' = IF c.kind = "refresh" THEN lost \cup {c.session} ELSE lost
      /\ pair' = IF c.kind = "logout" THEN NoPair ELSE pair
  BY DEF GiveUp
<1>4. PICK n : n = [c EXCEPT !.waits = FALSE]
  OBVIOUS
<1>5. calls' = (calls \ {c}) \cup {n}
  BY <1>4 DEF GiveUp, Becomes
<1>6. /\ n \in Request /\ n.kind = c.kind /\ n.session = c.session /\ n.gen = c.gen
      /\ n.step = c.step /\ n.seen = c.seen
  BY <1>2, <1>4 DEF Request
<1>7. n.stale = c.stale /\ ~n.waits
  BY <1>2, <1>4, Zenon DEF Request
<1>8. lost \subseteq lost' /\ lost' \subseteq DOMAIN sessions /\ (c.kind = "refresh" => c.session \in lost')
  BY <1>1, <1>2, <1>3 DEF VaultOK
<1>9. Rows'
  BY <1>1, <1>8, RowsStay
<1>10. VaultOK' /\ CallsOK'
  BY <1>1, <1>2, <1>3, <1>5, <1>6, <1>8 DEF VaultOK, CallsOK, NoPair
<1>11. LocksOK'
  <2>1. \A d \in calls' : d.step \in {"locked", "granted"} => d.kind = "refresh"
    BY <1>1, <1>5, <1>6 DEF LocksOK
  <2>2. \A d \in calls' : d.step = "locked" => d.seen = {sessions[d.session].pairs}
    BY <1>1, <1>5, <1>6 DEF LocksOK
  <2>3. \A d \in calls' : d.step = "locked" /\ d.stale => d.session \in lost'
    BY <1>1, <1>5, <1>6, <1>7, <1>8, Zenon DEF LocksOK
  <2>4. \A d, f \in calls' : d.step = "locked" /\ f.step = "locked" /\ d.session = f.session => d = f
    BY <1>1, <1>5, <1>6 DEF LocksOK
  <2> QED BY <1>1, <2>1, <2>2, <2>3, <2>4, Zenon DEF LocksOK
<1>12. OneWaits'
  <2>1. ASSUME NEW d \in calls', d.kind = "refresh" PROVE d.waits \/ d.session \in lost'
    BY <1>1, <1>5, <1>6, <1>8, <2>1, Zenon DEF OneWaits
  <2>2. ASSUME NEW d \in calls', NEW f \in calls', d.kind = "refresh", f.kind = "refresh", d.waits, f.waits
        PROVE  d = f
    BY <1>1, <1>5, <1>7, <2>2, Zenon DEF OneWaits
  <2> QED BY <2>1, <2>2 DEF OneWaits
<1>13. NewestSent'
  BY <1>1, <1>5, <1>6, <1>8 DEF NewestSent, Heard
<1>14. NewestHeld'
  <2> SUFFICES ASSUME pair' # NoPair, Heard(pair.session)', ~Coming(pair.session)'
               PROVE  pair'.gen = sessions[pair'.session].pairs
    BY <1>1 DEF NewestHeld
  <2>1. pair' = pair
    BY <1>3
  <2>2. ~Coming(pair.session)
    BY <1>5, <1>6, <2>1 DEF Coming
  <2>3. Heard(pair.session)
    BY <1>8, <2>1 DEF Heard
  <2> QED BY <1>1, <2>1, <2>2, <2>3 DEF NewestHeld
<1> QED BY <1>9, <1>10, <1>11, <1>12, <1>13, <1>14 DEF App, Requests

LEMMA ExpiresKeeps == ASSUME App, NEW s \in DOMAIN sessions, SessionExpires(s) PROVE App'
<1>1. Rows /\ Requests /\ UNCHANGED <<codes, pair, calls, lost>>
      /\ sessions' = [sessions EXCEPT ![s].state = "expired"]
  BY DEF App, SessionExpires
<1>2. Rows' /\ KeptPairs
  BY <1>1, SetState DEF States
<1>3. Requests'
  BY <1>1, <1>2 DEF Requests, VaultOK, CallsOK, LocksOK, OneWaits, NewestSent, NewestHeld, Heard, Coming, KeptPairs
<1> QED BY <1>2, <1>3 DEF App

LEMMA LoginKeeps == ASSUME App, NEW i \in DOMAIN codes, Login(i) PROVE App'
<1>1. CodesOK /\ SessionsOK /\ UsedInOrder /\ OneSessionPerCode /\ NoSpuriousReuse
      /\ VaultOK /\ CallsOK /\ LocksOK /\ OneWaits /\ NewestSent /\ NewestHeld /\ calls' = calls
  BY DEF App, Rows, Requests, Login
<1>2. codes \in Seq(Code) /\ codes[i].check = "right" /\ codes[i].status = "otp"
      /\ codes[i].attempts < MaxAttempts
  BY <1>1 DEF CodesOK, Login
<1>3. codes[i] \in Code
  BY <1>2, Items
<1>4. PICK e : e = [codes[i] EXCEPT !.attempts = @ + 1, !.check = "none", !.status = "used"]
  OBVIOUS
<1>5. codes[i].attempts \in 0..MaxAttempts
  BY <1>3 DEF Code
<1>6. codes[i].attempts + 1 \in 0..MaxAttempts
  BY <1>2, <1>5, BoundsAssumption
<1>7. e \in Code /\ e.status = "used" /\ e.check = "none"
  BY <1>3, <1>4, <1>6 DEF Code
<1>8. codes' = [codes EXCEPT ![i] = e]
  BY <1>4 DEF Login
<1>9. /\ codes' \in Seq(Code) /\ Len(codes') = Len(codes) /\ DOMAIN codes' = DOMAIN codes
      /\ codes'[i] = e /\ \A j \in DOMAIN codes : j # i => codes'[j] = codes[j]
  BY <1>2, <1>7, <1>8, SetItem
<1>10. CodesOK'
  BY <1>1, <1>7, <1>9 DEF CodesOK
<1>11. PICK r : r = [code |-> i, state |-> "live", pairs |-> 1, used |-> {}]
  OBVIOUS
<1>12. i \in Nat
  BY <1>2, Items
<1>13. r \in Session /\ r.code = i /\ r.state = "live" /\ r.pairs = 1 /\ r.used = {}
  BY <1>11, <1>12 DEF Session
<1>14. sessions \in Seq(Session) /\ sessions' = Append(sessions, r)
  BY <1>1, <1>11 DEF SessionsOK, Login
<1>15. PICK n : n = Len(sessions')
  OBVIOUS
<1>16. /\ sessions' \in Seq(Session) /\ DOMAIN sessions' = DOMAIN sessions \cup {n} /\ n \notin DOMAIN sessions
       /\ n \in Nat \ {0} /\ sessions'[n] = r /\ \A t \in DOMAIN sessions : sessions'[t] = sessions[t]
  BY <1>13, <1>14, <1>15, AddItem
<1>17. \/ pair' = [session |-> n, gen |-> 1] /\ UNCHANGED lost
       \/ lost' = lost \cup {n} /\ UNCHANGED pair
  BY <1>15 DEF Login
<1>18. SessionsOK' /\ UsedInOrder' /\ NoSpuriousReuse'
  <2>1. SessionsOK'
    <3> SUFFICES ASSUME NEW t \in DOMAIN sessions'
                 PROVE  sessions'[t].code \in DOMAIN codes' /\ codes'[sessions'[t].code].status = "used"
      BY <1>16 DEF SessionsOK
    <3>1. CASE t = n
      BY <1>7, <1>9, <1>13, <1>16, <3>1
    <3>2. CASE t \in DOMAIN sessions
      BY <1>1, <1>7, <1>9, <1>16, <3>2 DEF SessionsOK
    <3> QED BY <1>16, <3>1, <3>2
  <2>2. UsedInOrder'
    <3>1. sessions'[n].used = 1..(sessions'[n].pairs - 1)
      <4>1. sessions'[n].used = {} /\ sessions'[n].pairs = 1
        BY <1>13, <1>16
      <4>2. 1..(1 - 1) = {}
        OBVIOUS
      <4> QED BY <4>1, <4>2
    <3>2. \A t \in DOMAIN sessions : sessions'[t].used = 1..(sessions'[t].pairs - 1)
      BY <1>1, <1>16 DEF UsedInOrder
    <3> QED BY <1>16, <3>1, <3>2 DEF UsedInOrder
  <2>3. NoSpuriousReuse'
    BY <1>1, <1>13, <1>16, <1>17 DEF NoSpuriousReuse
  <2> QED BY <2>1, <2>2, <2>3
<1>19. OneSessionPerCode'
  <2>1. \A t \in DOMAIN sessions : sessions[t].code # i
    BY <1>1, <1>2 DEF SessionsOK
  <2> QED BY <1>1, <1>13, <1>16, <2>1 DEF OneSessionPerCode
<1>20. VaultOK' /\ CallsOK'
  BY <1>1, <1>13, <1>16, <1>17 DEF VaultOK, CallsOK
<1>21. \A c \in calls : c.session # n /\ c.session \in DOMAIN sessions
  BY <1>1, <1>16 DEF CallsOK
<1>22. \A s \in DOMAIN sessions : s \in lost' <=> s \in lost
  BY <1>16, <1>17
<1>23. LocksOK' /\ NewestSent'
  BY <1>1, <1>16, <1>21, <1>22 DEF LocksOK, NewestSent, Heard
<1>24. OneWaits'
  <2>1. ASSUME NEW d \in calls', d.kind = "refresh" PROVE d.waits \/ d.session \in lost'
    BY <1>1, <1>21, <1>22, <2>1, Zenon DEF OneWaits
  <2> QED BY <1>1, <2>1, Zenon DEF OneWaits
<1>25. NewestHeld'
  <2>1. CASE pair' = [session |-> n, gen |-> 1]
    BY <1>13, <1>16, <2>1 DEF NewestHeld
  <2>2. CASE UNCHANGED pair
    <3> SUFFICES ASSUME pair # NoPair, Heard(pair.session)', ~Coming(pair.session)'
                 PROVE  pair.gen = sessions'[pair.session].pairs
      BY <2>2 DEF NewestHeld
    <3>1. pair.session \in DOMAIN sessions
      BY <1>1 DEF VaultOK
    <3>2. Heard(pair.session) /\ ~Coming(pair.session)
      BY <1>1, <1>22, <2>2, <3>1 DEF Heard, Coming
    <3> QED BY <1>1, <1>16, <3>1, <3>2 DEF NewestHeld
  <2> QED BY <1>17, <2>1, <2>2
<1> QED BY <1>10, <1>18, <1>19, <1>20, <1>23, <1>24, <1>25 DEF App, Rows, Requests

-----------------------------------------------------------------------------
\* The web page and the bot.
Ident == \A w \in DOMAIN logins :
           /\ logins[w].chat # None => logins'[w].chat = logins[w].chat
           /\ logins[w].player # None => logins'[w].player = logins[w].player
           /\ logins[w].over /\ logins[w].status # "verified" => logins'[w].status # "verified"

Whole(e) == /\ e.status = "verified" => e.player = e.chat
            /\ e.status \in {"active", "awaiting_contact"} => e.player = None

\* Only messages that can be sent come in.
Sound == /\ bound' \subseteq Person /\ links' \subseteq Person
         /\ \A m \in inbox' : m \in inbox \/ (m.from \in Person /\ (m.kind = "start" => m.login \in DOMAIN logins))

LEMMA LoginsStay == ASSUME Page, Sound, UNCHANGED logins PROVE Page' /\ Ident
<1>1. LoginsOK'
  BY DEF Page, LoginsOK
<1>2. MessagesOK'
  BY DEF Page, MessagesOK, Sound
<1>3. Ident
  BY Zenon DEF Ident
<1> QED BY <1>1, <1>2, <1>3 DEF Page

LEMMA LoginSet ==
  ASSUME Page, Sound, NEW w \in DOMAIN logins, NEW e \in Attempt, Whole(e),
         logins' = [logins EXCEPT ![w] = e],
         logins[w].chat # None => e.chat = logins[w].chat,
         logins[w].player # None => e.player = logins[w].player,
         logins[w].over /\ logins[w].status # "verified" => e.status # "verified"
  PROVE  Page' /\ Ident
<1>1. logins \in Seq(Attempt)
  BY DEF Page, LoginsOK
<1>2. /\ logins' \in Seq(Attempt) /\ DOMAIN logins' = DOMAIN logins
      /\ logins'[w] = e /\ \A u \in DOMAIN logins : u # w => logins'[u] = logins[u]
  BY <1>1, SetItem
<1>3. LoginsOK'
  BY <1>2 DEF Page, LoginsOK, Whole
<1>4. MessagesOK'
  BY <1>2 DEF Page, MessagesOK, Sound
<1>5. Ident
  <2> SUFFICES ASSUME NEW u \in DOMAIN logins
               PROVE  /\ logins[u].chat # None => logins'[u].chat = logins[u].chat
                      /\ logins[u].player # None => logins'[u].player = logins[u].player
                      /\ logins[u].over /\ logins[u].status # "verified" => logins'[u].status # "verified"
    BY Zenon DEF Ident
  <2>1. CASE u = w
    BY <1>2, <2>1, Zenon
  <2>2. CASE u # w
    BY <1>2, <2>2, Zenon
  <2> QED BY <2>1, <2>2
<1> QED BY <1>3, <1>4, <1>5 DEF Page

LEMMA LoginAdded ==
  ASSUME Page, Sound, NEW e \in Attempt, Whole(e), logins' = Append(logins, e)
  PROVE  Page' /\ Ident
<1>1. logins \in Seq(Attempt)
  BY DEF Page, LoginsOK
<1>2. PICK n : n = Len(logins')
  OBVIOUS
<1>3. /\ logins' \in Seq(Attempt) /\ DOMAIN logins' = DOMAIN logins \cup {n}
      /\ logins'[n] = e /\ \A u \in DOMAIN logins : logins'[u] = logins[u]
  BY <1>1, <1>2, AddItem
<1>4. LoginsOK'
  BY <1>3 DEF Page, LoginsOK, Whole
<1>5. MessagesOK'
  BY <1>3 DEF Page, MessagesOK, Sound
<1>6. Ident
  BY <1>3, Zenon DEF Ident
<1> QED BY <1>4, <1>5, <1>6 DEF Page

LEMMA ClaimKeeps ==
  ASSUME Page, Sound, NEW p \in Person, NEW w \in DOMAIN logins, Claim(p, w)
  PROVE  Page' /\ Ident
<1>1. CASE ~(logins[w].status = "active" /\ ~logins[w].over /\ logins[w].chat \in {None, p})
  <2>1. UNCHANGED logins
    BY <1>1, Zenon DEF Claim
  <2> QED BY <2>1, LoginsStay
<1>2. CASE logins[w].status = "active" /\ ~logins[w].over /\ logins[w].chat \in {None, p}
  <2>1. PICK e : e = [logins[w] EXCEPT !.chat = p, !.player = IF p \in bound THEN p ELSE None,
                                       !.status = IF p \in bound THEN "verified" ELSE "awaiting_contact"]
    OBVIOUS
  <2>2. logins' = [logins EXCEPT ![w] = e]
    <3>1. logins' = [logins EXCEPT ![w].chat = p, ![w].player = IF p \in bound THEN p ELSE None,
                                   ![w].status = IF p \in bound THEN "verified" ELSE "awaiting_contact"]
      BY <1>2, Zenon DEF Claim
    <3> QED BY <2>1, <3>1
  <2>3. logins[w] \in Attempt /\ logins[w].player = None
    <3>1. logins \in Seq(Attempt)
      BY DEF Page, LoginsOK
    <3>2. logins[w].player = None
      BY <1>2 DEF Page, LoginsOK
    <3> QED BY <3>1, <3>2, Items
  <2>4. CASE p \in bound
    <3>1. e \in Attempt /\ e.status = "verified" /\ e.chat = p /\ e.player = p
      BY <2>1, <2>3, <2>4 DEF Attempt
    <3>2. Whole(e)
      BY <3>1 DEF Whole
    <3>3. logins[w].chat # None => e.chat = logins[w].chat
      BY <1>2, <3>1
    <3> QED BY <1>2, <2>2, <2>3, <3>1, <3>2, <3>3, LoginSet, Zenon
  <2>5. CASE p \notin bound
    <3>1. e \in Attempt /\ e.status = "awaiting_contact" /\ e.chat = p /\ e.player = None
      BY <2>1, <2>3, <2>5 DEF Attempt
    <3>2. Whole(e)
      BY <3>1 DEF Whole
    <3>3. logins[w].chat # None => e.chat = logins[w].chat
      BY <1>2, <3>1
    <3>4. e.status # "verified"
      BY <3>1
    <3> QED BY <2>2, <2>3, <3>1, <3>2, <3>3, <3>4, LoginSet, Zenon
  <2> QED BY <2>4, <2>5
<1> QED BY <1>1, <1>2

LEMMA CompleteKeeps ==
  ASSUME Page, Sound, NEW p \in Person, Complete(p)
  PROVE  Page' /\ Ident
<1>1. CASE Awaiting(p) = {}
  BY <1>1, LoginsStay DEF Complete
<1>2. CASE Awaiting(p) # {}
  <2>1. PICK w \in Awaiting(p) : logins' = [logins EXCEPT ![w].status = "verified", ![w].player = p]
    BY <1>2 DEF Complete
  <2>2. w \in DOMAIN logins /\ logins[w].status = "awaiting_contact" /\ logins[w].chat = p
    BY <2>1 DEF Awaiting
  <2>3. ~logins[w].over
    BY <2>1, Zenon DEF Awaiting
  <2>4. logins[w] \in Attempt /\ logins[w].player = None
    <3>1. logins \in Seq(Attempt)
      BY DEF Page, LoginsOK
    <3>2. logins[w].player = None
      BY <2>2 DEF Page, LoginsOK
    <3> QED BY <2>2, <3>1, <3>2, Items
  <2>5. PICK e : e = [logins[w] EXCEPT !.status = "verified", !.player = p]
    OBVIOUS
  <2>6. logins' = [logins EXCEPT ![w] = e]
    BY <2>1, <2>5
  <2>7. e \in Attempt /\ e.status = "verified" /\ e.chat = p /\ e.player = p
    BY <2>2, <2>4, <2>5 DEF Attempt
  <2>8. Whole(e)
    BY <2>7 DEF Whole
  <2> QED BY <2>2, <2>3, <2>4, <2>6, <2>7, <2>8, LoginSet, Zenon
<1> QED BY <1>1, <1>2

BotStep(m) == StartLink(m) \/ Contact(m) \/ VoucherLink(m) \/ HandleFails(m)

\* The links and the bound players stay people.
LEMMA StaysSound ==
  ASSUME Page, inbox' \subseteq inbox, bound' \subseteq Person, links' \subseteq Person
  PROVE  Sound
BY DEF Sound

LEMMA BotKeeps ==
  ASSUME Page, NEW m \in inbox, BotStep(m)
  PROVE  Page' /\ Ident
<1>1. /\ m.from \in Person /\ (m.kind = "start" => m.login \in DOMAIN logins)
      /\ bound \subseteq Person /\ links \subseteq Person
  BY DEF Page, MessagesOK
<1>2. inbox' \subseteq inbox
  BY DEF BotStep, StartLink, Contact, VoucherLink, HandleFails, Handled
<1>3. CASE StartLink(m)
  <2>1. Sound
    BY <1>1, <1>2, <1>3, StaysSound DEF StartLink
  <2> QED BY <1>1, <1>3, <2>1, ClaimKeeps DEF StartLink
<1>4. ASSUME Complete(m.from), links' \subseteq Person PROVE Page' /\ Ident
  <2>1. bound' \subseteq Person
    BY <1>1, <1>4 DEF Complete
  <2>2. Sound
    BY <1>2, <1>4, <2>1, StaysSound
  <2> QED BY <1>1, <1>4, <2>2, CompleteKeeps
<1>5. ASSUME UNCHANGED <<logins, bound>>, links' \subseteq Person PROVE Page' /\ Ident
  <2>1. Sound
    BY <1>1, <1>2, <1>5, StaysSound
  <2> QED BY <1>5, <2>1, LoginsStay
<1>6. CASE Contact(m)
  <2>1. links' \subseteq Person
    BY <1>1, <1>6 DEF Contact
  <2>2. UNCHANGED <<logins, bound>> \/ Complete(m.from)
    BY <1>6, Zenon DEF Contact
  <2> QED BY <1>4, <1>5, <2>1, <2>2
<1>7. CASE VoucherLink(m)
  <2>1. links' \subseteq Person
    BY <1>1, <1>7 DEF VoucherLink
  <2>2. UNCHANGED <<logins, bound>> \/ Complete(m.from)
    BY <1>7 DEF VoucherLink
  <2> QED BY <1>4, <1>5, <2>1, <2>2
<1>8. CASE HandleFails(m)
  <2>1. links' \subseteq Person /\ UNCHANGED <<logins, bound>>
    BY <1>1, <1>8 DEF HandleFails
  <2> QED BY <1>5, <2>1
<1> QED BY <1>3, <1>6, <1>7, <1>8 DEF BotStep

LEMMA NewLogin ==
  ASSUME NEW chat \in Person \cup {None}, NEW player \in Person \cup {None},
         NEW status \in {"active", "verified"}
  PROVE  LET e == Login0(status, chat, player)
         IN e \in Attempt /\ e.status = status /\ e.chat = chat /\ e.player = player
BY DEF Login0, Attempt

LEMMA StartsKeep ==
  ASSUME Page, StartPlayerAuth \/ \E p \in Person : MiniAppPlayerAuth(p)
  PROVE  Page' /\ Ident
<1>1. Sound
  BY DEF Page, MessagesOK, Sound, StartPlayerAuth, MiniAppPlayerAuth
<1>2. CASE StartPlayerAuth
  <2>1. PICK e : e = Login0("active", None, None)
    OBVIOUS
  <2>2. e \in Attempt /\ e.status = "active" /\ e.player = None
    BY <2>1, NewLogin
  <2>3. Whole(e)
    BY <2>2 DEF Whole
  <2> QED BY <1>1, <1>2, <2>1, <2>2, <2>3, LoginAdded DEF StartPlayerAuth
<1>3. ASSUME NEW p \in Person, MiniAppPlayerAuth(p) PROVE Page' /\ Ident
  <2>1. PICK e : e = IF p \in bound THEN Login0("verified", p, p) ELSE Login0("active", p, None)
    OBVIOUS
  <2>2. e \in Attempt /\ Whole(e)
    <3>1. CASE p \in bound
      <4>1. e \in Attempt /\ e.status = "verified" /\ e.chat = p /\ e.player = p
        BY <2>1, <3>1, NewLogin
      <4> QED BY <4>1 DEF Whole
    <3>2. CASE p \notin bound
      <4>1. e \in Attempt /\ e.status = "active" /\ e.player = None
        BY <2>1, <3>2, NewLogin
      <4> QED BY <4>1 DEF Whole
    <3> QED BY <3>1, <3>2
  <2> QED BY <1>1, <1>3, <2>1, <2>2, LoginAdded DEF MiniAppPlayerAuth
<1> QED BY <1>2, <1>3

LEMMA EndsKeep ==
  ASSUME Page, NEW w \in DOMAIN logins, LoginExpires(w) \/ Poll(w)
  PROVE  Page' /\ Ident
<1>1. Sound
  BY DEF Page, MessagesOK, Sound, LoginExpires, Poll
<1>2. logins[w] \in Attempt /\ Whole(logins[w])
  <2>1. logins \in Seq(Attempt)
    BY DEF Page, LoginsOK
  <2>2. Whole(logins[w])
    BY DEF Page, LoginsOK, Whole
  <2> QED BY <2>1, <2>2, Items
<1>3. CASE LoginExpires(w)
  <2>1. PICK e : e = [logins[w] EXCEPT !.over = TRUE]
    OBVIOUS
  <2>2. logins' = [logins EXCEPT ![w] = e]
    BY <1>3, <2>1 DEF LoginExpires
  <2>3. e \in Attempt /\ e.status = logins[w].status /\ e.chat = logins[w].chat /\ e.player = logins[w].player
    BY <1>2, <2>1 DEF Attempt
  <2>4. Whole(e)
    BY <1>2, <2>3 DEF Whole
  <2> QED BY <1>1, <2>2, <2>3, <2>4, LoginSet, Zenon
<1>4. CASE Poll(w)
  <2>1. PICK e : e = [logins[w] EXCEPT !.status = "expired"]
    OBVIOUS
  <2>2. logins' = [logins EXCEPT ![w] = e]
    BY <1>4, <2>1 DEF Poll
  <2>3. e \in Attempt /\ e.status = "expired" /\ e.chat = logins[w].chat /\ e.player = logins[w].player
    BY <1>2, <2>1 DEF Attempt
  <2>4. Whole(e) /\ e.status # "verified"
    BY <2>3 DEF Whole
  <2> QED BY <1>1, <2>2, <2>3, <2>4, LoginSet, Zenon
<1> QED BY <1>3, <1>4

LEMMA SendKeeps == ASSUME Page, NEW m \in Message, Send(m) PROVE Page' /\ Ident
<1>1. m.from \in Person /\ (m.kind = "start" => m.login \in DOMAIN logins)
  BY DEF Message
<1>2. Sound /\ UNCHANGED logins
  BY <1>1 DEF Page, MessagesOK, Sound, Send
<1> QED BY <1>2, LoginsStay

-----------------------------------------------------------------------------
\* The two sides do not disturb each other.
AppStep ==
  \/ Challenge \/ Refresh \/ Logout
  \/ \E i \in DOMAIN codes : \/ SendMobileOTP(i) \/ Expire(i) \/ Reject(i) \/ AbortVerify(i) \/ Login(i)
                             \/ \E guess \in {"right", "wrong"} : BeginVerify(i, guess)
  \/ \E c \in calls : \/ Lock(c) \/ Rotate(c) \/ RotateFails(c) \/ Revoke(c) \/ Reply(c)
                      \/ SaveFails(c) \/ GiveUp(c) \/ LoseCall(c)
  \/ \E s \in DOMAIN sessions : SessionExpires(s)

PageStep ==
  \/ StartPlayerAuth \/ \E p \in Person : MiniAppPlayerAuth(p)
  \/ \E w \in DOMAIN logins : LoginExpires(w) \/ Poll(w)
  \/ \E m \in Message : Send(m)
  \/ \E m \in inbox : BotStep(m)

LEMMA AppStepKeeps == ASSUME App, AppStep PROVE App'
<1>1. CASE Challenge \/ Refresh \/ Logout
  BY <1>1, ChallengeKeeps, RefreshKeeps, LogoutKeeps
<1>2. ASSUME NEW i \in DOMAIN codes,
             \/ SendMobileOTP(i) \/ Expire(i) \/ Reject(i) \/ AbortVerify(i) \/ Login(i)
             \/ \E guess \in {"right", "wrong"} : BeginVerify(i, guess)
      PROVE  App'
  BY <1>2, CodeKeeps, LoginKeeps
<1>3. ASSUME NEW c \in calls,
             \/ Lock(c) \/ Rotate(c) \/ RotateFails(c) \/ Revoke(c) \/ Reply(c)
             \/ SaveFails(c) \/ GiveUp(c) \/ LoseCall(c)
      PROVE  App'
  BY <1>3, LockKeeps, RotateKeeps, DropKeeps, RevokeKeeps, ReplyKeeps, SaveFailsKeeps, GiveUpKeeps
<1>4. ASSUME NEW s \in DOMAIN sessions, SessionExpires(s) PROVE App'
  BY <1>4, ExpiresKeeps
<1> QED BY <1>1, <1>2, <1>3, <1>4 DEF AppStep

LEMMA PageStepKeeps == ASSUME Page, PageStep PROVE Page' /\ Ident
BY StartsKeep, EndsKeep, SendKeeps, BotKeeps DEF PageStep

LEMMA AppRests == ASSUME App, UNCHANGED mobileVars PROVE App'
<1>1. UNCHANGED <<codes, sessions, pair, calls, lost>>
  BY DEF mobileVars
<1>2. Rows'
  BY <1>1, RowsStay DEF App
<1>3. Requests'
  BY <1>1 DEF App, Requests, VaultOK, CallsOK, LocksOK, OneWaits, NewestSent, NewestHeld, Heard, Coming
<1> QED BY <1>2, <1>3 DEF App

LEMMA PageRests == ASSUME Page, UNCHANGED webVars PROVE Page' /\ Ident
<1>1. UNCHANGED <<logins, bound, links, inbox>>
  BY DEF webVars
<1>2. Sound
  BY <1>1 DEF Page, MessagesOK, Sound
<1> QED BY <1>1, <1>2, LoginsStay

\* An action keeps what it does not name, and counts its faults.
LEMMA AppFrame ==
  ASSUME AppStep PROVE UNCHANGED webVars /\ (UNCHANGED faults \/ Fault)
BY DEF AppStep, Challenge, Refresh, Logout, SendMobileOTP, Expire, Reject, AbortVerify, Login, BeginVerify,
       Lock, Rotate, RotateFails, Revoke, Reply, SaveFails, GiveUp, LoseCall, SessionExpires

LEMMA PageFrame ==
  ASSUME PageStep PROVE UNCHANGED mobileVars /\ UNCHANGED setting /\ (UNCHANGED faults \/ Fault)
BY DEF PageStep, BotStep, StartPlayerAuth, MiniAppPlayerAuth, LoginExpires, Poll, Send, StartLink, Contact,
       VoucherLink, HandleFails, Handled

LEMMA Cases == ASSUME [Next]_vars PROVE AppStep \/ PageStep \/ UNCHANGED vars
BY DEF Next, AppStep, PageStep, BotStep

LEMMA StepInv == ASSUME Inv, [Next]_vars PROVE Inv' /\ Ident
<1>1. CASE AppStep
  <2>1. App' /\ Page' /\ Ident
    BY <1>1, AppStepKeeps, AppFrame, PageRests DEF Inv
  <2>2. UNCHANGED <<client, mobileFirst>>
    BY <1>1, AppFrame DEF webVars, setting
  <2>3. faults' \in 0..MaxFaults
    BY <1>1, AppFrame, FaultKeeps DEF Inv, RestOK
  <2> QED BY <2>1, <2>2, <2>3, Zenon DEF Inv, RestOK
<1>2. CASE PageStep
  <2>1. App' /\ Page' /\ Ident
    BY <1>2, PageStepKeeps, PageFrame, AppRests DEF Inv
  <2>2. UNCHANGED <<client, mobileFirst>>
    BY <1>2, PageFrame DEF setting
  <2>3. faults' \in 0..MaxFaults
    BY <1>2, PageFrame, FaultKeeps DEF Inv, RestOK
  <2> QED BY <2>1, <2>2, <2>3, Zenon DEF Inv, RestOK
<1>3. CASE UNCHANGED vars
  <2>1. UNCHANGED mobileVars /\ UNCHANGED webVars /\ UNCHANGED faults
    BY <1>3 DEF vars
  <2>2. App' /\ Page' /\ Ident
    BY <2>1, AppRests, PageRests DEF Inv
  <2>3. UNCHANGED <<client, mobileFirst, faults>>
    BY <2>1 DEF webVars, setting
  <2> QED BY <2>2, <2>3, Zenon DEF Inv, RestOK
<1> QED BY <1>1, <1>2, <1>3, Cases

\* The inductive invariant holds of every execution.
THEOREM Invariant == Spec => []Inv
<1>1. Init => Inv
  BY InitInv
<1>2. Inv /\ [Next]_vars => Inv'
  BY StepInv
<1> QED BY <1>1, <1>2, PTL DEF Spec

-----------------------------------------------------------------------------
(***************************************************************************)
(* Every state is well typed: a session's used tokens are among those it   *)
(* was given, the app's pair is one of its session's, a verified challenge *)
(* is that of the chat that opened it (mobile_auth.go, server.go).         *)
(***************************************************************************)
THEOREM TypeCorrect == Spec => []TypeOK
<1>1. Inv => TypeOK
  <2> SUFFICES ASSUME Inv PROVE TypeOK
    OBVIOUS
  <2>1. CodesOK /\ SessionsOK /\ UsedInOrder /\ VaultOK /\ CallsOK /\ LoginsOK /\ MessagesOK /\ RestOK
    BY DEF Inv, App, Rows, Requests, Page
  <2>2. /\ codes \in Seq(Code) /\ Len(codes) <= MaxCodes
        /\ \A i \in DOMAIN codes : codes[i].check # "none" => codes[i].status = "otp"
    BY <2>1 DEF CodesOK
  <2>3. \A s \in DOMAIN sessions :
          /\ sessions[s].code \in DOMAIN codes
          /\ sessions[s].state \in {"live", "reuse", "logout", "expired"}
          /\ sessions[s].used \subseteq 1..sessions[s].pairs
    <3> TAKE s \in DOMAIN sessions
    <3>1. sessions \in Seq(Session) /\ sessions[s].code \in DOMAIN codes
      BY <2>1 DEF SessionsOK
    <3>2. sessions[s] \in Session
      BY <3>1, Items
    <3>3. sessions[s].used = 1..(sessions[s].pairs - 1) /\ sessions[s].pairs \in Nat
      BY <2>1, <3>2 DEF UsedInOrder, Session
    <3> QED BY <3>1, <3>2, <3>3 DEF Session
  <2>4. /\ pair = NoPair \/ (pair.session \in DOMAIN sessions /\ pair.gen \in 1..sessions[pair.session].pairs)
        /\ lost \subseteq DOMAIN sessions
    BY <2>1 DEF VaultOK
  <2>5. \A c \in calls : c.kind \in {"refresh", "logout"}
                         /\ c.step \in {"sent", "locked", "granted", "denied", "done"}
    BY <2>1 DEF CallsOK, Request
  <2>6. \A w \in DOMAIN logins :
          /\ logins[w].status \in {"active", "awaiting_contact", "verified", "expired"}
          /\ logins[w].status = "verified" => logins[w].player = logins[w].chat
          /\ {logins[w].chat, logins[w].player} \subseteq Person \cup {None}
    <3> TAKE w \in DOMAIN logins
    <3>1. logins \in Seq(Attempt) /\ (logins[w].status = "verified" => logins[w].player = logins[w].chat)
      BY <2>1 DEF LoginsOK
    <3>2. logins[w] \in Attempt
      BY <3>1, Items
    <3> QED BY <3>1, <3>2 DEF Attempt
  <2>7. bound \subseteq Person /\ links \subseteq Person
    BY <2>1 DEF MessagesOK
  <2>8. client \in {"app", "web"} /\ mobileFirst \in BOOLEAN /\ faults \in 0..MaxFaults
    BY <2>1, Zenon DEF RestOK
  <2> QED BY <2>2, <2>3, <2>4, <2>5, <2>6, <2>7, <2>8, Zenon DEF TypeOK, Code
<1> QED BY <1>1, Invariant, PTL

(***************************************************************************)
(* handleMobileVerify: for every number of requests, lost answers and      *)
(* failed commits, a code opens at most one session.                       *)
(***************************************************************************)
THEOREM CodeOnce == Spec => []OneSessionPerCode
<1>1. Inv => OneSessionPerCode
  BY DEF Inv, App, Rows
<1> QED BY <1>1, Invariant, PTL

(***************************************************************************)
(* handleMobileRefresh: a session never has two refresh tokens that are    *)
(* good, whoever refreshes it and however often.                           *)
(***************************************************************************)
THEOREM NewestOnly == Spec => []OneLiveRefresh
<1>1. Inv => OneLiveRefresh
  <2> SUFFICES ASSUME Inv, NEW s \in DOMAIN sessions PROVE Cardinality(Unused(s)) <= 1
    BY DEF OneLiveRefresh
  <2>1. Unused(s) = {sessions[s].pairs}
    BY OneUnused DEF Inv, App, Rows
  <2>2. Cardinality({sessions[s].pairs}) = 1
    BY FS_Singleton
  <2> QED BY <2>1, <2>2
<1> QED BY <1>1, Invariant, PTL

(***************************************************************************)
(* The single refresh of the app and the lock of the server: reuse is only *)
(* ever found where an answer may not have been heard.                     *)
(***************************************************************************)
THEOREM ReuseIsReal == Spec => []NoSpuriousReuse
<1>1. Inv => NoSpuriousReuse
  BY DEF Inv, App, Rows
<1> QED BY <1>1, Invariant, PTL

(***************************************************************************)
(* claimTelegramPlayerAuthChallenge, completeTelegramPlayerAuth: no order  *)
(* of links, contacts and repeats moves a challenge to another chat or     *)
(* player, or verifies one that has run out.                               *)
(***************************************************************************)
THEOREM IdentityStays == Spec => IdentityKept
<1>1. Inv /\ [Next]_vars => [Ident]_vars
  BY StepInv
<1>2. [][Ident]_vars => IdentityKept
  BY DEF Ident, IdentityKept
<1> QED BY <1>1, <1>2, Invariant, PTL DEF Spec, Ident, IdentityKept
=============================================================================
