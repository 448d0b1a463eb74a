---------------------------- MODULE WeixinGateway ----------------------------
(***************************************************************************)
(* The connection of one bot to Weixin:                                    *)
(* src/platforms/weixin-oc/weixin-oc-gateway-durable-object.ts with its    *)
(* login, polling and state, and the platform at the other end.            *)
(*                                                                         *)
(* A person scans a QR code; the token goes to D1, the cursor and the      *)
(* context tokens of the senders to the object's storage, and an alarm     *)
(* keeps polling.  While the object waits for its storage no event reaches *)
(* it, so a step runs from an event to the next await of D1, of Weixin or  *)
(* of the Queue.  Message n has a sender of its own.                       *)
(***************************************************************************)
EXTENDS Naturals, FiniteSets

CONSTANTS
  None,        \* no QR code, no token
  Requests,    \* requests and cron calls that may be under way at one time
  MaxExpired,  \* expired QR codes after which the login is given up, 3 in the code
  MaxCodes,    \* bound of the model: QR codes the platform gives out
  MaxMessages, \* bound of the model: messages people send
  MaxCalls,    \* bound of the model: requests
  MaxFaults    \* bound of the model: failed awaits, timed out tokens, crashes

Alarm    == "alarm"

ASSUME WeixinConstants ==
  /\ {MaxExpired, MaxCodes, MaxMessages, MaxCalls, MaxFaults} \subseteq Nat
  /\ None \notin 1 .. MaxCodes
  /\ Alarm \notin Requests

Handlers == Requests \cup {Alarm}
Codes    == 1 .. MaxCodes   \* a code's number also names the token it leads to
Messages == 1 .. MaxMessages

VARIABLES
  alarm,      \* the storage's alarm is set
  login,      \* login_session: its QR code
  expired,    \* qr_expired_count, counted up to MaxExpired + 1
  account,    \* account_state: cursor (syncBuf) and contextTokens
  credential, \* the token in D1
  handlers,   \* fetch and alarm under way: where, and what they have read
  codes,      \* the platform's QR codes
  aged,       \* QR codes asked for more than five minutes ago
  revoked,    \* tokens that the platform no longer accepts
  top,        \* messages people have sent
  queued,     \* messages the Queue has
  calls,      \* requests so far
  faults,     \* faults so far
  wanted,     \* a poll was scheduled since the bot was set up (history)
  loggedOut   \* codes given out when a disconnect last took effect (history)

platform == <<codes, aged, revoked, top>>
history  == <<wanted, loggedOut>>
vars == <<alarm, login, expired, account, credential, handlers, platform, queued, calls, faults, history>>

Token   == Codes \cup {None}
Account == [cursor : 0 .. MaxMessages, tokens : SUBSET Messages]
Handler == [at : {"idle", "config", "start", "code", "offered", "status", "confirmed", "updates",
                  "dispatch", "clear", "cleared", "closing"},
            what : {"connect", "login", "poll", "disconnect"},
            account : Account, code : Token, next : 1 .. (MaxMessages + 1), last : 0 .. MaxMessages]

NoAccount == [cursor |-> 0, tokens |-> {}]
Idle      == [at |-> "idle", what |-> "poll", account |-> NoAccount, code |-> None,
              next |-> 1, last |-> 0]

TypeOK ==
  /\ alarm \in BOOLEAN
  /\ login \in Token
  /\ expired \in 0 .. (MaxExpired + 1)
  /\ account \in Account
  /\ credential \in Token
  /\ handlers \in [Handlers -> Handler]
  /\ codes \in [Codes -> {"unused", "wait", "confirmed", "expired"}]
  /\ aged \subseteq Codes
  /\ revoked \subseteq Codes
  /\ top \in 0 .. MaxMessages
  /\ queued \subseteq Messages
  /\ calls \in 0 .. MaxCalls
  /\ faults \in 0 .. MaxFaults
  /\ wanted \in BOOLEAN
  /\ loggedOut \in 0 .. MaxCodes

Init ==
  /\ alarm = FALSE
  /\ login = None
  /\ expired = 0
  /\ account = NoAccount
  /\ credential = None
  /\ handlers = [h \in Handlers |-> Idle]
  /\ codes = [c \in Codes |-> "unused"]
  /\ aged = {}
  /\ revoked = {}
  /\ top = 0
  /\ queued = {}
  /\ calls = 0
  /\ faults = 0
  /\ wanted = FALSE
  /\ loggedOut = 0

-----------------------------------------------------------------------------
IsLoginSessionValid == login # None /\ login \notin aged

At(h, at)   == handlers[h].at = at
Goto(h, at) == handlers' = [handlers EXCEPT ![h].at = at]
Finish(h)   == handlers' = [handlers EXCEPT ![h] = Idle]

\* schedulePoll at the end of what a handler does.
FinishAndSchedulePoll(h) ==
  /\ Finish(h)
  /\ alarm' = TRUE
  /\ wanted' = TRUE

Fault ==
  /\ faults < MaxFaults
  /\ faults' = faults + 1

\* What the code in this step leaves alone at the ends of the object.
Quiet == UNCHANGED <<platform, calls, faults, loggedOut>>

-----------------------------------------------------------------------------
\* fetch and alarm.

FirstAwait(what) ==
  CASE what \in {"connect", "poll"} -> "config"
    [] what = "login"               -> "code"
    [] what = "disconnect"          -> "clear"

\* POST /connect, /login/start, /poll or /disconnect.
Fetch(h, what) ==
  /\ h \in Requests
  /\ At(h, "idle")
  /\ calls < MaxCalls
  /\ calls' = calls + 1
  /\ handlers' = [handlers EXCEPT ![h] = [Idle EXCEPT !.at = FirstAwait(what), !.what = what]]
  /\ UNCHANGED <<alarm, login, expired, account, credential, platform, queued, faults, history>>

AlarmFires ==
  /\ alarm
  /\ At(Alarm, "idle")
  /\ alarm' = FALSE
  /\ handlers' = [handlers EXCEPT ![Alarm].at = "config"]
  /\ UNCHANGED <<login, expired, account, credential, platform, queued, calls, faults, history>>

\* ensureRunning with its configuration.
EnsureRunning(h) ==
  /\ At(h, "config")
  /\ handlers[h].what = "connect"
  /\ IF credential = None
       THEN Goto(h, "start") /\ UNCHANGED <<alarm, wanted>>
       ELSE FinishAndSchedulePoll(h)
  /\ UNCHANGED <<login, expired, account, credential, queued>>
  /\ Quiet

\* pollOnce with its configuration: a session of a login is polled, or made anew, or
\* the updates behind the cursor are asked for.
PollOnce(h) ==
  /\ At(h, "config")
  /\ handlers[h].what = "poll"
  /\ handlers' = [handlers EXCEPT ![h] =
       [@ EXCEPT !.account = account,
                 !.code = IF credential = None /\ IsLoginSessionValid THEN login ELSE credential,
                 !.at = IF credential # None THEN "updates"
                        ELSE IF IsLoginSessionValid THEN "status"
                        ELSE "code"]]
  /\ UNCHANGED <<alarm, login, expired, account, credential, queued, wanted>>
  /\ Quiet

-----------------------------------------------------------------------------
\* The login.

\* startLogin for ensureRunning: a session that is valid is kept.
StartLogin(h) ==
  /\ At(h, "start")
  /\ IF IsLoginSessionValid
       THEN FinishAndSchedulePoll(h)
       ELSE Goto(h, "code") /\ UNCHANGED <<alarm, wanted>>
  /\ UNCHANGED <<login, expired, account, credential, queued>>
  /\ Quiet

\* The QR code arrives and is stored, the count starts again.
CodeArrives(h) ==
  /\ At(h, "code")
  /\ \E c \in Codes :
       /\ codes[c] = "unused" /\ \A d \in 1 .. (c - 1) : codes[d] # "unused"
       /\ codes' = [codes EXCEPT ![c] = "wait"]
       /\ login' = c
  /\ expired' = 0
  /\ Goto(h, "offered")
  /\ UNCHANGED <<alarm, account, credential, aged, revoked, top, queued, calls, faults, history>>

\* D1 knows, too, and the next poll is scheduled.
LoginStarted(h) ==
  /\ At(h, "offered")
  /\ FinishAndSchedulePoll(h)
  /\ UNCHANGED <<login, expired, account, credential, queued>>
  /\ Quiet

CountExpired == IF expired > MaxExpired THEN expired ELSE expired + 1

\* The QR code has expired: another one is asked for, unless too many have.
CodeWasExpired(h) ==
  /\ At(h, "status")
  /\ codes[handlers[h].code] = "expired"
  /\ expired' = CountExpired
  /\ IF CountExpired > MaxExpired
       THEN login' = handlers[h].code /\ FinishAndSchedulePoll(h)
       ELSE Goto(h, "code") /\ UNCHANGED <<alarm, login, wanted>>
  /\ UNCHANGED <<account, credential, queued>>
  /\ Quiet

\* Nobody has scanned it, or the confirmation comes without a token: the session is written
\* back.
StillWaiting(h) ==
  /\ At(h, "status")
  /\ codes[handlers[h].code] \in {"wait", "confirmed"}
  /\ login' = handlers[h].code
  /\ FinishAndSchedulePoll(h)
  /\ UNCHANGED <<expired, account, credential, queued>>
  /\ Quiet

\* It was scanned: the account as it was read before is stored, then the token.
Confirmed(h) ==
  /\ At(h, "status")
  /\ codes[handlers[h].code] = "confirmed"
  /\ account' = handlers[h].account
  /\ Goto(h, "confirmed")
  /\ UNCHANGED <<alarm, login, expired, credential, queued, wanted>>
  /\ Quiet

SaveToken(h) ==
  /\ At(h, "confirmed")
  /\ credential' = handlers[h].code
  /\ login' = handlers[h].code
  /\ FinishAndSchedulePoll(h)
  /\ UNCHANGED <<expired, account, queued>>
  /\ Quiet

-----------------------------------------------------------------------------
\* The long poll.

\* What is stored when the messages of a poll are dispatched: cursor and context tokens
\* that were read before the poll, with those of its messages.
NextState(h) ==
  [cursor |-> handlers[h].last,
   tokens |-> handlers[h].account.tokens \cup (handlers[h].account.cursor + 1) .. handlers[h].last]

\* The platform answers with some of the messages behind the cursor, none if there are none;
\* when a new cursor comes without messages, the account is stored as it was read.
UpdatesArrive(h) ==
  /\ At(h, "updates")
  /\ handlers[h].code \notin revoked
  /\ LET from == handlers[h].account.cursor IN
     \E k \in from .. top :
       /\ k = from => top = from
       /\ IF k = from
            THEN FinishAndSchedulePoll(h) /\ account' \in {account, handlers[h].account}
            ELSE /\ handlers' = [handlers EXCEPT ![h].at = "dispatch", ![h].next = from + 1,
                                                 ![h].last = k]
                 /\ UNCHANGED <<alarm, wanted, account>>
  /\ UNCHANGED <<login, expired, credential, queued>>
  /\ Quiet

\* The platform's errcode -14: clearLoginState.
SessionTimedOut(h) ==
  /\ At(h, "updates")
  /\ handlers[h].code \in revoked
  /\ Goto(h, "clear")
  /\ UNCHANGED <<alarm, login, expired, account, credential, queued, wanted>>
  /\ Quiet

\* One message is sent to the Queue; behind the last one the state is stored.
DispatchInbound(h) ==
  /\ At(h, "dispatch")
  /\ queued' = queued \cup {handlers[h].next}
  /\ IF handlers[h].next < handlers[h].last
       THEN /\ handlers' = [handlers EXCEPT ![h].next = @ + 1]
            /\ UNCHANGED <<alarm, account, wanted>>
       ELSE /\ account' = NextState(h)
            /\ FinishAndSchedulePoll(h)
  /\ UNCHANGED <<login, expired, credential>>
  /\ Quiet

-----------------------------------------------------------------------------
\* clearLoginState, for disconnect and for a session that timed out.

ClearAccount(h) ==
  /\ At(h, "clear")
  /\ account' = NoAccount
  /\ Goto(h, "cleared")
  /\ UNCHANGED <<alarm, login, expired, credential, queued, wanted>>
  /\ Quiet

ClearCredential(h) ==
  /\ At(h, "cleared")
  /\ credential' = None
  /\ Goto(h, "closing")
  /\ UNCHANGED <<alarm, login, expired, account, queued, wanted>>
  /\ Quiet

LoginPollUnderWay == \E h \in Handlers : At(h, "status") \/ At(h, "confirmed")

Given == Cardinality({c \in Codes : codes[c] # "unused"})

\* Mutant: disconnect leaves the session of the login.
KeepsLoginSession == login' = login /\ expired' = expired

ClearLoginSession == login' = None /\ expired' = 0

\* disconnect ends with the session of the login; a poll is scheduled again instead.
\* (A history variable notes a disconnect that no login got in the way of.)
LoginStateCleared(h) ==
  /\ At(h, "closing")
  /\ IF handlers[h].what = "disconnect"
       THEN /\ ClearLoginSession
            /\ Finish(h)
            /\ loggedOut' = IF credential = None /\ ~LoginPollUnderWay THEN Given ELSE loggedOut
            /\ UNCHANGED <<alarm, wanted>>
       ELSE /\ FinishAndSchedulePoll(h)
            /\ UNCHANGED <<login, expired, loggedOut>>
  /\ UNCHANGED <<account, credential, platform, queued, calls, faults>>

-----------------------------------------------------------------------------
\* Failures.

\* pollOnce catches what goes wrong once it has a token.
CaughtByPoll(h) ==
  \/ At(h, "updates")
  \/ At(h, "dispatch")
  \/ handlers[h].what = "poll" /\ handlers[h].at \in {"clear", "cleared", "closing"}

\* Mutant: the error is recorded, but no poll is scheduled.
RecordsOnly(h) == Finish(h) /\ UNCHANGED <<alarm, wanted>>

RecordRuntimeError(h) == FinishAndSchedulePoll(h)

\* Mutant: the state of the poll is stored although the messages were not all sent.
StoresWhatItHas(h) ==
  IF At(h, "dispatch") THEN account' = NextState(h) ELSE UNCHANGED account

\* What a failed poll leaves of the account's state: what was stored before.
AfterFailure(h) == UNCHANGED account

\* An await rejects.  Otherwise a request fails, and the platform runs an alarm again.
Rejects(h) ==
  /\ IF CaughtByPoll(h)
       THEN RecordRuntimeError(h)
       ELSE /\ Finish(h)
            /\ alarm' = (alarm \/ h = Alarm)
            /\ UNCHANGED wanted
  /\ AfterFailure(h)
  /\ UNCHANGED <<login, expired, credential, platform, queued, calls, loggedOut>>

Fails(h) ==
  /\ ~At(h, "idle")
  /\ Fault
  /\ Rejects(h)

\* The platform's answer has no QR code: when the model has given out all of them.
NoCodeArrives(h) ==
  /\ At(h, "code")
  /\ \A c \in Codes : codes[c] # "unused"
  /\ Rejects(h)
  /\ UNCHANGED faults

\* The object is evicted.  An alarm whose handler did not end fires again.
Crash ==
  /\ Fault
  /\ \E h \in Handlers : ~At(h, "idle")
  /\ handlers' = [h \in Handlers |-> Idle]
  /\ alarm' = (alarm \/ ~At(Alarm, "idle"))
  /\ UNCHANGED <<login, expired, account, credential, platform, queued, calls, history>>

-----------------------------------------------------------------------------
\* The platform and people.

Mine == <<alarm, login, expired, account, credential, handlers, queued, calls, history>>

Scan(c) ==
  /\ codes[c] = "wait"
  /\ codes' = [codes EXCEPT ![c] = "confirmed"]
  /\ UNCHANGED <<aged, revoked, top, faults, Mine>>

CodeExpires(c) ==
  /\ codes[c] = "wait"
  /\ codes' = [codes EXCEPT ![c] = "expired"]
  /\ UNCHANGED <<aged, revoked, top, faults, Mine>>

FiveMinutesPass(c) ==
  /\ codes[c] # "unused"
  /\ c \notin aged
  /\ aged' = aged \cup {c}
  /\ UNCHANGED <<codes, revoked, top, faults, Mine>>

RevokeToken(c) ==
  /\ codes[c] = "confirmed"
  /\ c \notin revoked
  /\ Fault
  /\ revoked' = revoked \cup {c}
  /\ UNCHANGED <<codes, aged, top, Mine>>

SendMessage ==
  /\ top < MaxMessages
  /\ top' = top + 1
  /\ UNCHANGED <<codes, aged, revoked, faults, Mine>>

-----------------------------------------------------------------------------
Continue(h) ==
  \/ EnsureRunning(h) \/ PollOnce(h)
  \/ StartLogin(h) \/ CodeArrives(h) \/ NoCodeArrives(h) \/ LoginStarted(h)
  \/ CodeWasExpired(h) \/ StillWaiting(h) \/ Confirmed(h) \/ SaveToken(h)
  \/ UpdatesArrive(h) \/ SessionTimedOut(h) \/ DispatchInbound(h)
  \/ ClearAccount(h) \/ ClearCredential(h) \/ LoginStateCleared(h)

Ask == \E h \in Requests, what \in {"connect", "login", "poll", "disconnect"} : Fetch(h, what)

People == SendMessage \/ \E c \in Codes : Scan(c)

Platform == \E c \in Codes : CodeExpires(c) \/ FiveMinutesPass(c) \/ RevokeToken(c)

Next ==
  \/ Ask \/ AlarmFires \/ People \/ Platform \/ Crash
  \/ \E h \in Handlers : Continue(h) \/ Fails(h)

Spec == Init /\ [][Next]_vars

FairSpec ==
  /\ Spec
  /\ WF_vars(AlarmFires)
  /\ \A h \in Handlers : WF_vars(Continue(h))

-----------------------------------------------------------------------------
\* Properties.

\* Every message up to the stored cursor has reached the Queue, and the context token
\* without which its sender cannot be answered is stored with the cursor: whatever fails,
\* polls of an alarm and of a request overlap, or a disconnect comes in between, a message
\* is either known in full or will be delivered again (weixin-oc-gateway-polling.ts).
CursorIsHonest == \A n \in 1 .. account.cursor : n \in queued /\ n \in account.tokens

\* Once a poll was scheduled, the next one always is, or is under way for the alarm:
\* through errors, timed out sessions, expired codes, disconnects and crashes.
PollsForEver == wanted => alarm \/ ~At(Alarm, "idle")

\* A disconnect that no poll of a login got in the way of holds: a token comes only from
\* a QR code that was asked for afterwards, and not from one that was scanned before.
LogoutHolds == credential # None => credential > loggedOut

\* While the bot is logged in, every message that is sent to it gets to the Queue.
EveryMessageArrives ==
  \A n \in Messages :
    wanted /\ credential # None /\ n <= top ~> n \in queued \/ credential \in revoked \cup {None}
=============================================================================
