------------------------- MODULE WeixinGatewayProofs -------------------------
(* Proofs about WeixinGateway, for every value of its constants. *)
EXTENDS WeixinGateway, FiniteSetTheorems, TLAPS

-----------------------------------------------------------------------------
(* The inductive invariant. *)

\* The alarm's handler polls: it never takes the way of a connect or a disconnect.
AlarmPolls == handlers[Alarm].what = "poll"

\* What a copy of the account's state says it knows is known.
KnownUpTo(a) == \A n \in 1 .. a.cursor : n \in queued /\ n \in a.tokens

\* That holds of the copy each handler has read, however old it is.
CopiesAreHonest == \A h \in Handlers : KnownUpTo(handlers[h].account)

\* A poll that dispatches has sent what is before the next message.
DispatchFits ==
  \A h \in Handlers : At(h, "dispatch") =>
    /\ handlers[h].account.cursor < handlers[h].next
    /\ handlers[h].next <= handlers[h].last
    /\ \A n \in (handlers[h].account.cursor + 1) .. (handlers[h].next - 1) : n \in queued

\* Codes are given out in the order of their numbers.
CodesInOrder == \A c, d \in Codes : codes[c] # "unused" /\ d < c => codes[d] # "unused"

\* What can still become the bot's token comes from a code given out after the last
\* disconnect that took effect.
LogoutInv ==
  /\ \A c \in Codes : codes[c] = "unused" => c > loggedOut
  /\ login # None => login > loggedOut
  /\ credential # None => credential > loggedOut
  /\ \A h \in Handlers : At(h, "status") \/ At(h, "confirmed") =>
       handlers[h].code # None /\ handlers[h].code > loggedOut

WeixinInv ==
  /\ TypeOK
  /\ AlarmPolls
  /\ PollsForEver
  /\ CursorIsHonest
  /\ CopiesAreHonest
  /\ DispatchFits
  /\ CodesInOrder
  /\ LogoutInv

-----------------------------------------------------------------------------
(* Types. *)

LEMMA ConstantTypes ==
  /\ MaxExpired \in Nat /\ MaxCodes \in Nat /\ MaxMessages \in Nat
  /\ MaxCalls \in Nat /\ MaxFaults \in Nat
  /\ None \notin Codes
  /\ Codes \subseteq Nat
  /\ Alarm \in Handlers
  BY WeixinConstants DEF Codes, Handlers

Points == {"idle", "config", "start", "code", "offered", "status", "confirmed", "updates",
           "dispatch", "clear", "cleared", "closing"}

LEMMA IdleType == Idle \in Handler /\ NoAccount \in Account
  BY ConstantTypes DEF Idle, NoAccount, Handler, Account, Token

\* Going on to an await and ending keep the types of the handlers.
LEMMA MoveTypes ==
  ASSUME TypeOK, NEW h \in Handlers
  PROVE  /\ \A at \in Points : Goto(h, at) => handlers' \in [Handlers -> Handler]
         /\ Finish(h) => handlers' \in [Handlers -> Handler]
  BY IdleType DEF TypeOK, Goto, Finish, Handler, Points

\* The number of codes that were given out.
LEMMA GivenFacts ==
  ASSUME TypeOK, CodesInOrder
  PROVE  /\ Given \in 0 .. MaxCodes
         /\ \A c \in Codes : codes[c] = "unused" => c > Given
<1> DEFINE used == {c \in Codes : codes[c] # "unused"}
<1>1. \A m, n \in Int : IsFiniteSet(m .. n) /\ Cardinality(m .. n) = IF m > n THEN 0 ELSE n - m + 1
  BY FS_Interval
<1>2. \A n \in Nat : used \subseteq 1 .. n => Given \in Nat /\ Given <= n
  <2> TAKE n \in Nat
  <2> HAVE used \subseteq 1 .. n
  <2>1. IsFiniteSet(1 .. n) /\ Cardinality(1 .. n) = n
    BY <1>1
  <2>2. IsFiniteSet(used) /\ Cardinality(used) <= Cardinality(1 .. n)
    BY <2>1, FS_Subset
  <2>3. Cardinality(used) \in Nat
    BY <2>2, FS_CardinalityType
  <2> QED
    BY <2>1, <2>2, <2>3 DEF Given
<1>3. Given \in 0 .. MaxCodes
  BY <1>2, ConstantTypes DEF Codes
<1>4. ASSUME NEW c \in Codes, codes[c] = "unused"
      PROVE  c > Given
  <2>1. used \subseteq 1 .. (c - 1) /\ c - 1 \in Nat
    BY <1>4, ConstantTypes DEF CodesInOrder, Codes
  <2>2. Given \in Nat /\ Given <= c - 1
    BY <1>2, <2>1
  <2> QED
    BY <2>2, ConstantTypes
<1> QED
  BY <1>3, <1>4

LEMMA InitInv == Init => WeixinInv
<1> SUFFICES ASSUME Init PROVE WeixinInv
  OBVIOUS
<1>1. \A h \in Handlers : handlers[h] = Idle
  BY DEF Init
<1>2. TypeOK
  <2>1. /\ 0 \in 0 .. (MaxExpired + 1) /\ 0 \in 0 .. MaxCodes
        /\ 0 \in 0 .. MaxMessages /\ 0 \in 0 .. MaxCalls /\ 0 \in 0 .. MaxFaults
    BY ConstantTypes
  <2> QED
    BY <2>1, IdleType DEF Init, TypeOK, Token
<1>3. AlarmPolls
  BY <1>1, ConstantTypes DEF AlarmPolls, Idle
<1>4. PollsForEver /\ CursorIsHonest
  BY DEF Init, PollsForEver, CursorIsHonest, NoAccount
<1>5. CopiesAreHonest /\ DispatchFits
  BY <1>1 DEF CopiesAreHonest, KnownUpTo, DispatchFits, At, Idle, NoAccount
<1>6. CodesInOrder
  BY DEF Init, CodesInOrder
<1>7. LogoutInv
  BY <1>1, ConstantTypes DEF Init, LogoutInv, At, Idle, Codes
<1> QED
  BY <1>2, <1>3, <1>4, <1>5, <1>6, <1>7 DEF WeixinInv

\* A handler goes on, or fails, keeping the types.
LEMMA ContinueTypes ==
  ASSUME WeixinInv, NEW h \in Handlers, Continue(h) \/ Fails(h)
  PROVE  TypeOK'
<1> USE MoveTypes DEF WeixinInv, Points, Quiet, platform, history
<1>1. FinishAndSchedulePoll(h) => /\ handlers' \in [Handlers -> Handler]
                                 /\ alarm' \in BOOLEAN /\ wanted' \in BOOLEAN
  BY DEF FinishAndSchedulePoll
<1>2. CASE EnsureRunning(h)
  BY <1>1, <1>2 DEF EnsureRunning, TypeOK
<1>3. CASE PollOnce(h)
  <2>1. account \in Account /\ (IF credential = None /\ IsLoginSessionValid THEN login ELSE credential) \in Token
    BY DEF TypeOK
  <2>2. handlers' \in [Handlers -> Handler]
    <3> DEFINE at   == IF credential # None THEN "updates"
                       ELSE IF IsLoginSessionValid THEN "status"
                       ELSE "code"
               code == IF credential = None /\ IsLoginSessionValid THEN login ELSE credential
    <3>1. handlers' = [handlers EXCEPT ![h] = [@ EXCEPT !.account = account, !.code = code, !.at = at]]
      BY <1>3 DEF PollOnce
    <3>2. at \in Points
      BY DEF Points
    <3>3. code \in Token
      BY <2>1
    <3> HIDE DEF at, code
    <3> QED
      BY <2>1, <3>1, <3>2, <3>3 DEF TypeOK, Handler, Points
  <2> QED
    BY <1>3, <2>2 DEF PollOnce, TypeOK
<1>4. CASE StartLogin(h)
  BY <1>1, <1>4 DEF StartLogin, TypeOK
<1>5. CASE CodeArrives(h)
  <2>1. PICK c \in Codes : codes' = [codes EXCEPT ![c] = "wait"] /\ login' = c
    BY <1>5 DEF CodeArrives
  <2>2. expired' \in 0 .. (MaxExpired + 1) /\ Goto(h, "offered")
    BY <1>5, ConstantTypes DEF CodeArrives
  <2> QED
    BY <1>5, <2>1, <2>2 DEF CodeArrives, TypeOK, Token
<1>6. CASE LoginStarted(h)
  BY <1>1, <1>6 DEF LoginStarted, TypeOK
<1>7. handlers[h].code \in Token /\ handlers[h].account \in Account
  BY DEF TypeOK, Handler
<1>8. CASE CodeWasExpired(h)
  <2>1. CountExpired \in 0 .. (MaxExpired + 1)
    BY ConstantTypes DEF CountExpired, TypeOK
  <2> QED
    BY <1>1, <1>7, <1>8, <2>1 DEF CodeWasExpired, TypeOK
<1>9. CASE StillWaiting(h)
  BY <1>1, <1>7, <1>9 DEF StillWaiting, TypeOK
<1>10. CASE Confirmed(h)
  BY <1>7, <1>10 DEF Confirmed, TypeOK
<1>11. CASE SaveToken(h)
  BY <1>1, <1>7, <1>11 DEF SaveToken, TypeOK
<1>12. CASE UpdatesArrive(h)
  <2> DEFINE from == handlers[h].account.cursor
  <2>1. from \in Nat /\ top \in Nat /\ top <= MaxMessages
    BY <1>7, ConstantTypes DEF TypeOK, Account
  <2>2. PICK k \in from .. top :
          IF k = from
            THEN FinishAndSchedulePoll(h) /\ account' \in {account, handlers[h].account}
            ELSE /\ handlers' = [handlers EXCEPT ![h].at = "dispatch", ![h].next = from + 1,
                                                 ![h].last = k]
                 /\ UNCHANGED <<alarm, wanted, account>>
    BY <1>12 DEF UpdatesArrive
  <2>3. k # from => from + 1 \in 1 .. (MaxMessages + 1) /\ k \in 0 .. MaxMessages
    BY <2>1, ConstantTypes
  <2>4. handlers' \in [Handlers -> Handler] /\ alarm' \in BOOLEAN /\ wanted' \in BOOLEAN
    BY <1>1, <2>2, <2>3 DEF TypeOK, Handler
  <2>5. account' \in Account
    BY <1>7, <2>2 DEF TypeOK
  <2> QED
    BY <1>12, <2>4, <2>5 DEF UpdatesArrive, TypeOK
<1>13. CASE SessionTimedOut(h)
  BY <1>13 DEF SessionTimedOut, TypeOK
<1>14. CASE DispatchInbound(h)
  <2> DEFINE x == handlers[h]
  <2>1. x \in Handler /\ x.account.cursor \in 0 .. MaxMessages /\ x.next \in Nat /\ x.last \in 0 .. MaxMessages
    BY ConstantTypes DEF TypeOK, Handler, Account
  <2>2. At(h, "dispatch")
    BY <1>14 DEF DispatchInbound
  <2>3. x.account.cursor < x.next /\ x.next <= x.last
    BY <2>2 DEF DispatchFits
  <2>4. x.next \in Messages /\ (x.account.cursor + 1) .. x.last \subseteq Messages
    BY <2>1, <2>3, ConstantTypes DEF Messages
  <2>5. NextState(h) \in Account
    BY <2>1, <2>4 DEF NextState, Handler, Account
  <2>6. CASE x.next < x.last
    <3>1. x.next + 1 \in 1 .. (MaxMessages + 1)
      BY <2>1, <2>6, ConstantTypes
    <3>2. handlers' \in [Handlers -> Handler]
      BY <1>14, <2>6, <3>1 DEF DispatchInbound, TypeOK, Handler
    <3> QED
      BY <1>14, <2>4, <2>6, <3>2 DEF DispatchInbound, TypeOK
  <2>7. CASE ~(x.next < x.last)
    BY <1>1, <1>14, <2>4, <2>5, <2>7 DEF DispatchInbound, TypeOK
  <2> QED
    BY <2>6, <2>7
<1>15. CASE ClearAccount(h)
  BY <1>15, IdleType DEF ClearAccount, TypeOK
<1>16. CASE ClearCredential(h)
  BY <1>16 DEF ClearCredential, TypeOK, Token
<1>17. CASE LoginStateCleared(h)
  BY <1>1, <1>17, GivenFacts, ConstantTypes DEF LoginStateCleared, ClearLoginSession, TypeOK, Token
<1>18. Rejects(h) => /\ handlers' \in [Handlers -> Handler]
                     /\ alarm' \in BOOLEAN /\ wanted' \in BOOLEAN
                     /\ UNCHANGED <<account, login, expired, credential, platform, queued, calls, loggedOut>>
  BY <1>1 DEF Rejects, RecordRuntimeError, AfterFailure, TypeOK
<1>19. CASE NoCodeArrives(h)
  BY <1>18, <1>19 DEF NoCodeArrives, TypeOK
<1>20. CASE Fails(h)
  <2>1. faults' \in 0 .. MaxFaults
    BY <1>20, ConstantTypes DEF Fails, Fault, TypeOK
  <2> QED
    BY <1>18, <1>20, <2>1 DEF Fails, TypeOK
<1> QED
  BY <1>2, <1>3, <1>4, <1>5, <1>6, <1>8, <1>9, <1>10, <1>11, <1>12, <1>13, <1>14, <1>15, <1>16,
     <1>17, <1>19, <1>20 DEF Continue

\* So do requests, the alarm, a crash, people and the platform.
LEMMA OtherTypes ==
  ASSUME WeixinInv, Ask \/ AlarmFires \/ People \/ Platform \/ Crash
  PROVE  TypeOK'
<1> USE ConstantTypes DEF WeixinInv, platform, history, Mine
<1>1. CASE Ask
  <2>1. PICK h \in Requests, what \in {"connect", "login", "poll", "disconnect"} : Fetch(h, what)
    BY <1>1 DEF Ask
  <2>2. FirstAwait(what) \in Points
    BY DEF FirstAwait, Points
  <2>3. [Idle EXCEPT !.at = FirstAwait(what), !.what = what] \in Handler
    BY <2>2, IdleType DEF Handler, Points
  <2> QED
    BY <2>1, <2>3 DEF Fetch, TypeOK, Handlers
<1>2. CASE AlarmFires
  BY <1>2, MoveTypes DEF AlarmFires, TypeOK, Goto, Points
<1>3. CASE People
  <2>1. CASE SendMessage
    BY <2>1 DEF SendMessage, TypeOK
  <2>2. ASSUME NEW c \in Codes, Scan(c)
        PROVE  TypeOK'
    BY <2>2 DEF Scan, TypeOK
  <2> QED
    BY <1>3, <2>1, <2>2 DEF People
<1>4. CASE Platform
  <2>1. PICK c \in Codes : CodeExpires(c) \/ FiveMinutesPass(c) \/ RevokeToken(c)
    BY <1>4 DEF Platform
  <2>2. CASE CodeExpires(c)
    BY <2>2 DEF CodeExpires, TypeOK
  <2>3. CASE FiveMinutesPass(c)
    BY <2>3 DEF FiveMinutesPass, TypeOK
  <2>4. CASE RevokeToken(c)
    BY <2>4 DEF RevokeToken, Fault, TypeOK
  <2> QED
    BY <2>1, <2>2, <2>3, <2>4
<1>5. CASE Crash
  BY <1>5, IdleType DEF Crash, Fault, TypeOK
<1> QED
  BY <1>1, <1>2, <1>3, <1>4, <1>5

-----------------------------------------------------------------------------
(* The alarm is never given up. *)

LEMMA AlarmStep ==
  ASSUME WeixinInv, [Next]_vars
  PROVE  AlarmPolls' /\ PollsForEver'
<1> DEFINE Holds == AlarmPolls' /\ PollsForEver'
<1> USE ConstantTypes DEF WeixinInv, TypeOK, AlarmPolls, PollsForEver, At, history
<1>1. ASSUME NEW h \in Handlers, Finish(h), alarm' = TRUE
      PROVE  Holds
  BY <1>1 DEF Finish, Idle
<1>2. ASSUME NEW h \in Handlers, NEW at \in Points \ {"idle"}, Goto(h, at), UNCHANGED <<alarm, wanted>>
      PROVE  Holds
  BY <1>2 DEF Goto, Points
<1>3. ASSUME NEW h \in Handlers, FinishAndSchedulePoll(h)
      PROVE  Holds
  BY <1>1, <1>3 DEF FinishAndSchedulePoll
\* The poll of a handler goes on.
<1>12. ASSUME NEW h \in Handlers, At(h, "updates") \/ At(h, "dispatch"),
              handlers' \in [Handlers -> Handler], UNCHANGED <<alarm, wanted>>,
              handlers'[h].what = handlers[h].what, handlers'[h].at = "dispatch",
              \A g \in Handlers \ {h} : handlers'[g] = handlers[g]
       PROVE  Holds
  BY <1>12
<1>4. ASSUME NEW h \in Handlers, Continue(h)
      PROVE  Holds
  <2> USE <1>2, <1>3 DEF Points
  <2>1. CASE EnsureRunning(h)
    BY <2>1 DEF EnsureRunning
  <2>2. CASE PollOnce(h)
    BY <2>2 DEF PollOnce
  <2>3. CASE StartLogin(h)
    BY <2>3 DEF StartLogin
  <2>4. CASE CodeArrives(h)
    BY <2>4 DEF CodeArrives
  <2>5. CASE LoginStarted(h) \/ StillWaiting(h) \/ SaveToken(h)
    BY <2>5 DEF LoginStarted, StillWaiting, SaveToken
  <2>6. CASE CodeWasExpired(h)
    BY <2>6 DEF CodeWasExpired
  <2>7. CASE Confirmed(h) \/ SessionTimedOut(h) \/ ClearAccount(h) \/ ClearCredential(h)
    BY <2>7 DEF Confirmed, SessionTimedOut, ClearAccount, ClearCredential
  <2>8. CASE UpdatesArrive(h)
    <3>1. \/ FinishAndSchedulePoll(h)
          \/ \E k : /\ handlers' = [handlers EXCEPT ![h].at = "dispatch",
                                     ![h].next = handlers[h].account.cursor + 1, ![h].last = k]
                   /\ UNCHANGED <<alarm, wanted>>
      BY <2>8 DEF UpdatesArrive
    <3>2. handlers' \in [Handlers -> Handler] /\ At(h, "updates")
      BY <1>4, <2>8, ContinueTypes DEF UpdatesArrive
    <3>3. ASSUME NEW k, handlers' = [handlers EXCEPT ![h].at = "dispatch",
                                       ![h].next = handlers[h].account.cursor + 1, ![h].last = k],
                 UNCHANGED <<alarm, wanted>>
          PROVE  Holds
      <4>1. handlers'[h].what = handlers[h].what /\ handlers'[h].at = "dispatch"
        BY <3>3 DEF Handler
      <4>2. \A g \in Handlers \ {h} : handlers'[g] = handlers[g]
        BY <3>3
      <4> QED
        BY <1>12, <3>2, <3>3, <4>1, <4>2
    <3> QED
      BY <3>1, <3>3
  <2>9. CASE DispatchInbound(h)
    <3>1. CASE handlers[h].next < handlers[h].last
      <4>1. handlers' = [handlers EXCEPT ![h].next = @ + 1] /\ UNCHANGED <<alarm, wanted>>
        BY <2>9, <3>1 DEF DispatchInbound
      <4> QED
        BY <1>12, <2>9, <4>1 DEF DispatchInbound
    <3> QED
      BY <2>9, <3>1 DEF DispatchInbound
  <2>10. CASE LoginStateCleared(h)
    <3>1. handlers[h].what = "disconnect" => h # Alarm
      OBVIOUS
    <3> QED
      BY <2>10, <3>1 DEF LoginStateCleared, Finish
  <2>11. CASE NoCodeArrives(h)
    BY <2>11 DEF NoCodeArrives, Rejects, RecordRuntimeError, Finish, Idle
  <2> QED
    BY <1>4, <2>1, <2>2, <2>3, <2>4, <2>5, <2>6, <2>7, <2>8, <2>9, <2>10, <2>11 DEF Continue
<1>5. ASSUME NEW h \in Handlers, Fails(h)
      PROVE  Holds
  BY <1>3, <1>5 DEF Fails, Rejects, RecordRuntimeError, Finish, Idle
<1>6. CASE Ask
  BY <1>6, WeixinConstants DEF Ask, Fetch
<1>7. CASE AlarmFires
  BY <1>7 DEF AlarmFires
<1>8. CASE Crash
  BY <1>8 DEF Crash, Idle
<1>9. CASE People
  BY <1>9 DEF People, SendMessage, Scan, Mine
<1>10. CASE Platform
  BY <1>10 DEF Platform, CodeExpires, FiveMinutesPass, RevokeToken, Mine
<1>11. CASE UNCHANGED vars
  BY <1>11 DEF vars
<1> QED
  BY <1>4, <1>5, <1>6, <1>7, <1>8, <1>9, <1>10, <1>11 DEF Next

-----------------------------------------------------------------------------
(* What the cursor says. *)

\* When the last message of a poll is sent, the state it stores is honest.
LEMMA NextStateIsHonest ==
  ASSUME WeixinInv, NEW h \in Handlers, At(h, "dispatch"),
         ~(handlers[h].next < handlers[h].last),
         queued' = queued \cup {handlers[h].next}
  PROVE  \A n \in 1 .. NextState(h).cursor : n \in queued' /\ n \in NextState(h).tokens
<1> DEFINE x == handlers[h]
<1> USE DEF WeixinInv
<1>1. /\ x.account.cursor \in Nat /\ x.next \in Nat /\ x.last \in Nat
      /\ x.account.tokens \subseteq Nat
  BY ConstantTypes DEF TypeOK, Handler, Account, Messages
<1>2. /\ x.account.cursor < x.next /\ x.next = x.last
      /\ \A n \in (x.account.cursor + 1) .. (x.next - 1) : n \in queued
  BY <1>1 DEF DispatchFits
<1>3. \A n \in 1 .. x.account.cursor : n \in queued /\ n \in x.account.tokens
  BY DEF CopiesAreHonest, KnownUpTo
<1>4. /\ NextState(h).cursor = x.last
      /\ NextState(h).tokens = x.account.tokens \cup (x.account.cursor + 1) .. x.last
  BY DEF NextState
<1> QED
  BY <1>1, <1>2, <1>3, <1>4

LEMMA CursorStep ==
  ASSUME WeixinInv, [Next]_vars
  PROVE  CursorIsHonest' /\ CopiesAreHonest' /\ DispatchFits'
<1> DEFINE Holds == CursorIsHonest' /\ CopiesAreHonest' /\ DispatchFits'
<1> USE ConstantTypes DEF WeixinInv
<1>1. ASSUME queued' = queued, account' \in {account, NoAccount} \cup {handlers[h].account : h \in Handlers},
             \A h \in Handlers : /\ handlers'[h].account \in {handlers[h].account, account, NoAccount}
                                /\ \/ handlers'[h].at # "dispatch"
                                   \/ handlers'[h] = handlers[h]
      PROVE  Holds
  <2>1. CursorIsHonest'
    BY <1>1 DEF CursorIsHonest, CopiesAreHonest, KnownUpTo, NoAccount
  <2>2. CopiesAreHonest'
    BY <1>1 DEF CursorIsHonest, CopiesAreHonest, KnownUpTo, NoAccount
  <2>3. DispatchFits'
    BY <1>1 DEF DispatchFits, At
  <2> QED
    BY <2>1, <2>2, <2>3
<1> USE DEF Goto, Finish, FinishAndSchedulePoll, Quiet
<1>2. ASSUME NEW h \in Handlers, Continue(h), ~UpdatesArrive(h), ~DispatchInbound(h)
      PROVE  Holds
  <2>1. queued' = queued
    BY <1>2 DEF Continue, EnsureRunning, PollOnce, StartLogin, CodeArrives, NoCodeArrives, LoginStarted,
                CodeWasExpired, StillWaiting, Confirmed, SaveToken, SessionTimedOut, ClearAccount,
                ClearCredential, LoginStateCleared, Rejects
  <2>2. account' \in {account, NoAccount, handlers[h].account}
    BY <1>2 DEF Continue, EnsureRunning, PollOnce, StartLogin, CodeArrives, NoCodeArrives, LoginStarted,
                CodeWasExpired, StillWaiting, Confirmed, SaveToken, SessionTimedOut, ClearAccount,
                ClearCredential, LoginStateCleared, Rejects, AfterFailure
  <2>3. \A g \in Handlers \ {h} : handlers'[g] = handlers[g]
    BY <1>2 DEF Continue, EnsureRunning, PollOnce, StartLogin, CodeArrives, NoCodeArrives, LoginStarted,
                CodeWasExpired, StillWaiting, Confirmed, SaveToken, SessionTimedOut, ClearAccount,
                ClearCredential, LoginStateCleared, Rejects, RecordRuntimeError, TypeOK
  <2>4. handlers'[h].account \in {handlers[h].account, account, NoAccount} /\ handlers'[h].at # "dispatch"
    <3>1. CASE PollOnce(h)
      BY <3>1 DEF PollOnce, TypeOK
    <3>2. CASE Finish(h)
      BY <3>2 DEF TypeOK, Idle
    <3>3. CASE \E at \in Points \ {"dispatch"} : Goto(h, at)
      BY <3>3 DEF TypeOK
    <3>4. PollOnce(h) \/ Finish(h) \/ \E at \in Points \ {"dispatch"} : Goto(h, at)
      <4> HIDE DEF Goto, Finish
      <4> QED
        BY <1>2 DEF Continue, EnsureRunning, StartLogin, CodeArrives, NoCodeArrives, LoginStarted,
                    CodeWasExpired, StillWaiting, Confirmed, SaveToken, SessionTimedOut, ClearAccount,
                    ClearCredential, LoginStateCleared, Rejects, RecordRuntimeError, Points
    <3> QED
      BY <3>1, <3>2, <3>3, <3>4
  <2> QED
    BY <1>1, <2>1, <2>2, <2>3, <2>4
<1>3. ASSUME NEW h \in Handlers, UpdatesArrive(h)
      PROVE  Holds
  <2> DEFINE from == handlers[h].account.cursor
  <2>1. from \in Nat /\ top \in Nat
    BY DEF TypeOK, Handler, Account
  <2>2. PICK k \in from .. top :
          IF k = from
            THEN FinishAndSchedulePoll(h) /\ account' \in {account, handlers[h].account}
            ELSE /\ handlers' = [handlers EXCEPT ![h].at = "dispatch", ![h].next = from + 1,
                                                 ![h].last = k]
                 /\ account' = account
    BY <1>3 DEF UpdatesArrive
  <2>3. queued' = queued
    BY <1>3 DEF UpdatesArrive
  <2>4. CASE k = from
    BY <1>1, <2>2, <2>3, <2>4 DEF TypeOK, Idle
  <2>5. CASE k # from
    <3>1. /\ \A g \in Handlers \ {h} : handlers'[g] = handlers[g]
          /\ handlers'[h].account = handlers[h].account
          /\ handlers'[h].next = from + 1 /\ handlers'[h].last = k
      BY <2>2, <2>5 DEF TypeOK, Handler
    <3>2. CursorIsHonest' /\ CopiesAreHonest'
      BY <2>2, <2>3, <2>5, <3>1 DEF CursorIsHonest, CopiesAreHonest, KnownUpTo
    <3>3. from < k
      BY <2>1, <2>5
    <3>4. DispatchFits'
      BY <2>1, <2>3, <3>1, <3>3 DEF DispatchFits, At
    <3> QED
      BY <3>2, <3>4
  <2> QED
    BY <2>4, <2>5
<1>4. ASSUME NEW h \in Handlers, DispatchInbound(h)
      PROVE  Holds
  <2> DEFINE x == handlers[h]
  <2>1. /\ At(h, "dispatch")
        /\ queued' = queued \cup {x.next}
        /\ \A g \in Handlers \ {h} : handlers'[g] = handlers[g]
    BY <1>4 DEF DispatchInbound, TypeOK
  <2>2. /\ x.account.cursor \in Nat /\ x.next \in Nat /\ x.last \in Nat
    BY DEF TypeOK, Handler, Account
  <2>3. CASE x.next < x.last
    <3>1. account' = account /\ handlers' = [handlers EXCEPT ![h].next = @ + 1]
      BY <1>4, <2>3 DEF DispatchInbound
    <3>2. /\ handlers'[h].account = x.account
          /\ handlers'[h].next = x.next + 1 /\ handlers'[h].last = x.last
      BY <3>1 DEF TypeOK, Handler
    <3>3. CursorIsHonest' /\ CopiesAreHonest'
      BY <2>1, <3>1, <3>2 DEF CursorIsHonest, CopiesAreHonest, KnownUpTo
    <3>4. DispatchFits'
      BY <2>1, <2>2, <2>3, <3>2 DEF DispatchFits, At
    <3> QED
      BY <3>3, <3>4
  <2>4. CASE ~(x.next < x.last)
    <3>1. account' = NextState(h) /\ handlers'[h] = Idle
      BY <1>4, <2>4 DEF DispatchInbound, TypeOK
    <3>2. CursorIsHonest'
      BY <2>1, <2>4, <3>1, NextStateIsHonest DEF CursorIsHonest
    <3>3. CopiesAreHonest'
      BY <2>1, <3>1 DEF CopiesAreHonest, KnownUpTo, Idle, NoAccount
    <3>4. DispatchFits'
      BY <2>1, <3>1 DEF DispatchFits, At, Idle
    <3> QED
      BY <3>2, <3>3, <3>4
  <2> QED
    BY <2>3, <2>4
<1>5. ASSUME NEW h \in Handlers, Fails(h)
      PROVE  Holds
  BY <1>1, <1>5 DEF Fails, Rejects, AfterFailure, RecordRuntimeError, TypeOK, Idle
<1>6. CASE Ask
  <2>1. PICK h \in Requests, what \in {"connect", "login", "poll", "disconnect"} : Fetch(h, what)
    BY <1>6 DEF Ask
  <2>2. /\ h \in Handlers /\ queued' = queued /\ account' = account
        /\ handlers' = [handlers EXCEPT ![h] = [Idle EXCEPT !.at = FirstAwait(what), !.what = what]]
    BY <2>1 DEF Fetch, Handlers
  <2>3. FirstAwait(what) # "dispatch"
    BY DEF FirstAwait
  <2>4. handlers'[h].at # "dispatch" /\ handlers'[h].account = NoAccount
    BY <2>2, <2>3 DEF TypeOK, Idle
  <2> QED
    BY <1>1, <2>2, <2>4 DEF TypeOK
<1>7. CASE AlarmFires
  BY <1>1, <1>7 DEF AlarmFires, TypeOK
<1>8. CASE Crash
  BY <1>1, <1>8 DEF Crash, Idle
<1>9. CASE UNCHANGED <<queued, account, handlers>>
  BY <1>1, <1>9 DEF TypeOK
<1>10. CASE People \/ Platform
  BY <1>9, <1>10 DEF People, SendMessage, Scan, Platform, CodeExpires, FiveMinutesPass, RevokeToken, Mine
<1>11. CASE UNCHANGED vars
  BY <1>9, <1>11 DEF vars
<1> QED
  BY <1>2, <1>3, <1>4, <1>5, <1>6, <1>7, <1>8, <1>10, <1>11 DEF Next

-----------------------------------------------------------------------------
(* Logging out. *)

\* Codes are only ever taken into use in order.
LEMMA CodesStep ==
  ASSUME WeixinInv, [Next]_vars
  PROVE  /\ CodesInOrder'
         /\ \A c \in Codes : codes'[c] = "unused" => codes[c] = "unused"
<1> USE ConstantTypes DEF WeixinInv, TypeOK
<1>1. ASSUME UNCHANGED codes
      PROVE  CodesInOrder' /\ \A c \in Codes : codes'[c] = "unused" => codes[c] = "unused"
  BY <1>1 DEF CodesInOrder
<1>2. ASSUME NEW c \in Codes, NEW status \in {"wait", "confirmed", "expired"},
             \A d \in 1 .. (c - 1) : codes[d] # "unused",
             codes' = [codes EXCEPT ![c] = status]
      PROVE  CodesInOrder' /\ \A d \in Codes : codes'[d] = "unused" => codes[d] = "unused"
  <2>1. \A d \in Codes : d < c => d \in 1 .. (c - 1)
    BY DEF Codes
  <2> QED
    BY <1>2, <2>1 DEF CodesInOrder
<1>3. \A c \in Codes : codes[c] # "unused" => \A d \in 1 .. (c - 1) : codes[d] # "unused"
  <2> TAKE c \in Codes
  <2>1. \A d \in 1 .. (c - 1) : d \in Codes /\ d < c
    BY DEF Codes
  <2> QED
    BY <2>1 DEF CodesInOrder
<1>4. ASSUME NEW h \in Handlers, CodeArrives(h)
      PROVE  CodesInOrder' /\ \A c \in Codes : codes'[c] = "unused" => codes[c] = "unused"
  BY <1>2, <1>4 DEF CodeArrives
<1>5. ASSUME NEW c \in Codes, Scan(c) \/ CodeExpires(c)
      PROVE  CodesInOrder' /\ \A d \in Codes : codes'[d] = "unused" => codes[d] = "unused"
  BY <1>2, <1>3, <1>5 DEF Scan, CodeExpires
<1>6. ASSUME NEW h \in Handlers, Continue(h) \/ Fails(h), ~CodeArrives(h)
      PROVE  UNCHANGED codes
  BY <1>6 DEF Continue, EnsureRunning, PollOnce, StartLogin, NoCodeArrives, LoginStarted,
              CodeWasExpired, StillWaiting, Confirmed, SaveToken, UpdatesArrive, SessionTimedOut,
              DispatchInbound, ClearAccount, ClearCredential, LoginStateCleared, Fails, Rejects,
              Quiet, platform
<1>7. CASE Ask \/ AlarmFires \/ Crash \/ SendMessage \/ UNCHANGED vars
  BY <1>1, <1>7 DEF Ask, Fetch, AlarmFires, Crash, SendMessage, vars, platform
<1>8. ASSUME NEW c \in Codes, FiveMinutesPass(c) \/ RevokeToken(c)
      PROVE  UNCHANGED codes
  BY <1>8 DEF FiveMinutesPass, RevokeToken
<1> QED
  BY <1>1, <1>4, <1>5, <1>6, <1>7, <1>8 DEF Next, People, Platform

\* What a handler does about the login, when it is not about to forget a logout.
LEMMA LogoutContinue ==
  ASSUME WeixinInv, NEW h \in Handlers, Continue(h)
  PROVE  LogoutInv'
<1> USE ConstantTypes DEF WeixinInv, TypeOK, history
<1>1. \A c \in Codes : codes'[c] = "unused" => codes[c] = "unused"
  BY CodesStep DEF Next
<1>2. ASSUME loggedOut' = loggedOut,
             login' \in {login, None} \/ (login' \in Codes /\ login' > loggedOut),
             credential' \in {credential, None} \/ (credential' \in Codes /\ credential' > loggedOut),
             \A g \in Handlers \ {h} : handlers'[g] = handlers[g],
             handlers'[h].at \in {"status", "confirmed"} =>
               handlers'[h].code # None /\ handlers'[h].code > loggedOut
      PROVE  LogoutInv'
  <2>1. (login' # None => login' > loggedOut) /\ (credential' # None => credential' > loggedOut)
    BY <1>2 DEF LogoutInv
  <2>2. \A g \in Handlers : At(g, "status")' \/ At(g, "confirmed")' =>
          handlers'[g].code # None /\ handlers'[g].code > loggedOut
    BY <1>2 DEF LogoutInv, At
  <2> QED
    BY <1>1, <1>2, <2>1, <2>2 DEF LogoutInv
<1>3. ASSUME UNCHANGED loggedOut, UNCHANGED login, UNCHANGED credential,
             Finish(h) \/ \E at \in Points \ {"status", "confirmed"} : Goto(h, at)
      PROVE  LogoutInv'
  BY <1>2, <1>3 DEF Finish, Goto, Idle, Handler, Points
<1>4. At(h, "status") \/ At(h, "confirmed") =>
        handlers[h].code \in Codes /\ handlers[h].code > loggedOut
  BY DEF LogoutInv, Handler, Token
<1>5. CASE EnsureRunning(h) \/ StartLogin(h) \/ LoginStarted(h) \/ NoCodeArrives(h)
             \/ SessionTimedOut(h) \/ ClearAccount(h)
  BY <1>3, <1>5 DEF EnsureRunning, StartLogin, LoginStarted, NoCodeArrives, SessionTimedOut,
                    ClearAccount, Rejects, RecordRuntimeError, FinishAndSchedulePoll, Quiet, Points
<1>6. CASE PollOnce(h)
  <2>1. handlers'[h].at = "status" => handlers'[h].code = login /\ login # None
    BY <1>6 DEF PollOnce, IsLoginSessionValid
  <2>2. handlers'[h].at # "confirmed" /\ \A g \in Handlers \ {h} : handlers'[g] = handlers[g]
    BY <1>6 DEF PollOnce
  <2>3. login # None => login > loggedOut
    BY DEF LogoutInv
  <2> QED
    BY <1>2, <1>6, <2>1, <2>2, <2>3 DEF PollOnce, Quiet
<1>7. CASE CodeArrives(h)
  <2>1. PICK c \in Codes : codes[c] = "unused" /\ login' = c
    BY <1>7 DEF CodeArrives
  <2>2. c > loggedOut
    BY <2>1 DEF LogoutInv
  <2>3. /\ \A g \in Handlers \ {h} : handlers'[g] = handlers[g]
        /\ handlers'[h].at = "offered"
    BY <1>7 DEF CodeArrives, Goto, Handler
  <2> QED
    BY <1>2, <1>7, <2>1, <2>2, <2>3 DEF CodeArrives
<1>8. CASE CodeWasExpired(h) \/ StillWaiting(h)
  <2>1. At(h, "status") /\ UNCHANGED <<credential, loggedOut>> /\ login' \in {login, handlers[h].code}
    BY <1>8 DEF CodeWasExpired, StillWaiting, Quiet
  <2>2. Finish(h) \/ Goto(h, "code")
    BY <1>8 DEF CodeWasExpired, StillWaiting, FinishAndSchedulePoll
  <2> QED
    BY <1>2, <1>4, <2>1, <2>2 DEF Finish, Goto, Idle, Handler
<1>9. CASE Confirmed(h)
  <2>1. At(h, "status") /\ UNCHANGED <<login, credential, loggedOut>> /\ Goto(h, "confirmed")
    BY <1>9 DEF Confirmed, Quiet
  <2> QED
    BY <1>2, <1>4, <2>1 DEF Goto, Handler
<1>10. CASE SaveToken(h)
  <2>1. /\ At(h, "confirmed") /\ UNCHANGED loggedOut /\ Finish(h)
        /\ login' = handlers[h].code /\ credential' = handlers[h].code
    BY <1>10 DEF SaveToken, FinishAndSchedulePoll, Quiet
  <2> QED
    BY <1>2, <1>4, <2>1 DEF Finish, Idle
<1>11. CASE UpdatesArrive(h)
  <2>1. /\ \A g \in Handlers \ {h} : handlers'[g] = handlers[g]
        /\ handlers'[h].at \in {"idle", "dispatch"}
    BY <1>11 DEF UpdatesArrive, FinishAndSchedulePoll, Finish, Idle, Handler
  <2> QED
    BY <1>2, <1>11, <2>1 DEF UpdatesArrive, Quiet
<1>12. CASE DispatchInbound(h)
  <2>1. /\ \A g \in Handlers \ {h} : handlers'[g] = handlers[g]
        /\ handlers'[h].at \in {"idle", "dispatch"}
    BY <1>12 DEF DispatchInbound, FinishAndSchedulePoll, Finish, Idle, Handler, At
  <2> QED
    BY <1>2, <1>12, <2>1 DEF DispatchInbound, Quiet
<1>13. CASE ClearCredential(h)
  BY <1>2, <1>13 DEF ClearCredential, Goto, Handler, Quiet
<1>14. CASE LoginStateCleared(h)
  <2>1. CASE loggedOut' = loggedOut
    BY <1>2, <1>14, <2>1 DEF LoginStateCleared, ClearLoginSession, FinishAndSchedulePoll, Finish, Idle
  <2>2. CASE loggedOut' # loggedOut
    <3>1. /\ loggedOut' = Given /\ credential' = None /\ login' = None /\ ~LoginPollUnderWay
          /\ Finish(h) /\ UNCHANGED codes
      BY <1>14, <2>2 DEF LoginStateCleared, ClearLoginSession, platform
    <3>2. \A g \in Handlers : ~At(g, "status")' /\ ~At(g, "confirmed")'
      BY <3>1 DEF LoginPollUnderWay, At, Finish, Idle
    <3> QED
      BY <3>1, <3>2, GivenFacts DEF LogoutInv
  <2> QED
    BY <2>1, <2>2
<1> QED
  BY <1>5, <1>6, <1>7, <1>8, <1>9, <1>10, <1>11, <1>12, <1>13, <1>14 DEF Continue

LEMMA LogoutStep ==
  ASSUME WeixinInv, [Next]_vars
  PROVE  LogoutInv'
<1> USE ConstantTypes DEF WeixinInv, TypeOK, history, Mine
<1>1. \A c \in Codes : codes'[c] = "unused" => codes[c] = "unused"
  BY CodesStep
<1>2. ASSUME UNCHANGED <<loggedOut, login, credential>>,
             \A h \in Handlers : handlers'[h] = handlers[h]
               \/ handlers'[h].at \notin {"status", "confirmed"}
      PROVE  LogoutInv'
  BY <1>1, <1>2 DEF LogoutInv, At
<1>3. ASSUME NEW h \in Handlers, Fails(h)
      PROVE  LogoutInv'
  BY <1>2, <1>3 DEF Fails, Rejects, RecordRuntimeError, FinishAndSchedulePoll, Finish, Idle
<1>4. CASE Ask
  <2>1. PICK h \in Requests, what \in {"connect", "login", "poll", "disconnect"} : Fetch(h, what)
    BY <1>4 DEF Ask
  <2>2. h \in Handlers /\ FirstAwait(what) \notin {"status", "confirmed"}
    BY DEF FirstAwait, Handlers
  <2>3. \A g \in Handlers : handlers'[g] = handlers[g] \/ handlers'[g].at \notin {"status", "confirmed"}
    BY <2>1, <2>2 DEF Fetch, Idle
  <2> QED
    BY <1>2, <2>1, <2>3 DEF Fetch
<1>5. CASE AlarmFires
  BY <1>2, <1>5 DEF AlarmFires, Handler
<1>6. CASE Crash
  BY <1>2, <1>6 DEF Crash, Idle
<1>7. CASE People \/ Platform \/ UNCHANGED vars
  BY <1>2, <1>7 DEF People, SendMessage, Scan, Platform, CodeExpires, FiveMinutesPass, RevokeToken, vars
<1> QED
  BY <1>3, <1>4, <1>5, <1>6, <1>7, LogoutContinue DEF Next

-----------------------------------------------------------------------------
LEMMA StepInv == WeixinInv /\ [Next]_vars => WeixinInv'
<1> SUFFICES ASSUME WeixinInv, [Next]_vars
             PROVE  WeixinInv'
  OBVIOUS
<1>1. TypeOK'
  <2>1. CASE UNCHANGED vars
    BY <2>1 DEF WeixinInv, TypeOK, vars, platform, history
  <2> QED
    BY <2>1, ContinueTypes, OtherTypes DEF Next
<1> QED
  BY <1>1, AlarmStep, CursorStep, CodesStep, LogoutStep DEF WeixinInv

\* The inductive invariant holds of the connection of every bot, whatever the platform,
\* people and requests do and wherever the object fails.
THEOREM WeixinInvariant == Spec => []WeixinInv
<1> QED
  BY InitInv, StepInv, PTL DEF Spec

\* The object's storage, its handlers and the platform keep their types.
THEOREM TypesHold == Spec => []TypeOK
<1>1. WeixinInv => TypeOK
  BY DEF WeixinInv
<1> QED
  BY <1>1, WeixinInvariant, PTL

\* CursorIsHonest: what is before the stored cursor has reached the Queue, with the
\* context token of its sender, for any number of overlapping polls.
THEOREM CursorHonest == Spec => []CursorIsHonest
<1>1. WeixinInv => CursorIsHonest
  BY DEF WeixinInv
<1> QED
  BY <1>1, WeixinInvariant, PTL

\* PollsForEver: once a poll was scheduled the alarm is set, or its handler is under way.
THEOREM NeverStopsPolling == Spec => []PollsForEver
<1>1. WeixinInv => PollsForEver
  BY DEF WeixinInv
<1> QED
  BY <1>1, WeixinInvariant, PTL

\* LogoutHolds: after a disconnect that no login got in the way of, the bot's token comes
\* from a code that was given out later.
THEOREM LoggedOutForGood == Spec => []LogoutHolds
<1>1. WeixinInv => LogoutHolds
  BY DEF WeixinInv, LogoutInv, LogoutHolds
<1> QED
  BY <1>1, WeixinInvariant, PTL
=============================================================================
