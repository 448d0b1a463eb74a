------------------------------ MODULE QqGateway ------------------------------
(***************************************************************************)
(* The connection of one bot to QQ's gateway:                              *)
(* src/platforms/qq/qq-official-gateway-durable-object.ts and the session  *)
(* of src/adapters/qq/official/gateway-session.ts, with the platform at    *)
(* the other end of the sockets.                                           *)
(*                                                                         *)
(* While a Durable Object waits for its storage no event reaches it, so a  *)
(* step runs from an event to the next await of something else: the bot's  *)
(* configuration, the gateway's address, a token, the Queue.  Frames       *)
(* arrive in the order in which they were sent, without delay.  The status *)
(* shown to people, shards and the times of heartbeats are left out.       *)
(***************************************************************************)
EXTENDS Naturals, FiniteSets

CONSTANTS
  None,        \* no object, socket, session or question
  Objects,     \* QqOfficialGatewaySession objects an instance may come to hold
  Sockets,     \* sockets that are not closed at one time
  Requests,    \* requests and cron calls that may be under way at one time
  Timers,      \* reconnect timers whose connect() may be under way at one time
  MaxSessions, \* bound of the model: sessions the platform opens
  MaxEvents,   \* bound of the model: events of one session, READY included
  MaxCalls,    \* bound of the model: requests
  MaxFaults    \* bound of the model: failed awaits, lost sockets, refused sessions, crashes

Alarm == "alarm"

ASSUME QqConstants ==
  /\ {MaxSessions, MaxCalls, MaxFaults} \subseteq Nat
  /\ MaxEvents \in Nat \ {0}
  /\ None \notin Objects \cup Sockets \cup (1 .. MaxSessions)
  /\ IsFiniteSet(Sockets)
  /\ Alarm \notin Requests \cup Timers
  /\ Requests \cap Timers = {}

Handlers == Requests \cup Timers \cup {Alarm}
Sessions == 1 .. MaxSessions

VARIABLES
  stored,   \* SESSION_KEY of the object's storage: sessionId and lastSeq
  alarm,    \* the storage's alarm is set
  current,  \* the object's this.session
  objects,  \* the session objects: their copy of the session, websocket, timers, greetings
  sockets,  \* owner and state of each socket, and what the platform knows of it
  handlers, \* connect() and what leads to it, under way
  top,      \* the platform's sessions: number of the last event, 0 for none yet
  sending,  \* events whose message is being sent to the Queue
  queued,   \* events whose message the Queue has
  lost,     \* events whose message could not be sent, or was not when the object crashed
  calls,    \* requests so far
  faults,   \* faults so far
  wanted,   \* a reconnect or an alarm was scheduled since the bot was set up (history)
  mixed     \* two session objects, or two sessions of the platform, at once (history)

queue   == <<sending, queued, lost>>
history == <<wanted, mixed>>
vars    == <<stored, alarm, current, objects, sockets, handlers, top, queue, calls, faults, history>>

Session == [id : Sessions \cup {None}, seq : 0 .. MaxEvents]

Object == [id : Sessions \cup {None}, seq : 0 .. MaxEvents, websocket : Sockets \cup {None},
           heartbeat : BOOLEAN, reconnect : BOOLEAN, greetings : 0 .. Cardinality(Sockets)]

Socket == [owner : Objects \cup {None}, state : {"closed", "connecting", "open", "closing"},
           asked : Session \cup {None}, session : Sessions \cup {None}, at : 0 .. MaxEvents,
           ready : BOOLEAN]

Handler == [at : {"idle", "config", "gateway"}, object : Objects \cup {None},
            what : {"connect", "disconnect"}]

Event == Sessions \X (2 .. MaxEvents)

NoSession == [id |-> None, seq |-> 0]
NoObject  == [id |-> None, seq |-> 0, websocket |-> None, heartbeat |-> FALSE,
              reconnect |-> FALSE, greetings |-> 0]
NoSocket  == [owner |-> None, state |-> "closed", asked |-> None, session |-> None, at |-> 0,
              ready |-> FALSE]
Idle      == [at |-> "idle", object |-> None, what |-> "connect"]

TypeOK ==
  /\ stored \in Session
  /\ alarm \in BOOLEAN
  /\ current \in Objects \cup {None}
  /\ objects \in [Objects -> Object]
  /\ sockets \in [Sockets -> Socket]
  /\ handlers \in [Handlers -> Handler]
  /\ top \in [Sessions -> 0 .. MaxEvents]
  /\ sending \subseteq Event /\ queued \subseteq Event /\ lost \subseteq Event
  /\ calls \in 0 .. MaxCalls
  /\ faults \in 0 .. MaxFaults
  /\ wanted \in BOOLEAN /\ mixed \in BOOLEAN

Init ==
  /\ stored = NoSession
  /\ alarm = FALSE
  /\ current = None
  /\ objects = [o \in Objects |-> NoObject]
  /\ sockets = [s \in Sockets |-> NoSocket]
  /\ handlers = [h \in Handlers |-> Idle]
  /\ top = [k \in Sessions |-> 0]
  /\ sending = {} /\ queued = {} /\ lost = {}
  /\ calls = 0
  /\ faults = 0
  /\ wanted = FALSE /\ mixed = FALSE

-----------------------------------------------------------------------------
\* Pieces of the session object.  Each gives the object after it.

ClearTimers(x) == [x EXCEPT !.heartbeat = FALSE, !.reconnect = FALSE]

ScheduleReconnect(x) == [ClearTimers(x) EXCEPT !.reconnect = TRUE]

StartHeartbeat(x) == [x EXCEPT !.heartbeat = TRUE]

RestoreSession(x) == [x EXCEPT !.id = stored.id, !.seq = stored.seq]

\* Assigns the object and persists its session.
Persist(o, x) ==
  /\ objects' = [objects EXCEPT ![o] = x]
  /\ stored' = [id |-> x.id, seq |-> x.seq]

\* scheduleReconnect sets the alarm, too.
PersistAndReconnect(o, x) ==
  /\ Persist(o, ScheduleReconnect(x))
  /\ alarm' = TRUE
  /\ wanted' = TRUE

IsOpen(o)      == objects[o].websocket # None /\ sockets[objects[o].websocket].state = "open"
IsConnected(o) == objects[o].websocket # None
                    /\ sockets[objects[o].websocket].state \in {"connecting", "open"}

Proceed(h, at, o, what) ==
  handlers' = [handlers EXCEPT ![h] = [at |-> at, object |-> o, what |-> what]]

Finish(h) == handlers' = [handlers EXCEPT ![h] = Idle]

Fault ==
  /\ faults < MaxFaults
  /\ faults' = faults + 1

-----------------------------------------------------------------------------
\* The Durable Object: fetch and alarm.

\* connect() up to the question for the gateway's address.
BeginConnect(h, o, x) ==
  /\ Persist(o, ClearTimers(x))
  /\ Proceed(h, "gateway", o, "connect")

\* Mutant: the alarm's handler sets no further alarm.
SetsAlarmOnRequest(h) == h \in Requests

\* fetch and alarm end with an alarm in five minutes, connect() of a timer does not.
SetsAlarm(h) == h \in Requests \cup {Alarm}

\* ensureConnected, and the alarm when there was nothing to do.
EnsureConnected(h, o) ==
  IF IsConnected(o)
    THEN /\ objects' = [objects EXCEPT ![o] = RestoreSession(@)]
         /\ Finish(h)
         /\ alarm' = (SetsAlarm(h) \/ (alarm /\ h # Alarm))
         /\ wanted' = TRUE
         /\ UNCHANGED <<stored, sockets>>
    ELSE /\ BeginConnect(h, o, RestoreSession(objects[o]))
         /\ alarm' = (alarm /\ h # Alarm)
         /\ UNCHANGED <<sockets, wanted>>

\* close().  The socket's close event comes later; the alarm is left alone.
Close(h, o) ==
  /\ Persist(o, [ClearTimers(objects[o]) EXCEPT !.websocket = None])
  /\ sockets' = [s \in Sockets |->
                   IF s = objects[o].websocket /\ sockets[s].state \in {"connecting", "open"}
                     THEN [sockets[s] EXCEPT !.state = "closing"]
                     ELSE sockets[s]]
  /\ Finish(h)
  /\ UNCHANGED <<alarm, wanted>>

Perform(h, what, o) == IF what = "connect" THEN EnsureConnected(h, o) ELSE Close(h, o)

\* getSession: this.session, or the bot's configuration is read first.
Enter(h, what) ==
  IF current # None
    THEN Perform(h, what, current)
    ELSE /\ Proceed(h, "config", None, what)
         /\ alarm' = (alarm /\ h # Alarm)
         /\ UNCHANGED <<stored, objects, sockets, wanted>>

\* POST /connect of an administrator or of cron, or POST /disconnect.
Fetch(h, what) ==
  /\ h \in Requests
  /\ handlers[h].at = "idle"
  /\ calls < MaxCalls
  /\ calls' = calls + 1
  /\ Enter(h, what)
  /\ UNCHANGED <<current, top, queue, faults, mixed>>

AlarmFires ==
  /\ alarm
  /\ handlers[Alarm].at = "idle"
  /\ Enter(Alarm, "connect")
  /\ UNCHANGED <<current, top, queue, calls, faults, mixed>>

\* getSession makes a session object, also beside one that another event made meanwhile.
MakeSession(h) ==
  /\ handlers[h].at = "config"
  /\ \E o \in Objects :
       /\ objects[o] = NoObject
       /\ \A s \in Sockets : sockets[s].owner # o
       /\ \A g \in Handlers : handlers[g].object # o
       /\ o # current
       /\ current' = o
       /\ IF handlers[h].what = "connect"
            THEN BeginConnect(h, o, RestoreSession(NoObject)) /\ UNCHANGED sockets
            ELSE Close(h, o)
       /\ UNCHANGED <<alarm, wanted>>
  /\ mixed' = (mixed \/ current # None)
  /\ UNCHANGED <<top, queue, calls, faults>>

-----------------------------------------------------------------------------
\* The session object: connecting.

\* The reconnect timer runs connect().
ReconnectTimerFires(o) ==
  /\ objects[o].reconnect
  /\ \E h \in Timers :
       /\ handlers[h].at = "idle"
       /\ BeginConnect(h, o, objects[o])
  /\ UNCHANGED <<alarm, current, sockets, top, queue, calls, faults, history>>

\* The gateway's address has arrived: a socket is opened and kept.
OpenSocket(h) ==
  /\ handlers[h].at = "gateway"
  /\ LET o == handlers[h].object IN
     \E s \in Sockets :
       /\ sockets[s].state = "closed"
       /\ sockets' = [sockets EXCEPT ![s] = [NoSocket EXCEPT !.owner = o, !.state = "connecting"]]
       /\ Persist(o, [objects[o] EXCEPT !.websocket = s])
  /\ Finish(h)
  /\ alarm' = (alarm \/ SetsAlarm(h))
  /\ wanted' = (wanted \/ h \notin Timers)
  /\ UNCHANGED <<current, top, queue, calls, faults, mixed>>

\* connect() rejects: the timer's goes on as after an error, a request fails, the
\* platform runs the alarm again.  So does a configuration that cannot be read.
ConnectFails(h) ==
  /\ handlers[h].at # "idle"
  /\ Fault
  /\ Finish(h)
  /\ IF h \in Timers
       THEN LET o == handlers[h].object IN PersistAndReconnect(o, objects[o])
       ELSE /\ alarm' = (alarm \/ h = Alarm)
            /\ UNCHANGED <<stored, objects, wanted>>
  /\ UNCHANGED <<current, sockets, top, queue, calls, mixed>>

\* The platform accepts the socket and says hello; the token is asked for.
SocketOpens(s) ==
  /\ sockets[s].state = "connecting"
  /\ sockets' = [sockets EXCEPT ![s].state = "open"]
  /\ LET o == sockets[s].owner IN
       /\ objects[o].greetings < Cardinality(Sockets)
       /\ objects' = [objects EXCEPT ![o].greetings = @ + 1]
  /\ UNCHANGED <<stored, alarm, current, handlers, top, queue, calls, faults, history>>

\* What is sent over the socket: resume with the session, or identify.
IdentifyOrResume(x) == IF x.id # None /\ x.seq > 0 THEN [id |-> x.id, seq |-> x.seq] ELSE NoSession

\* The token has arrived: identify or resume goes over the socket that is kept by now,
\* if it is open.
TokenArrives(o) ==
  /\ objects[o].greetings > 0
  /\ objects' = [objects EXCEPT ![o].greetings = @ - 1]
  /\ IF IsOpen(o) /\ sockets[objects[o].websocket].session = None
       THEN sockets' = [sockets EXCEPT ![objects[o].websocket].asked = IdentifyOrResume(objects[o])]
       ELSE UNCHANGED sockets
  /\ UNCHANGED <<stored, alarm, current, handlers, top, queue, calls, faults, history>>

TokenFails(o) ==
  /\ objects[o].greetings > 0
  /\ Fault
  /\ objects' = [objects EXCEPT ![o].greetings = @ - 1]
  /\ UNCHANGED <<stored, alarm, current, sockets, handlers, top, queue, calls, history>>

-----------------------------------------------------------------------------
\* The platform, and the session object's handling of its frames.

Owner(s) == sockets[s].owner
Live(s)  == sockets[s].state = "open" /\ sockets[s].session # None

\* READY of a new session, its event 1.
Ready(s) ==
  /\ sockets[s].state = "open"
  /\ sockets[s].asked = NoSession
  /\ \E k \in Sessions :
       /\ top[k] = 0 /\ \A j \in 1 .. (k - 1) : top[j] # 0
       /\ top' = [top EXCEPT ![k] = 1]
       /\ sockets' = [sockets EXCEPT ![s].asked = None, ![s].session = k, ![s].at = 1,
                                     ![s].ready = TRUE]
       /\ Persist(Owner(s), [StartHeartbeat(objects[Owner(s)]) EXCEPT !.id = k, !.seq = 1])
  /\ mixed' = (mixed \/ stored.id # None \/ \E t \in Sockets : Live(t))
  /\ UNCHANGED <<alarm, current, handlers, queue, calls, faults, wanted>>

\* The platform takes a session up again behind the event it was told.
AcceptResume(s) ==
  /\ sockets[s].state = "open"
  /\ sockets[s].asked \notin {None, NoSession}
  /\ sockets' = [sockets EXCEPT ![s].asked = None, ![s].session = sockets[s].asked.id,
                                ![s].at = sockets[s].asked.seq]
  /\ mixed' = (mixed \/ stored.id # sockets[s].asked.id)
  /\ UNCHANGED <<stored, alarm, current, objects, handlers, top, queue, calls, faults, wanted>>

\* Mutant: RESUMED does not start the heartbeat.
StaysSilent(x) == x

\* What RESUMED does to the object.
OnResumed(x) == StartHeartbeat(x)

\* RESUMED, when everything missed was sent again.
Resumed(s) ==
  /\ Live(s)
  /\ ~sockets[s].ready
  /\ sockets[s].at >= top[sockets[s].session]
  /\ sockets' = [sockets EXCEPT ![s].ready = TRUE]
  /\ Persist(Owner(s), OnResumed(objects[Owner(s)]))
  /\ UNCHANGED <<alarm, current, handlers, top, queue, calls, faults, history>>

\* The session is refused and forgotten on both sides.
InvalidSession(s) ==
  /\ sockets[s].state = "open"
  /\ sockets[s].asked # None
  /\ Fault
  /\ sockets' = [t \in Sockets |->
                   IF t = s THEN [sockets[t] EXCEPT !.asked = None]
                   ELSE IF sockets[t].session = sockets[s].asked.id
                     THEN [sockets[t] EXCEPT !.session = None, !.ready = FALSE]
                     ELSE sockets[t]]
  /\ PersistAndReconnect(Owner(s), [objects[Owner(s)] EXCEPT !.id = None, !.seq = 0])
  /\ UNCHANGED <<current, handlers, top, queue, calls, mixed>>

\* The platform asks for a new connection; the socket is not closed.
ReconnectRequested(s) ==
  /\ Live(s)
  /\ Fault
  /\ objects' = [objects EXCEPT ![Owner(s)] = ScheduleReconnect(@)]
  /\ alarm' = TRUE
  /\ wanted' = TRUE
  /\ UNCHANGED <<stored, current, sockets, handlers, top, queue, calls, mixed>>

\* Something happens on the platform for a session that is connected or was.
NewEvent(k) ==
  /\ top[k] \in 1 .. (MaxEvents - 1)
  /\ top' = [top EXCEPT ![k] = @ + 1]
  /\ UNCHANGED <<stored, alarm, current, objects, sockets, handlers, queue, calls, faults, history>>

\* Mutant: the number of the next event is stored.
CountsAhead(x, n) == [x EXCEPT !.seq = n + 1]

\* handleSocketMessage keeps the event's number.
KeepSeq(x, n) == [x EXCEPT !.seq = n]

\* The next event of the socket's session: its number is stored, then its message is sent.
Dispatch(s) ==
  /\ Live(s)
  /\ LET k == sockets[s].session
         n == sockets[s].at + 1 IN
     /\ n <= top[k]
     /\ sockets' = [sockets EXCEPT ![s].at = n]
     /\ Persist(Owner(s), KeepSeq(objects[Owner(s)], n))
     /\ sending' = sending \cup {<<k, n>>}
  /\ UNCHANGED <<alarm, current, handlers, top, queued, lost, calls, faults, history>>

MessageQueued(e) ==
  /\ e \in sending
  /\ sending' = sending \ {e}
  /\ queued' = queued \cup {e}
  /\ UNCHANGED <<stored, alarm, current, objects, sockets, handlers, top, lost, calls, faults, history>>

MessageRejected(e) ==
  /\ e \in sending
  /\ Fault
  /\ sending' = sending \ {e}
  /\ lost' = lost \cup {e}
  /\ UNCHANGED <<stored, alarm, current, objects, sockets, handlers, top, queued, calls, history>>

\* sendHeartbeat persists the session of its object.
Heartbeat(o) ==
  /\ objects[o].heartbeat
  /\ Persist(o, objects[o])
  /\ UNCHANGED <<alarm, current, sockets, handlers, top, queue, calls, faults, history>>

\* handleSocketClose, for whichever socket of the object was closed.
SocketClosed(s) ==
  /\ sockets' = [sockets EXCEPT ![s] = NoSocket]
  /\ PersistAndReconnect(Owner(s), [objects[Owner(s)] EXCEPT !.websocket = None])
  /\ UNCHANGED <<current, handlers, top, queue, calls, mixed>>

\* handleSocketError of a socket that cannot be opened or breaks, and its close event.
SocketBreaks(s) ==
  /\ sockets[s].state \in {"connecting", "open"}
  /\ Fault
  /\ SocketClosed(s)

CloseCompletes(s) ==
  /\ sockets[s].state = "closing"
  /\ SocketClosed(s)
  /\ UNCHANGED faults

\* What takes seconds: connecting and shaking hands.
Handshake ==
  \/ \E h \in Handlers : MakeSession(h) \/ OpenSocket(h)
  \/ \E o \in Objects : ReconnectTimerFires(o) \/ TokenArrives(o)
  \/ \E s \in Sockets :
       \/ SocketOpens(s) \/ Ready(s) \/ AcceptResume(s) \/ Resumed(s) \/ CloseCompletes(s)
       \/ ~sockets[s].ready /\ Dispatch(s)

\* The platform closes a socket that never identified itself or sends no heartbeats.
Neglected(s) ==
  /\ sockets[s].state = "open"
  /\ ~(sockets[s].ready /\ objects[Owner(s)].websocket = s /\ objects[Owner(s)].heartbeat)

\* Timing: that is long after the handshakes under way are over.
PlatformTimesOut(s) ==
  /\ ~ENABLED Handshake
  /\ Neglected(s)
  /\ SocketClosed(s)
  /\ UNCHANGED faults

\* The object is evicted: its sockets and timers are gone, its storage is not, and an
\* alarm whose handler did not end fires again.
Crash ==
  /\ Fault
  /\ current # None
  /\ current' = None
  /\ objects' = [o \in Objects |-> NoObject]
  /\ sockets' = [s \in Sockets |-> NoSocket]
  /\ handlers' = [h \in Handlers |-> Idle]
  /\ alarm' = (alarm \/ handlers[Alarm].at # "idle")
  /\ lost' = lost \cup sending
  /\ sending' = {}
  /\ UNCHANGED <<stored, top, queued, calls, history>>

-----------------------------------------------------------------------------
Ask == \E h \in Handlers, what \in {"connect", "disconnect"} : Fetch(h, what)

Timeouts == AlarmFires \/ \E s \in Sockets : PlatformTimesOut(s)

Messages ==
  \/ \E k \in Sessions : NewEvent(k)
  \/ \E s \in Sockets : Dispatch(s)
  \/ \E e \in sending : MessageQueued(e)
  \/ \E o \in Objects : Heartbeat(o)

Faults ==
  \/ \E h \in Handlers : ConnectFails(h)
  \/ \E o \in Objects : TokenFails(o)
  \/ \E s \in Sockets : InvalidSession(s) \/ ReconnectRequested(s) \/ SocketBreaks(s)
  \/ \E e \in sending : MessageRejected(e)
  \/ Crash

Next == Ask \/ Handshake \/ Timeouts \/ Messages \/ Faults

Spec == Init /\ [][Next]_vars

FairSpec ==
  /\ Spec
  /\ WF_vars(AlarmFires)
  /\ \A h \in Handlers : WF_vars(MakeSession(h)) /\ WF_vars(OpenSocket(h))
  /\ \A o \in Objects : WF_vars(ReconnectTimerFires(o)) /\ WF_vars(TokenArrives(o))
  /\ \A s \in Sockets : WF_vars(SocketOpens(s)) /\ WF_vars(Ready(s)) /\ WF_vars(AcceptResume(s))
                          /\ WF_vars(Resumed(s)) /\ WF_vars(Dispatch(s))
                          /\ WF_vars(CloseCompletes(s)) /\ WF_vars(PlatformTimesOut(s))

-----------------------------------------------------------------------------
\* Properties.

\* Once a connection was made or tried again, the object is never without something
\* that will wake it: an alarm that is set or being handled, whatever failed or crashed.
NeverForgotten == wanted => alarm \/ handlers[Alarm].at # "idle"

\* A socket that is kept and ready has its heartbeat, or it is being replaced.
KeptAliveOrReplaced ==
  \A o \in Objects :
    IsOpen(o) /\ sockets[objects[o].websocket].ready =>
      \/ objects[o].heartbeat
      \/ objects[o].reconnect
      \/ \E h \in Handlers : handlers[h].at = "gateway" /\ handlers[h].object = o

\* As long as there is one session object and one session at a time, every event up to the number that a resumed
\* session would name has reached the Queue, is on its way, or could not be sent: no
\* event falls between two sockets.
NothingSkipped ==
  ~mixed /\ stored.id # None => \A n \in 2 .. stored.seq : <<stored.id, n>> \in sending \cup queued \cup lost

\* A bot that was connected is connected again, whatever happened to it, as often as needed.
ConnectedNow == \E o \in Objects : IsOpen(o) /\ sockets[objects[o].websocket].ready
ComesBack == wanted ~> ConnectedNow
=============================================================================
