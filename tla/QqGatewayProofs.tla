--------------------------- MODULE QqGatewayProofs ---------------------------
(* Proofs about QqGateway, for every value of its constants. *)
EXTENDS QqGateway, FiniteSetTheorems, TLAPS

-----------------------------------------------------------------------------
(* The inductive invariant. *)

\* A socket that is not closed has an owner, a socket that an object keeps is its own,
\* and a closed one has nothing left of its last connection.
SocketsFit ==
  /\ \A s \in Sockets : sockets[s].state # "closed" => sockets[s].owner \in Objects
  /\ \A s \in Sockets : sockets[s].state = "closed" => sockets[s] = NoSocket
  /\ \A s \in Sockets : sockets[s].state = "connecting" => ~sockets[s].ready /\ sockets[s].session = None
  /\ \A o \in Objects : objects[o].websocket # None =>
       /\ sockets[objects[o].websocket].owner = o
       /\ sockets[objects[o].websocket].state # "closed"

\* A session was opened before anything is known of it: a session's number is an event's,
\* and what a resume names is a session with a number.
SessionsFit ==
  /\ \A s \in Sockets : sockets[s].session # None => sockets[s].at > 0
  /\ \A s \in Sockets : sockets[s].asked \notin {None, NoSession} =>
       sockets[s].asked.id # None /\ sockets[s].asked.seq > 0

\* The alarm connects, a connection has its object, and a timer has one from the start.
HandlersFit ==
  /\ handlers[Alarm].what = "connect"
  /\ \A h \in Handlers : handlers[h].at = "gateway" => handlers[h].object \in Objects
  /\ \A h \in Timers : handlers[h].at # "config"

\* A socket that is ready and loses its heartbeat is replaced by a timer, due or under
\* way: a request never takes the timers of an object that has an open socket.
ReadyIsAlive ==
  \A o \in Objects :
    IsOpen(o) /\ sockets[objects[o].websocket].ready =>
      \/ objects[o].heartbeat
      \/ objects[o].reconnect
      \/ \E h \in Timers : handlers[h].at = "gateway" /\ handlers[h].object = o

\* As long as nothing was mixed, only the current object has state, sockets and
\* handlers, and its session is the stored one.
OneObject ==
  ~mixed =>
    /\ \A o \in Objects : o # current =>
         /\ objects[o] = NoObject
         /\ \A s \in Sockets : sockets[s].owner # o
         /\ \A h \in Handlers : handlers[h].object # o
    /\ current # None =>
         objects[current].id = stored.id /\ objects[current].seq = stored.seq

\* Every event of session k up to number n reached the Queue, or it is known what became of it.
Covered(k, n) == \A m \in 2 .. n : <<k, m>> \in sending \cup queued \cup lost

\* As long as nothing was mixed, every number that could be stored or sent to the
\* platform is covered, and all live sockets are of the stored session.
OneSession ==
  ~mixed =>
    /\ stored.id # None => Covered(stored.id, stored.seq)
    /\ \A s \in Sockets : Live(s) =>
         /\ Covered(sockets[s].session, sockets[s].at)
         /\ stored.id # None => sockets[s].session = stored.id
    /\ \A s \in Sockets : sockets[s].asked \notin {None, NoSession} =>
         Covered(sockets[s].asked.id, sockets[s].asked.seq)

QqInv ==
  /\ TypeOK
  /\ SocketsFit
  /\ SessionsFit
  /\ HandlersFit
  /\ NeverForgotten
  /\ ReadyIsAlive
  /\ OneObject
  /\ OneSession

-----------------------------------------------------------------------------
(* Types. *)

LEMMA ConstantTypes ==
  /\ MaxSessions \in Nat /\ MaxEvents \in Nat /\ MaxEvents > 0
  /\ MaxCalls \in Nat /\ MaxFaults \in Nat
  /\ None \notin Objects /\ None \notin Sockets /\ None \notin Sessions
  /\ Cardinality(Sockets) \in Nat
  /\ Alarm \in Handlers /\ Alarm \notin Timers /\ Alarm \notin Requests
  /\ Requests \subseteq Handlers /\ Timers \subseteq Handlers
  /\ \A h \in Requests : h \notin Timers
<1>1. Cardinality(Sockets) \in Nat
  BY QqConstants, FS_CardinalityType
<1> QED
  BY <1>1, QqConstants DEF Sessions, Handlers

LEMMA EmptyTypes ==
  /\ NoSession \in Session
  /\ NoObject \in Object
  /\ NoSocket \in Socket
  /\ Idle \in Handler
  BY ConstantTypes DEF NoSession, NoObject, NoSocket, Idle, Session, Object, Socket, Handler

\* The pieces of the session object give an object of the right type, and keep its
\* socket, and, most of them, its session.
LEMMA PieceTypes ==
  ASSUME TypeOK, NEW x \in Object
  PROVE  /\ ClearTimers(x) \in Object
         /\ ScheduleReconnect(x) \in Object
         /\ StartHeartbeat(x) \in Object
         /\ OnResumed(x) \in Object
         /\ RestoreSession(x) \in Object
         /\ \A n \in 0 .. MaxEvents : KeepSeq(x, n) \in Object
         /\ [x EXCEPT !.websocket = None] \in Object
         /\ \A s \in Sockets : [x EXCEPT !.websocket = s] \in Object
         /\ \A k \in Sessions \cup {None}, n \in 0 .. MaxEvents : [x EXCEPT !.id = k, !.seq = n] \in Object
         /\ IdentifyOrResume(x) \in Session
  BY ConstantTypes, EmptyTypes
  DEF TypeOK, ClearTimers, ScheduleReconnect, StartHeartbeat, OnResumed, RestoreSession, KeepSeq,
      IdentifyOrResume, Object, Session

\* Assigning and persisting an object keeps the types.
LEMMA PersistTypes ==
  ASSUME TypeOK, NEW o \in Objects, NEW x \in Object
  PROVE  /\ Persist(o, x) => objects' \in [Objects -> Object] /\ stored' \in Session
         /\ PersistAndReconnect(o, x) =>
              /\ objects' \in [Objects -> Object] /\ stored' \in Session
              /\ alarm' \in BOOLEAN /\ wanted' \in BOOLEAN
<1>1. ASSUME NEW y \in Object, Persist(o, y)
      PROVE  objects' \in [Objects -> Object] /\ stored' \in Session
  <2>1. y.id \in Sessions \cup {None} /\ y.seq \in 0 .. MaxEvents
    BY DEF Object
  <2>2. stored' = [id |-> y.id, seq |-> y.seq] /\ objects' = [objects EXCEPT ![o] = y]
    BY <1>1 DEF Persist
  <2>3. objects \in [Objects -> Object]
    BY DEF TypeOK
  <2> HIDE DEF Object
  <2> QED
    BY <2>1, <2>2, <2>3 DEF Session
<1>2. ScheduleReconnect(x) \in Object
  BY PieceTypes
<1> QED
  BY <1>1, <1>2 DEF PersistAndReconnect

LEMMA MoveTypes ==
  ASSUME TypeOK, NEW h \in Handlers
  PROVE  /\ Finish(h) => handlers' \in [Handlers -> Handler]
         /\ \A at \in {"config", "gateway"}, o \in Objects \cup {None}, what \in {"connect", "disconnect"} :
              Proceed(h, at, o, what) => handlers' \in [Handlers -> Handler]
  BY EmptyTypes DEF TypeOK, Finish, Proceed, Handler

\* Sockets change their types' fields only within their types.
LEMMA SocketTypes ==
  ASSUME NEW x \in Socket
  PROVE  /\ \A st \in {"closed", "connecting", "open", "closing"} : [x EXCEPT !.state = st] \in Socket
         /\ \A a \in Session \cup {None} : [x EXCEPT !.asked = a] \in Socket
         /\ \A n \in 0 .. MaxEvents : [x EXCEPT !.at = n] \in Socket
         /\ [x EXCEPT !.ready = TRUE] \in Socket
         /\ [x EXCEPT !.session = None, !.ready = FALSE] \in Socket
         /\ \A k \in Sessions, n \in 0 .. MaxEvents :
              [x EXCEPT !.asked = None, !.session = k, !.at = n] \in Socket
         /\ \A k \in Sessions :
              [x EXCEPT !.asked = None, !.session = k, !.at = 1, !.ready = TRUE] \in Socket
         /\ \A o \in Objects : [NoSocket EXCEPT !.owner = o, !.state = "connecting"] \in Socket
<1>1. 1 \in 0 .. MaxEvents
  BY ConstantTypes
<1>2. \A y \in Socket, o \in Objects : [y EXCEPT !.owner = o, !.state = "connecting"] \in Socket
  BY DEF Socket
<1>3. \A k \in Sessions, n \in 0 .. MaxEvents :
         /\ [x EXCEPT !.asked = None, !.session = k, !.at = n] \in Socket
         /\ [x EXCEPT !.asked = None, !.session = k, !.at = n, !.ready = TRUE] \in Socket
  BY DEF Socket
<1>4. /\ \A st \in {"closed", "connecting", "open", "closing"} : [x EXCEPT !.state = st] \in Socket
      /\ \A a \in Session \cup {None} : [x EXCEPT !.asked = a] \in Socket
      /\ \A n \in 0 .. MaxEvents : [x EXCEPT !.at = n] \in Socket
      /\ [x EXCEPT !.ready = TRUE] \in Socket
      /\ [x EXCEPT !.session = None, !.ready = FALSE] \in Socket
  BY DEF Socket
<1> QED
  BY <1>1, <1>2, <1>3, <1>4, EmptyTypes

-----------------------------------------------------------------------------
(* What a state says of a socket. *)

LEMMA AskedIsSession ==
  ASSUME QqInv, NEW s \in Sockets, sockets[s].asked \notin {None, NoSession}
  PROVE  sockets[s].asked \in Session /\ sockets[s].asked.id \in Sessions
         /\ sockets[s].asked.seq \in 1 .. MaxEvents
<1>1. sockets[s].asked \in Session
  BY DEF QqInv, TypeOK, Socket
<1>2. sockets[s].asked.id # None /\ sockets[s].asked.seq > 0
  BY DEF QqInv, SessionsFit
<1> QED
  BY <1>1, <1>2, ConstantTypes DEF Session

LEMMA LiveIsAhead ==
  ASSUME QqInv, NEW s \in Sockets, sockets[s].session # None
  PROVE  sockets[s].session \in Sessions /\ sockets[s].at \in 1 .. MaxEvents
         /\ top[sockets[s].session] \in 0 .. MaxEvents
<1>1. sockets[s] \in Socket
  BY DEF QqInv, TypeOK
<1>2. sockets[s].session \in Sessions /\ sockets[s].at \in 0 .. MaxEvents
  BY <1>1 DEF Socket
<1>3. sockets[s].at > 0
  BY DEF QqInv, SessionsFit
<1> QED
  BY <1>2, <1>3, ConstantTypes DEF QqInv, TypeOK

\* What the platform's timeout does (when it may is left to the model checker).
LEMMA TimesOutCloses ==
  ASSUME NEW s \in Sockets, PlatformTimesOut(s)
  PROVE  Neglected(s) /\ SocketClosed(s) /\ UNCHANGED faults
  BY DEF PlatformTimesOut

-----------------------------------------------------------------------------
(* Every step keeps the types. *)

\* What every handler of connect() and disconnect may do.
LEMMA EnterTypes ==
  ASSUME QqInv, NEW h \in Handlers, NEW what \in {"connect", "disconnect"},
         NEW o \in Objects,
         EnsureConnected(h, o) \/ Close(h, o)
  PROVE  /\ objects' \in [Objects -> Object] /\ stored' \in Session
         /\ sockets' \in [Sockets -> Socket] /\ handlers' \in [Handlers -> Handler]
         /\ alarm' \in BOOLEAN /\ wanted' \in BOOLEAN
<1> USE DEF QqInv
<1>0. TypeOK /\ objects[o] \in Object
  BY DEF TypeOK
<1>1. \A x \in Object : BeginConnect(h, o, x) =>
         /\ objects' \in [Objects -> Object] /\ stored' \in Session
         /\ handlers' \in [Handlers -> Handler]
  BY <1>0, PieceTypes, PersistTypes, MoveTypes DEF BeginConnect
<1>2. CASE EnsureConnected(h, o) /\ IsConnected(o)
  BY <1>0, <1>2, PieceTypes, MoveTypes DEF EnsureConnected, TypeOK, SetsAlarm
<1>3. CASE EnsureConnected(h, o) /\ ~IsConnected(o)
  <2>1. RestoreSession(objects[o]) \in Object
    BY <1>0, PieceTypes
  <2> QED
    BY <1>0, <1>1, <1>3, <2>1 DEF EnsureConnected, TypeOK
<1>4. CASE Close(h, o)
  <2>1. ClearTimers(objects[o]) \in Object
    BY <1>0, PieceTypes
  <2>2. [ClearTimers(objects[o]) EXCEPT !.websocket = None] \in Object
    BY <1>0, <2>1, PieceTypes
  <2>3. \A s \in Sockets : [sockets[s] EXCEPT !.state = "closing"] \in Socket
    BY <1>0, SocketTypes DEF TypeOK
  <2>4. sockets' \in [Sockets -> Socket]
    BY <1>0, <1>4, <2>3 DEF Close, TypeOK
  <2> QED
    BY <1>0, <1>4, <2>2, <2>4, PersistTypes, MoveTypes DEF Close, TypeOK
<1> QED
  BY <1>2, <1>3, <1>4

LEMMA TypeStep == QqInv /\ [Next]_vars => TypeOK'
<1> SUFFICES ASSUME QqInv, [Next]_vars PROVE TypeOK'
  OBVIOUS
<1> USE DEF queue, history
<1>0. /\ TypeOK /\ SocketsFit /\ HandlersFit
      /\ \A o \in Objects : objects[o] \in Object
      /\ \A s \in Sockets : sockets[s] \in Socket
      /\ \A h \in Handlers : handlers[h] \in Handler
  BY DEF TypeOK, QqInv
<1>own. \A s \in Sockets : sockets[s].state # "closed" => Owner(s) \in Objects
  BY <1>0 DEF SocketsFit, Owner
<1>fault. Fault => faults' \in 0 .. MaxFaults
  BY <1>0, ConstantTypes DEF Fault, TypeOK
<1>0a. ASSUME NEW h \in Handlers, NEW what \in {"connect", "disconnect"}, Enter(h, what)
       PROVE  /\ objects' \in [Objects -> Object] /\ stored' \in Session
              /\ sockets' \in [Sockets -> Socket] /\ handlers' \in [Handlers -> Handler]
              /\ alarm' \in BOOLEAN /\ wanted' \in BOOLEAN
  <2>1. CASE current # None
    <3>1. current \in Objects
      BY <2>1, <1>0 DEF TypeOK
    <3> QED
      BY <1>0a, <2>1, <3>1, EnterTypes DEF Enter, Perform
  <2>2. CASE current = None
    BY <1>0, <1>0a, <2>2, MoveTypes DEF Enter, TypeOK
  <2> QED
    BY <2>1, <2>2
<1>1. ASSUME NEW h \in Handlers, NEW what \in {"connect", "disconnect"}, Fetch(h, what) PROVE TypeOK'
  <2>1. calls' \in 0 .. MaxCalls
    BY <1>0, <1>1, ConstantTypes DEF Fetch, TypeOK
  <2> QED
    BY <1>0, <1>0a, <1>1, <2>1 DEF Fetch, TypeOK
<1>2. ASSUME AlarmFires PROVE TypeOK'
  BY <1>0, <1>0a, <1>2, ConstantTypes DEF AlarmFires, TypeOK
<1>3. ASSUME NEW h \in Handlers, MakeSession(h) PROVE TypeOK'
  <2>1. PICK o \in Objects :
          /\ current' = o
          /\ IF handlers[h].what = "connect"
               THEN BeginConnect(h, o, RestoreSession(NoObject)) /\ UNCHANGED sockets
               ELSE Close(h, o)
          /\ UNCHANGED <<alarm, wanted>>
    BY <1>3 DEF MakeSession
  <2>2. RestoreSession(NoObject) \in Object
    BY <1>0, EmptyTypes, PieceTypes
  <2>3. CASE handlers[h].what = "connect"
    <3>1. ClearTimers(RestoreSession(NoObject)) \in Object
      BY <1>0, <2>2, PieceTypes
    <3>2. Persist(o, ClearTimers(RestoreSession(NoObject))) /\ Proceed(h, "gateway", o, "connect")
      BY <2>1, <2>3 DEF BeginConnect
    <3>3. objects' \in [Objects -> Object] /\ stored' \in Session /\ handlers' \in [Handlers -> Handler]
      BY <1>0, <3>1, <3>2, PersistTypes, MoveTypes
    <3> QED
      BY <1>0, <1>3, <2>1, <2>3, <3>3 DEF MakeSession, TypeOK
  <2>4. CASE handlers[h].what # "connect"
    <3>1. Close(h, o)
      BY <2>1, <2>4
    <3> QED
      BY <1>0, <1>3, <2>1, <3>1, EnterTypes DEF MakeSession, TypeOK
  <2> QED
    BY <2>3, <2>4
<1>4. ASSUME NEW h \in Handlers, OpenSocket(h) PROVE TypeOK'
  <2>1. handlers[h].object \in Objects
    BY <1>0, <1>4 DEF OpenSocket, HandlersFit
  <2>2. PICK s \in Sockets :
          /\ sockets' = [sockets EXCEPT ![s] = [NoSocket EXCEPT !.owner = handlers[h].object, !.state = "connecting"]]
          /\ Persist(handlers[h].object, [objects[handlers[h].object] EXCEPT !.websocket = s])
    BY <1>4 DEF OpenSocket
  <2>3. sockets' \in [Sockets -> Socket]
    BY <1>0, <2>1, <2>2, SocketTypes DEF TypeOK
  <2>4. [objects[handlers[h].object] EXCEPT !.websocket = s] \in Object
    BY <1>0, <2>1, PieceTypes
  <2>5. objects' \in [Objects -> Object] /\ stored' \in Session
    BY <1>0, <2>1, <2>2, <2>4, PersistTypes
  <2> QED
    BY <1>0, <1>4, <2>3, <2>5, MoveTypes DEF OpenSocket, TypeOK, SetsAlarm
<1>5. ASSUME NEW o \in Objects, ReconnectTimerFires(o) PROVE TypeOK'
  <2>1. PICK h \in Timers : BeginConnect(h, o, objects[o])
    BY <1>5 DEF ReconnectTimerFires
  <2>2. ClearTimers(objects[o]) \in Object
    BY <1>0, PieceTypes
  <2>3. objects' \in [Objects -> Object] /\ stored' \in Session /\ handlers' \in [Handlers -> Handler]
    BY <1>0, <2>1, <2>2, PersistTypes, MoveTypes, ConstantTypes DEF BeginConnect
  <2> QED
    BY <1>0, <1>5, <2>3 DEF ReconnectTimerFires, TypeOK
<1>6. ASSUME NEW h \in Handlers, ConnectFails(h) PROVE TypeOK'
  <2>1. CASE h \in Timers
    <3>1. handlers[h].object \in Objects
      BY <1>0, <1>6, <2>1 DEF ConnectFails, HandlersFit, Handler
    <3> QED
      BY <1>0, <1>6, <1>fault, <2>1, <3>1, PersistTypes, MoveTypes DEF ConnectFails, TypeOK
  <2>2. CASE h \notin Timers
    BY <1>0, <1>6, <1>fault, <2>2, MoveTypes DEF ConnectFails, TypeOK
  <2> QED
    BY <2>1, <2>2
<1>7. ASSUME NEW s \in Sockets, SocketOpens(s) PROVE TypeOK'
  <2>1. sockets' \in [Sockets -> Socket]
    BY <1>0, <1>7, SocketTypes DEF SocketOpens, TypeOK
  <2>2. Owner(s) \in Objects
    BY <1>own, <1>7 DEF SocketOpens
  <2>3. objects[Owner(s)].greetings + 1 \in 0 .. Cardinality(Sockets)
    BY <1>0, <1>7, <2>2, ConstantTypes DEF SocketOpens, Object, Owner
  <2>4. [objects[Owner(s)] EXCEPT !.greetings = @ + 1] \in Object
    BY <1>0, <2>2, <2>3 DEF Object
  <2>5. objects' \in [Objects -> Object]
    BY <1>0, <1>7, <2>2, <2>4 DEF SocketOpens, Owner, TypeOK
  <2> QED
    BY <1>0, <1>7, <2>1, <2>5 DEF SocketOpens, TypeOK
<1>8. ASSUME NEW o \in Objects, objects[o].greetings > 0,
             objects' = [objects EXCEPT ![o].greetings = @ - 1]
      PROVE  objects' \in [Objects -> Object]
  <2>1. objects[o].greetings - 1 \in 0 .. Cardinality(Sockets)
    BY <1>0, <1>8, ConstantTypes DEF Object
  <2>2. [objects[o] EXCEPT !.greetings = @ - 1] \in Object
    BY <1>0, <2>1 DEF Object
  <2> QED
    BY <1>0, <1>8, <2>2 DEF TypeOK
<1>9. ASSUME NEW o \in Objects, TokenArrives(o) PROVE TypeOK'
  <2>1. objects' \in [Objects -> Object]
    BY <1>8, <1>9 DEF TokenArrives
  <2>2. IdentifyOrResume(objects[o]) \in Session
    BY <1>0, PieceTypes
  <2>3. sockets' \in [Sockets -> Socket]
    <3>1. CASE IsOpen(o) /\ sockets[objects[o].websocket].session = None
      <4>1. objects[o].websocket \in Sockets
        BY <1>0, <3>1 DEF IsOpen, Object
      <4>2. [sockets[objects[o].websocket] EXCEPT !.asked = IdentifyOrResume(objects[o])] \in Socket
        BY <1>0, <2>2, <4>1, SocketTypes
      <4>3. sockets' = [sockets EXCEPT ![objects[o].websocket] =
                          [sockets[objects[o].websocket] EXCEPT !.asked = IdentifyOrResume(objects[o])]]
        BY <1>9, <3>1 DEF TokenArrives
      <4> QED
        BY <1>0, <4>1, <4>2, <4>3 DEF TypeOK
    <3> QED
      BY <1>0, <1>9, <3>1 DEF TokenArrives, TypeOK
  <2> QED
    BY <1>0, <1>9, <2>1, <2>3 DEF TokenArrives, TypeOK
<1>10. ASSUME NEW o \in Objects, TokenFails(o) PROVE TypeOK'
  BY <1>0, <1>8, <1>10, <1>fault DEF TokenFails, TypeOK
<1>11. ASSUME NEW s \in Sockets, Ready(s) PROVE TypeOK'
  <2>1. Owner(s) \in Objects
    BY <1>own, <1>11 DEF Ready
  <2>2. PICK k \in Sessions :
          /\ top' = [top EXCEPT ![k] = 1]
          /\ sockets' = [sockets EXCEPT ![s].asked = None, ![s].session = k, ![s].at = 1,
                                        ![s].ready = TRUE]
          /\ Persist(Owner(s), [StartHeartbeat(objects[Owner(s)]) EXCEPT !.id = k, !.seq = 1])
    BY <1>11 DEF Ready
  <2>3. StartHeartbeat(objects[Owner(s)]) \in Object
    BY <1>0, <2>1, PieceTypes
  <2>4. 1 \in 0 .. MaxEvents
    BY ConstantTypes
  <2>5. [StartHeartbeat(objects[Owner(s)]) EXCEPT !.id = k, !.seq = 1] \in Object
    BY <1>0, <2>3, <2>4, PieceTypes
  <2>6. objects' \in [Objects -> Object] /\ stored' \in Session
    BY <1>0, <2>1, <2>2, <2>5, PersistTypes
  <2>7. [sockets[s] EXCEPT !.asked = None, !.session = k, !.at = 1, !.ready = TRUE] \in Socket
    BY <1>0, SocketTypes
  <2>8. sockets' = [sockets EXCEPT ![s] =
                      [sockets[s] EXCEPT !.asked = None, !.session = k, !.at = 1, !.ready = TRUE]]
    BY <1>0, <2>2 DEF TypeOK, Socket
  <2>9. sockets' \in [Sockets -> Socket]
    BY <1>0, <2>7, <2>8 DEF TypeOK
  <2>10. top' \in [Sessions -> 0 .. MaxEvents]
    BY <1>0, <2>2, <2>4 DEF TypeOK
  <2> QED
    BY <1>0, <1>11, <2>6, <2>9, <2>10 DEF Ready, TypeOK
<1>12. ASSUME NEW s \in Sockets, AcceptResume(s) PROVE TypeOK'
  <2>1. sockets[s].asked.id \in Sessions /\ sockets[s].asked.seq \in 0 .. MaxEvents
    BY <1>12, AskedIsSession DEF AcceptResume, QqInv
  <2>2. sockets' = [sockets EXCEPT ![s] =
                      [sockets[s] EXCEPT !.asked = None, !.session = sockets[s].asked.id,
                                         !.at = sockets[s].asked.seq]]
    BY <1>0, <1>12 DEF AcceptResume, TypeOK, Socket
  <2>3. sockets' \in [Sockets -> Socket]
    BY <1>0, <2>1, <2>2, SocketTypes DEF TypeOK
  <2> QED
    BY <1>0, <1>12, <2>3 DEF AcceptResume, TypeOK
<1>13. ASSUME NEW s \in Sockets, Resumed(s) PROVE TypeOK'
  <2>1. Owner(s) \in Objects
    BY <1>own, <1>13 DEF Resumed, Live
  <2>2. objects' \in [Objects -> Object] /\ stored' \in Session
    BY <1>0, <1>13, <2>1, PieceTypes, PersistTypes DEF Resumed
  <2>3. sockets' \in [Sockets -> Socket]
    BY <1>0, <1>13, SocketTypes DEF Resumed, TypeOK
  <2> QED
    BY <1>0, <1>13, <2>2, <2>3 DEF Resumed, TypeOK
<1>14. ASSUME NEW s \in Sockets, InvalidSession(s) PROVE TypeOK'
  <2>1. Owner(s) \in Objects
    BY <1>own, <1>14 DEF InvalidSession
  <2>2. 0 \in 0 .. MaxEvents
    BY ConstantTypes
  <2>3. [objects[Owner(s)] EXCEPT !.id = None, !.seq = 0] \in Object
    BY <1>0, <2>1, <2>2, PieceTypes
  <2>4. /\ objects' \in [Objects -> Object] /\ stored' \in Session
        /\ alarm' \in BOOLEAN /\ wanted' \in BOOLEAN
    BY <1>0, <1>14, <2>1, <2>3, PersistTypes DEF InvalidSession
  <2>5. \A t \in Sockets : /\ [sockets[t] EXCEPT !.asked = None] \in Socket
                           /\ [sockets[t] EXCEPT !.session = None, !.ready = FALSE] \in Socket
    BY <1>0, SocketTypes
  <2>6. sockets' \in [Sockets -> Socket]
    BY <1>0, <1>14, <2>5 DEF InvalidSession
  <2> QED
    BY <1>0, <1>14, <1>fault, <2>4, <2>6 DEF InvalidSession, TypeOK
<1>15. ASSUME NEW s \in Sockets, ReconnectRequested(s) PROVE TypeOK'
  <2>1. Owner(s) \in Objects
    BY <1>own, <1>15 DEF ReconnectRequested, Live
  <2>2. ScheduleReconnect(objects[Owner(s)]) \in Object
    BY <1>0, <2>1, PieceTypes
  <2>3. objects' \in [Objects -> Object]
    BY <1>0, <1>15, <2>1, <2>2 DEF ReconnectRequested, TypeOK
  <2> QED
    BY <1>0, <1>15, <1>fault, <2>3 DEF ReconnectRequested, TypeOK
<1>16. ASSUME NEW k \in Sessions, NewEvent(k) PROVE TypeOK'
  <2>1. top[k] + 1 \in 0 .. MaxEvents
    BY <1>16, ConstantTypes DEF NewEvent
  <2>2. top' \in [Sessions -> 0 .. MaxEvents]
    BY <1>0, <1>16, <2>1 DEF NewEvent, TypeOK
  <2> QED
    BY <1>0, <1>16, <2>2 DEF NewEvent, TypeOK
<1>17. ASSUME NEW s \in Sockets, Dispatch(s) PROVE TypeOK'
  <2>1. Owner(s) \in Objects
    BY <1>own, <1>17 DEF Dispatch, Live
  <2> DEFINE k == sockets[s].session
             n == sockets[s].at + 1
  <2>2. n \in 2 .. MaxEvents /\ k \in Sessions
    <3>1. k \in Sessions /\ sockets[s].at \in 1 .. MaxEvents /\ top[k] \in 0 .. MaxEvents
      BY <1>17, LiveIsAhead DEF Dispatch, Live
    <3>2. n <= top[k]
      BY <1>17 DEF Dispatch
    <3> QED
      BY <3>1, <3>2, ConstantTypes
  <2>3. n \in 0 .. MaxEvents
    BY <2>2, ConstantTypes
  <2>4. KeepSeq(objects[Owner(s)], n) \in Object
    BY <1>0, <2>1, <2>3, PieceTypes
  <2>5. objects' \in [Objects -> Object] /\ stored' \in Session
    BY <1>0, <1>17, <2>1, <2>4, PersistTypes DEF Dispatch
  <2>6. sockets' \in [Sockets -> Socket]
    BY <1>0, <1>17, <2>3, SocketTypes DEF Dispatch, TypeOK
  <2>7. sending' \subseteq Event
    BY <1>0, <1>17, <2>2 DEF Dispatch, TypeOK, Event
  <2> QED
    BY <1>0, <1>17, <2>5, <2>6, <2>7 DEF Dispatch, TypeOK
<1>18. ASSUME NEW e \in sending, MessageQueued(e) \/ MessageRejected(e) PROVE TypeOK'
  BY <1>0, <1>18, <1>fault DEF MessageQueued, MessageRejected, TypeOK
<1>19. ASSUME NEW o \in Objects, Heartbeat(o) PROVE TypeOK'
  BY <1>0, <1>19, PersistTypes DEF Heartbeat, TypeOK
<1>20. ASSUME NEW s \in Sockets, sockets[s].state # "closed", SocketClosed(s), faults' \in 0 .. MaxFaults
       PROVE  TypeOK'
  <2>1. Owner(s) \in Objects
    BY <1>own, <1>20
  <2>2. [objects[Owner(s)] EXCEPT !.websocket = None] \in Object
    BY <1>0, <2>1, PieceTypes
  <2>3. /\ objects' \in [Objects -> Object] /\ stored' \in Session
        /\ alarm' \in BOOLEAN /\ wanted' \in BOOLEAN
    BY <1>0, <1>20, <2>1, <2>2, PersistTypes DEF SocketClosed
  <2>4. sockets' \in [Sockets -> Socket]
    BY <1>0, <1>20, EmptyTypes DEF SocketClosed, TypeOK
  <2> QED
    BY <1>0, <1>20, <2>3, <2>4 DEF SocketClosed, TypeOK
<1>21. ASSUME NEW s \in Sockets, SocketBreaks(s) \/ CloseCompletes(s) \/ PlatformTimesOut(s)
       PROVE  TypeOK'
  BY <1>0, <1>20, <1>21, <1>fault, TimesOutCloses
  DEF SocketBreaks, CloseCompletes, Neglected, TypeOK
<1>22. ASSUME Crash PROVE TypeOK'
  BY <1>0, <1>22, <1>fault, EmptyTypes DEF Crash, TypeOK
<1>23. ASSUME UNCHANGED vars PROVE TypeOK'
  BY <1>0, <1>23 DEF vars, TypeOK
<1> QED
  BY <1>1, <1>2, <1>3, <1>4, <1>5, <1>6, <1>7, <1>9, <1>10, <1>11, <1>12, <1>13, <1>14, <1>15, <1>16,
     <1>17, <1>18, <1>19, <1>21, <1>22, <1>23
  DEF Next, Ask, Handshake, Timeouts, Messages, Faults

-----------------------------------------------------------------------------
(* The invariant holds at first. *)

LEMMA InitInv == Init => QqInv
<1> SUFFICES ASSUME Init PROVE QqInv
  OBVIOUS
<1>1. TypeOK
  <2>1. /\ 0 \in 0 .. MaxCalls /\ 0 \in 0 .. MaxFaults /\ 0 \in 0 .. MaxEvents
    BY ConstantTypes
  <2>2. /\ objects \in [Objects -> Object] /\ sockets \in [Sockets -> Socket]
        /\ handlers \in [Handlers -> Handler]
    BY EmptyTypes DEF Init
  <2>3. top \in [Sessions -> 0 .. MaxEvents]
    BY <2>1 DEF Init
  <2> QED
    BY <2>1, <2>2, <2>3, EmptyTypes DEF Init, TypeOK
<1>2. SocketsFit /\ SessionsFit /\ HandlersFit
  BY ConstantTypes DEF Init, SocketsFit, SessionsFit, HandlersFit, NoSocket, NoObject, Idle
<1>3. NeverForgotten /\ ReadyIsAlive
  BY DEF Init, NeverForgotten, ReadyIsAlive, IsOpen, NoObject
<1>4. OneObject /\ OneSession
  BY DEF Init, OneObject, OneSession, NoSession, NoSocket, Live, Idle
<1> QED
  BY <1>1, <1>2, <1>3, <1>4 DEF QqInv

-----------------------------------------------------------------------------
(* Sockets, sessions and handlers stay in order. *)

LEMMA FitStep == QqInv /\ [Next]_vars => SocketsFit' /\ SessionsFit' /\ HandlersFit'
<1> SUFFICES ASSUME QqInv, [Next]_vars PROVE SocketsFit' /\ SessionsFit' /\ HandlersFit'
  OBVIOUS
<1> DEFINE Fit == SocketsFit' /\ SessionsFit' /\ HandlersFit'
<1> USE DEF queue, history
<1>0. /\ TypeOK /\ SocketsFit /\ SessionsFit /\ HandlersFit /\ TypeOK'
      /\ \A o \in Objects : objects[o] \in Object /\ objects[o].websocket \in Sockets \cup {None}
      /\ \A s \in Sockets : sockets[s] \in Socket
      /\ \A h \in Handlers : handlers[h] \in Handler
  BY TypeStep DEF TypeOK, QqInv, Object
<1>own. \A s \in Sockets : sockets[s].state # "closed" => Owner(s) \in Objects
  BY <1>0 DEF SocketsFit, Owner
\* Sockets that change no more than their session, and objects that keep their sockets.
<1>s. ASSUME \A o \in Objects : objects'[o].websocket \in {objects[o].websocket, None},
             \A s \in Sockets :
               \/ sockets'[s] = sockets[s]
               \/ /\ sockets[s].state # "closed"
                  /\ sockets'[s].owner = sockets[s].owner
                  /\ \/ sockets'[s].state \in {"open", "closing"}
                     \/ /\ sockets'[s].state = "connecting"
                        /\ ~sockets'[s].ready /\ sockets'[s].session = None
      PROVE  SocketsFit'
  BY <1>0, <1>s, ConstantTypes DEF SocketsFit
<1>n. ASSUME \A s \in Sockets :
               \/ sockets'[s] = sockets[s]
               \/ /\ sockets'[s].session # None => sockets'[s].at > 0
                  /\ sockets'[s].asked \notin {None, NoSession} =>
                       sockets'[s].asked.id # None /\ sockets'[s].asked.seq > 0
      PROVE  SessionsFit'
  BY <1>0, <1>n DEF SessionsFit
<1>h. ASSUME \A h \in Handlers :
               \/ handlers'[h] = handlers[h]
               \/ handlers'[h] = Idle
               \/ /\ handlers'[h].what = "connect" \/ h # Alarm
                  /\ handlers'[h].at = "gateway" => handlers'[h].object \in Objects
                  /\ handlers'[h].at = "config" => h \notin Timers
      PROVE  HandlersFit'
  BY <1>0, <1>h, ConstantTypes DEF HandlersFit, Idle
\* What becomes of the object and the handler.
<1>b. ASSUME NEW h \in Handlers, NEW o \in Objects, NEW x, x.websocket = objects[o].websocket,
             BeginConnect(h, o, x)
      PROVE  /\ \A p \in Objects : objects'[p].websocket = objects[p].websocket
             /\ HandlersFit'
  <2>1. \A p \in Objects : objects'[p].websocket = objects[p].websocket
    BY <1>0, <1>b DEF BeginConnect, Persist, ClearTimers, TypeOK
  <2>2. HandlersFit'
    BY <1>0, <1>b, <1>h DEF BeginConnect, Proceed, TypeOK
  <2> QED
    BY <2>1, <2>2
<1>f. ASSUME NEW h \in Handlers, Finish(h) PROVE HandlersFit'
  BY <1>0, <1>f, <1>h DEF Finish, TypeOK
<1>e. ASSUME NEW h \in Handlers, NEW o \in Objects, EnsureConnected(h, o) \/ Close(h, o) PROVE Fit
  <2>1. CASE EnsureConnected(h, o) /\ IsConnected(o)
    <3>1. \A p \in Objects : objects'[p].websocket = objects[p].websocket
      <4>1. objects' = [objects EXCEPT ![o] = RestoreSession(objects[o])]
        BY <2>1 DEF EnsureConnected
      <4>2. RestoreSession(objects[o]).websocket = objects[o].websocket
        BY <1>0 DEF RestoreSession, Object
      <4> QED
        BY <1>0, <4>1, <4>2 DEF TypeOK
    <3> QED
      BY <2>1, <3>1, <1>s, <1>n, <1>f DEF EnsureConnected
  <2>2. CASE EnsureConnected(h, o) /\ ~IsConnected(o)
    <3>1. RestoreSession(objects[o]).websocket = objects[o].websocket
      BY <1>0 DEF RestoreSession, Object
    <3> QED
      BY <2>2, <3>1, <1>b, <1>s, <1>n DEF EnsureConnected
  <2>3. CASE Close(h, o)
    <3>1. \A p \in Objects : objects'[p].websocket \in {objects[p].websocket, None}
      BY <1>0, <2>3 DEF Close, Persist, ClearTimers, TypeOK, Object
    <3>2. \A s \in Sockets : \/ sockets'[s] = sockets[s]
                             \/ /\ sockets[s].state # "closed"
                                /\ sockets'[s] = [sockets[s] EXCEPT !.state = "closing"]
      BY <1>0, <2>3 DEF Close
    <3>3. SocketsFit' /\ SessionsFit'
      BY <1>0, <3>1, <3>2, <1>s, <1>n DEF Socket, SessionsFit
    <3> QED
      BY <2>3, <3>3, <1>f DEF Close
  <2> QED
    BY <1>e, <2>1, <2>2, <2>3
<1>0a. ASSUME NEW h \in Handlers, NEW what \in {"connect", "disconnect"}, what = "connect" \/ h # Alarm,
              h \notin Timers, Enter(h, what)
       PROVE  Fit
  <2>1. CASE current # None
    <3>1. current \in Objects
      BY <2>1, <1>0 DEF TypeOK
    <3> QED
      BY <1>0a, <2>1, <3>1, <1>e DEF Enter, Perform
  <2>2. CASE current = None
    <3>1. HandlersFit'
      BY <1>0, <1>0a, <2>2, <1>h DEF Enter, Proceed, TypeOK
    <3> QED
      BY <1>0, <1>0a, <2>2, <3>1, <1>s, <1>n DEF Enter
  <2> QED
    BY <2>1, <2>2
<1>1. ASSUME NEW h \in Handlers, NEW what \in {"connect", "disconnect"}, Fetch(h, what) PROVE Fit
  BY <1>0a, <1>1, ConstantTypes DEF Fetch
<1>2. ASSUME AlarmFires PROVE Fit
  BY <1>0a, <1>2, ConstantTypes DEF AlarmFires
<1>3. ASSUME NEW h \in Handlers, MakeSession(h) PROVE Fit
  <2>1. PICK o \in Objects :
          /\ objects[o] = NoObject
          /\ IF handlers[h].what = "connect"
               THEN BeginConnect(h, o, RestoreSession(NoObject)) /\ UNCHANGED sockets
               ELSE Close(h, o)
    BY <1>3 DEF MakeSession
  <2>2. CASE handlers[h].what = "connect"
    <3>1. RestoreSession(NoObject).websocket = objects[o].websocket
      BY <2>1 DEF RestoreSession, NoObject
    <3> QED
      BY <2>1, <2>2, <3>1, <1>b, <1>s, <1>n
  <2>3. CASE handlers[h].what # "connect"
    BY <2>1, <2>3, <1>e
  <2> QED
    BY <2>2, <2>3
<1>4. ASSUME NEW h \in Handlers, OpenSocket(h) PROVE Fit
  <2> DEFINE o == handlers[h].object
  <2>1. o \in Objects
    BY <1>0, <1>4 DEF OpenSocket, HandlersFit
  <2>2. PICK s \in Sockets :
          /\ sockets[s].state = "closed"
          /\ sockets' = [sockets EXCEPT ![s] = [NoSocket EXCEPT !.owner = o, !.state = "connecting"]]
          /\ Persist(o, [objects[o] EXCEPT !.websocket = s])
    BY <1>4 DEF OpenSocket
  <2>3. /\ sockets'[s].owner = o /\ sockets'[s].state = "connecting" /\ ~sockets'[s].ready
        /\ sockets'[s].session = None /\ sockets'[s].asked = None
        /\ \A t \in Sockets : t # s => sockets'[t] = sockets[t]
    BY <1>0, <2>2 DEF TypeOK, NoSocket
  <2>4. /\ objects'[o].websocket = s
        /\ \A p \in Objects : p # o => objects'[p] = objects[p]
    BY <1>0, <2>1, <2>2 DEF TypeOK, Persist, Object
  <2>5. SocketsFit'
    BY <1>0, <2>1, <2>2, <2>3, <2>4, ConstantTypes DEF SocketsFit
  <2>6. SessionsFit'
    BY <2>3, <1>n
  <2> QED
    BY <1>4, <1>f, <2>5, <2>6 DEF OpenSocket
<1>5. ASSUME NEW o \in Objects, ReconnectTimerFires(o) PROVE Fit
  BY <1>5, <1>b, <1>s, <1>n, ConstantTypes DEF ReconnectTimerFires
<1>p. ASSUME NEW o \in Objects, NEW x \in Object, x.websocket \in {objects[o].websocket, None},
             Persist(o, x) \/ PersistAndReconnect(o, x)
      PROVE  \A p \in Objects : objects'[p].websocket \in {objects[p].websocket, None}
  <2>1. ScheduleReconnect(x).websocket = x.websocket
    BY DEF ScheduleReconnect, ClearTimers, Object
  <2>2. PICK y : y.websocket = x.websocket /\ objects' = [objects EXCEPT ![o] = y]
    BY <1>p, <2>1 DEF Persist, PersistAndReconnect
  <2> QED
    BY <1>0, <1>p, <2>2 DEF TypeOK
<1>6. ASSUME NEW h \in Handlers, ConnectFails(h) PROVE Fit
  <2>1. CASE h \in Timers
    <3>1. handlers[h].object \in Objects
      BY <1>0, <1>6, <2>1 DEF ConnectFails, HandlersFit, Handler
    <3> QED
      BY <1>0, <1>6, <2>1, <3>1, <1>p, <1>s, <1>n, <1>f DEF ConnectFails
  <2>2. CASE h \notin Timers
    BY <1>6, <2>2, <1>s, <1>n, <1>f DEF ConnectFails
  <2> QED
    BY <2>1, <2>2
<1>u. ASSUME UNCHANGED handlers PROVE HandlersFit'
  BY <1>u, <1>h
<1>7. ASSUME NEW s \in Sockets, SocketOpens(s) PROVE Fit
  <2>1. \A o \in Objects : objects'[o].websocket = objects[o].websocket
    BY <1>0, <1>7 DEF SocketOpens, TypeOK, Object
  <2>2. \A t \in Sockets : t # s => sockets'[t] = sockets[t]
    BY <1>0, <1>7 DEF SocketOpens, TypeOK
  <2>3. sockets'[s] = [sockets[s] EXCEPT !.state = "open"]
    BY <1>0, <1>7 DEF SocketOpens, TypeOK
  <2>4. SocketsFit' /\ SessionsFit'
    BY <1>0, <1>7, <2>1, <2>2, <2>3, <1>s, <1>n DEF SocketOpens, Socket, SessionsFit
  <2> QED
    BY <1>7, <2>4, <1>u DEF SocketOpens
<1>9. ASSUME NEW o \in Objects, TokenArrives(o) PROVE Fit
  <2>1. \A p \in Objects : objects'[p].websocket = objects[p].websocket
    BY <1>0, <1>9 DEF TokenArrives, TypeOK, Object
  <2>2. ASSUME NEW t \in Sockets, sockets'[t] # sockets[t]
        PROVE  /\ sockets[t].state = "open" /\ sockets[t].session = None
               /\ sockets'[t] = [sockets[t] EXCEPT !.asked = IdentifyOrResume(objects[o])]
    BY <1>0, <1>9, <2>2 DEF TokenArrives, TypeOK, IsOpen
  <2>3. \/ IdentifyOrResume(objects[o]) = NoSession
        \/ IdentifyOrResume(objects[o]).id # None /\ IdentifyOrResume(objects[o]).seq > 0
    BY DEF IdentifyOrResume
  <2>4. SocketsFit'
    BY <1>0, <2>1, <2>2, <1>s DEF Socket
  <2>5. SessionsFit'
    BY <1>0, <2>2, <2>3, <1>n DEF Socket
  <2> QED
    BY <1>9, <2>4, <2>5, <1>u DEF TokenArrives
<1>10. ASSUME NEW o \in Objects, TokenFails(o) PROVE Fit
  <2>1. \A p \in Objects : objects'[p].websocket = objects[p].websocket
    BY <1>0, <1>10 DEF TokenFails, TypeOK, Object
  <2> QED
    BY <1>10, <2>1, <1>s, <1>n, <1>u DEF TokenFails
<1>11. ASSUME NEW s \in Sockets, Ready(s) PROVE Fit
  <2>1. Owner(s) \in Objects
    BY <1>own, <1>11 DEF Ready
  <2>2. PICK k \in Sessions :
          /\ sockets' = [sockets EXCEPT ![s].asked = None, ![s].session = k, ![s].at = 1,
                                        ![s].ready = TRUE]
          /\ Persist(Owner(s), [StartHeartbeat(objects[Owner(s)]) EXCEPT !.id = k, !.seq = 1])
    BY <1>11 DEF Ready
  <2>3. \A o \in Objects : objects'[o].websocket = objects[o].websocket
    BY <1>0, <2>1, <2>2 DEF Persist, StartHeartbeat, TypeOK, Object
  <2>4. /\ sockets'[s].owner = sockets[s].owner /\ sockets'[s].state = "open"
        /\ sockets'[s].asked = None /\ sockets'[s].at = 1
        /\ \A t \in Sockets : t # s => sockets'[t] = sockets[t]
    BY <1>0, <1>11, <2>2 DEF Ready, TypeOK, Socket
  <2>5. sockets[s].state = "open"
    BY <1>11 DEF Ready
  <2>6. SocketsFit'
    BY <2>3, <2>4, <2>5, <1>s
  <2>7. SessionsFit'
    BY <2>4, <1>n
  <2> QED
    BY <1>11, <2>6, <2>7, <1>u DEF Ready
<1>12. ASSUME NEW s \in Sockets, AcceptResume(s) PROVE Fit
  <2>1. sockets[s].asked.seq > 0
    BY <1>12, AskedIsSession DEF AcceptResume
  <2>2. /\ sockets'[s].owner = sockets[s].owner /\ sockets'[s].state = "open"
        /\ sockets'[s].asked = None /\ sockets'[s].at = sockets[s].asked.seq
        /\ \A t \in Sockets : t # s => sockets'[t] = sockets[t]
    BY <1>0, <1>12 DEF AcceptResume, TypeOK, Socket
  <2>3. SocketsFit' /\ SessionsFit'
    BY <1>12, <2>1, <2>2, <1>s, <1>n DEF AcceptResume
  <2> QED
    BY <1>12, <2>3, <1>u DEF AcceptResume
<1>13. ASSUME NEW s \in Sockets, Resumed(s) PROVE Fit
  <2>1. Owner(s) \in Objects
    BY <1>own, <1>13 DEF Resumed, Live
  <2>2. \A o \in Objects : objects'[o].websocket = objects[o].websocket
    BY <1>0, <1>13, <2>1 DEF Resumed, Persist, OnResumed, StartHeartbeat, TypeOK, Object
  <2>3. /\ sockets'[s] = [sockets[s] EXCEPT !.ready = TRUE]
        /\ \A t \in Sockets : t # s => sockets'[t] = sockets[t]
    BY <1>0, <1>13 DEF Resumed, TypeOK
  <2>4. SocketsFit' /\ SessionsFit'
    BY <1>0, <1>13, <2>2, <2>3, <1>s, <1>n DEF Resumed, Live, Socket, SessionsFit
  <2> QED
    BY <1>13, <2>4, <1>u DEF Resumed
<1>14. ASSUME NEW s \in Sockets, InvalidSession(s) PROVE Fit
  <2>1. Owner(s) \in Objects
    BY <1>own, <1>14 DEF InvalidSession
  <2> DEFINE x == [objects[Owner(s)] EXCEPT !.id = None, !.seq = 0]
  <2>2. x \in Object /\ x.websocket = objects[Owner(s)].websocket
    <3>1. 0 \in 0 .. MaxEvents
      BY ConstantTypes
    <3> QED
      BY <1>0, <2>1, <3>1, PieceTypes DEF Object
  <2>3. \A o \in Objects : objects'[o].websocket \in {objects[o].websocket, None}
    BY <1>14, <1>p, <2>1, <2>2 DEF InvalidSession
  <2>4. sockets[s].state = "open" /\ sockets'[s] = [sockets[s] EXCEPT !.asked = None]
    BY <1>14 DEF InvalidSession
  <2>5. ASSUME NEW t \in Sockets, sockets'[t] # sockets[t], t # s
        PROVE  /\ sockets'[t].owner = sockets[t].owner /\ sockets'[t].state = sockets[t].state
               /\ sockets[t].state # "closed"
               /\ sockets'[t].asked = sockets[t].asked
               /\ sockets'[t].session = None /\ ~sockets'[t].ready
    <3>1. sockets'[t] = [sockets[t] EXCEPT !.session = None, !.ready = FALSE]
      BY <1>14, <2>5 DEF InvalidSession
    <3>2. ASSUME sockets[t].session = None, sockets[t].ready = FALSE
          PROVE  [sockets[t] EXCEPT !.session = None, !.ready = FALSE] = sockets[t]
      BY <1>0, <3>2 DEF Socket
    <3>3. sockets[t].state # "closed"
      <4>1. ASSUME sockets[t].state = "closed"
            PROVE  sockets[t].session = None /\ sockets[t].ready = FALSE
        BY <1>0, <4>1 DEF SocketsFit, NoSocket
      <4> QED
        BY <2>5, <3>1, <3>2, <4>1
    <3> QED
      BY <1>0, <3>1, <3>3 DEF Socket
  <2>6. SocketsFit'
    <3>1. sockets'[s].owner = sockets[s].owner /\ sockets'[s].state = "open"
      BY <1>0, <2>4 DEF Socket
    <3>2. \A t \in Sockets : sockets[t].state \in {"closed", "connecting", "open", "closing"}
      BY <1>0 DEF Socket
    <3> QED
      BY <2>3, <2>4, <2>5, <3>1, <3>2, <1>s
  <2>7. SessionsFit'
    <3>1. sockets'[s].asked = None /\ sockets'[s].session = sockets[s].session
          /\ sockets'[s].at = sockets[s].at
      BY <1>0, <2>4 DEF Socket
    <3> QED
      BY <1>0, <2>5, <3>1, <1>n DEF SessionsFit
  <2> QED
    BY <1>14, <2>6, <2>7, <1>u DEF InvalidSession
<1>15. ASSUME NEW s \in Sockets, ReconnectRequested(s) PROVE Fit
  <2>1. \A o \in Objects : objects'[o].websocket = objects[o].websocket
    BY <1>0, <1>15 DEF ReconnectRequested, ScheduleReconnect, ClearTimers, TypeOK, Object
  <2> QED
    BY <1>15, <2>1, <1>s, <1>n, <1>u DEF ReconnectRequested
<1>16. ASSUME NEW s \in Sockets, Dispatch(s) PROVE Fit
  <2>1. Owner(s) \in Objects
    BY <1>own, <1>16 DEF Dispatch, Live
  <2>2. \A o \in Objects : objects'[o].websocket = objects[o].websocket
    BY <1>0, <1>16, <2>1 DEF Dispatch, Persist, KeepSeq, TypeOK, Object
  <2>3. /\ sockets'[s] = [sockets[s] EXCEPT !.at = sockets[s].at + 1]
        /\ \A t \in Sockets : t # s => sockets'[t] = sockets[t]
    BY <1>0, <1>16 DEF Dispatch, TypeOK
  <2>4. /\ sockets'[s].owner = sockets[s].owner /\ sockets'[s].state = "open"
        /\ sockets'[s].asked = sockets[s].asked /\ sockets'[s].at = sockets[s].at + 1
        /\ sockets[s].at \in Nat
    BY <1>0, <1>16, <2>3 DEF Dispatch, Live, Socket
  <2>5. SocketsFit'
    BY <1>16, <2>2, <2>3, <2>4, <1>s DEF Dispatch, Live
  <2>6. SessionsFit'
    <3>1. sockets'[s].at > 0
      BY <2>4
    <3>2. sockets[s].asked \notin {None, NoSession} =>
            sockets[s].asked.id # None /\ sockets[s].asked.seq > 0
      BY <1>0 DEF SessionsFit
    <3> QED
      BY <2>3, <2>4, <3>1, <3>2, <1>n
  <2> QED
    BY <1>16, <2>5, <2>6, <1>u DEF Dispatch
<1>17. ASSUME NEW o \in Objects, Heartbeat(o) PROVE Fit
  <2>1. \A p \in Objects : objects'[p].websocket = objects[p].websocket
    BY <1>0, <1>17 DEF Heartbeat, Persist, TypeOK
  <2> QED
    BY <1>17, <2>1, <1>s, <1>n, <1>u DEF Heartbeat
<1>18. ASSUME NEW s \in Sockets, sockets[s].state # "closed", SocketClosed(s) PROVE Fit
  <2>1. Owner(s) \in Objects
    BY <1>own, <1>18
  <2>2. [objects[Owner(s)] EXCEPT !.websocket = None] \in Object
    BY <1>0, <2>1, PieceTypes
  <2>3. \A o \in Objects : objects'[o].websocket \in {objects[o].websocket, None}
    BY <1>0, <1>18, <1>p, <2>1, <2>2 DEF SocketClosed, Object
  <2>4. objects'[Owner(s)].websocket = None
    BY <1>0, <1>18, <2>1
    DEF SocketClosed, PersistAndReconnect, Persist, ScheduleReconnect, ClearTimers, TypeOK, Object
  <2>5. sockets'[s] = NoSocket /\ \A t \in Sockets : t # s => sockets'[t] = sockets[t]
    BY <1>0, <1>18 DEF SocketClosed, TypeOK
  <2>6. \A o \in Objects : objects'[o].websocket # None => objects'[o].websocket # s
    BY <1>0, <2>3, <2>4 DEF SocketsFit, Owner
  <2>7. SocketsFit'
    <3>1. NoSocket.state = "closed" /\ ~NoSocket.ready
      BY DEF NoSocket
    <3>2. \A o \in Objects : objects'[o].websocket # None =>
            /\ sockets'[objects'[o].websocket].owner = o
            /\ sockets'[objects'[o].websocket].state # "closed"
      <4> SUFFICES ASSUME NEW o \in Objects, objects'[o].websocket # None
                   PROVE  /\ sockets'[objects'[o].websocket].owner = o
                          /\ sockets'[objects'[o].websocket].state # "closed"
        OBVIOUS
      <4>1. objects'[o].websocket = objects[o].websocket /\ objects'[o].websocket # s
            /\ objects[o].websocket \in Sockets
        BY <1>0, <2>3, <2>6, ConstantTypes
      <4> QED
        BY <1>0, <2>5, <4>1 DEF SocketsFit
    <3> QED
      BY <1>0, <2>5, <3>1, <3>2 DEF SocketsFit
  <2>8. SessionsFit'
    BY <2>5, <1>n DEF NoSocket
  <2> QED
    BY <1>18, <2>7, <2>8, <1>u DEF SocketClosed
<1>19. ASSUME NEW s \in Sockets, SocketBreaks(s) \/ CloseCompletes(s) \/ PlatformTimesOut(s) PROVE Fit
  BY <1>18, <1>19, TimesOutCloses DEF SocketBreaks, CloseCompletes, Neglected
<1>20. ASSUME Crash PROVE Fit
  BY <1>0, <1>20, ConstantTypes
  DEF Crash, SocketsFit, SessionsFit, HandlersFit, NoObject, NoSocket, Idle
<1>21. ASSUME UNCHANGED <<objects, sockets, handlers>> PROVE Fit
  BY <1>0, <1>21 DEF SocketsFit, SessionsFit, HandlersFit
<1> QED
  BY <1>1, <1>2, <1>3, <1>4, <1>5, <1>6, <1>7, <1>9, <1>10, <1>11, <1>12, <1>13, <1>14, <1>15, <1>16,
     <1>17, <1>19, <1>20, <1>21
  DEF Next, Ask, Handshake, Timeouts, Messages, Faults, NewEvent, MessageQueued, MessageRejected, vars

-----------------------------------------------------------------------------
(* The object is never forgotten. *)

\* Only the alarm's own handler takes the alarm away, and it is under way then or sets
\* the alarm again.
LEMMA ForgottenStep == QqInv /\ [Next]_vars => NeverForgotten'
<1> SUFFICES ASSUME QqInv, [Next]_vars PROVE NeverForgotten'
  OBVIOUS
<1> USE DEF queue, history
<1>0. TypeOK /\ NeverForgotten /\ TypeOK' /\ HandlersFit
  BY TypeStep DEF QqInv
<1>a. ASSUME wanted' = wanted \/ alarm',
             alarm => alarm' \/ handlers'[Alarm].at # "idle",
             handlers[Alarm].at # "idle" => alarm' \/ handlers'[Alarm].at # "idle"
      PROVE  NeverForgotten'
  BY <1>0, <1>a DEF NeverForgotten
<1>b. ASSUME wanted' = wanted \/ alarm', alarm' \/ UNCHANGED <<alarm, handlers>>
      PROVE  NeverForgotten'
  BY <1>a, <1>b
\* A handler's call that ends or goes on.
<1>c. ASSUME NEW h \in Handlers, NEW o, NEW at \in {"config", "gateway"}, NEW what, Proceed(h, at, o, what),
             wanted' = wanted, alarm' = (alarm /\ h # Alarm) \/ alarm' = alarm
      PROVE  NeverForgotten'
  BY <1>0, <1>c, <1>a, ConstantTypes DEF Proceed, TypeOK
<1>d. ASSUME NEW h \in Handlers, handlers[h].at = "idle" \/ h # Alarm, Finish(h),
             wanted' = wanted, alarm' = alarm
      PROVE  NeverForgotten'
  BY <1>0, <1>d, <1>a, ConstantTypes DEF Finish, TypeOK, Idle
<1>e. ASSUME NEW h \in Handlers, NEW what \in {"connect", "disconnect"}, what = "connect" \/ h # Alarm,
             h \in Requests \cup {Alarm}, Enter(h, what)
      PROVE  NeverForgotten'
  <2>1. CASE current # None /\ what = "connect" /\ IsConnected(current)
    BY <1>e, <2>1, <1>b DEF Enter, Perform, EnsureConnected, SetsAlarm
  <2>2. CASE current # None /\ what = "connect" /\ ~IsConnected(current)
    BY <1>e, <2>2, <1>c DEF Enter, Perform, EnsureConnected, BeginConnect
  <2>3. CASE current # None /\ what = "disconnect"
    BY <1>e, <2>3, <1>d DEF Enter, Perform, Close
  <2>4. CASE current = None
    BY <1>e, <2>4, <1>c DEF Enter
  <2> QED
    BY <2>1, <2>2, <2>3, <2>4
<1>1. ASSUME NEW h \in Handlers, NEW what \in {"connect", "disconnect"}, Fetch(h, what) PROVE NeverForgotten'
  BY <1>1, <1>e, ConstantTypes DEF Fetch
<1>2. ASSUME AlarmFires PROVE NeverForgotten'
  BY <1>2, <1>e, ConstantTypes DEF AlarmFires
<1>3. ASSUME NEW h \in Handlers, MakeSession(h) PROVE NeverForgotten'
  <2>1. CASE handlers[h].what = "connect"
    BY <1>3, <2>1, <1>c DEF MakeSession, BeginConnect
  <2>2. CASE handlers[h].what # "connect"
    BY <1>0, <1>3, <2>2, <1>d DEF MakeSession, Close, HandlersFit
  <2> QED
    BY <2>1, <2>2
<1>4. ASSUME NEW h \in Handlers, OpenSocket(h) PROVE NeverForgotten'
  <2>1. CASE h \in Timers
    <3>1. h # Alarm /\ ~SetsAlarm(h)
      BY <2>1, ConstantTypes DEF SetsAlarm
    <3>2. alarm' = alarm /\ wanted' = wanted
      BY <1>0, <1>4, <2>1, <3>1 DEF OpenSocket, TypeOK
    <3> QED
      BY <1>4, <1>d, <3>1, <3>2 DEF OpenSocket
  <2>2. CASE h \notin Timers
    BY <1>4, <2>2, <1>b DEF OpenSocket, SetsAlarm, Handlers
  <2> QED
    BY <2>1, <2>2
<1>5. ASSUME NEW o \in Objects, ReconnectTimerFires(o) PROVE NeverForgotten'
  BY <1>5, <1>c, ConstantTypes DEF ReconnectTimerFires, BeginConnect
<1>6. ASSUME NEW h \in Handlers, ConnectFails(h) PROVE NeverForgotten'
  <2>1. CASE h \in Timers
    BY <1>6, <2>1, <1>b DEF ConnectFails, PersistAndReconnect
  <2>2. CASE h \notin Timers
    <3>1. CASE h = Alarm
      BY <1>6, <2>2, <3>1, <1>b DEF ConnectFails
    <3>2. CASE h # Alarm
      BY <1>0, <1>6, <2>2, <3>2, <1>d DEF ConnectFails, TypeOK
    <3> QED
      BY <3>1, <3>2
  <2> QED
    BY <2>1, <2>2
<1>7. ASSUME NEW s \in Sockets,
             SocketClosed(s) \/ InvalidSession(s) \/ ReconnectRequested(s)
      PROVE  NeverForgotten'
  BY <1>7, <1>b DEF SocketClosed, InvalidSession, ReconnectRequested, PersistAndReconnect
<1>8. ASSUME NEW s \in Sockets, SocketBreaks(s) \/ CloseCompletes(s) \/ PlatformTimesOut(s)
      PROVE  NeverForgotten'
  BY <1>7, <1>8, TimesOutCloses DEF SocketBreaks, CloseCompletes
<1>9. ASSUME Crash PROVE NeverForgotten'
  BY <1>0, <1>9, <1>a DEF Crash, TypeOK
<1>10. ASSUME UNCHANGED <<alarm, handlers, wanted>> PROVE NeverForgotten'
  BY <1>10, <1>b
<1> QED
  BY <1>1, <1>2, <1>3, <1>4, <1>5, <1>6, <1>7, <1>8, <1>9, <1>10
  DEF Next, Ask, Handshake, Timeouts, Messages, Faults, NewEvent, MessageQueued, MessageRejected, vars,
      TokenArrives, TokenFails, SocketOpens, Ready, AcceptResume, Resumed, Dispatch, Heartbeat

-----------------------------------------------------------------------------
(* A ready socket is kept alive or replaced. *)

LEMMA AliveStep == QqInv /\ [Next]_vars => ReadyIsAlive'
<1> SUFFICES ASSUME QqInv, [Next]_vars PROVE ReadyIsAlive'
  OBVIOUS
<1> USE DEF queue, history
<1>0. /\ TypeOK /\ SocketsFit /\ HandlersFit /\ ReadyIsAlive /\ TypeOK'
      /\ \A o \in Objects : objects[o] \in Object /\ objects[o].websocket \in Sockets \cup {None}
      /\ \A s \in Sockets : sockets[s] \in Socket
  BY TypeStep DEF TypeOK, QqInv, Object
<1>own. \A s \in Sockets : sockets[s].state # "closed" => Owner(s) \in Objects
  BY <1>0 DEF SocketsFit, Owner
\* What no step undoes, said of one object.
<1> DEFINE Replaced(o) == \E h \in Timers : handlers[h].at = "gateway" /\ handlers[h].object = o
           ReadyNow(o) == IsOpen(o) /\ sockets[objects[o].websocket].ready
<1>a. ASSUME \A o \in Objects : ReadyNow(o)' =>
               \/ objects'[o].heartbeat \/ objects'[o].reconnect \/ Replaced(o)'
               \/ /\ ReadyNow(o)
                  /\ Replaced(o) => Replaced(o)'
                  /\ objects[o].heartbeat => objects'[o].heartbeat
                  /\ objects[o].reconnect => objects'[o].reconnect
      PROVE  ReadyIsAlive'
  BY <1>0, <1>a DEF ReadyIsAlive
\* One object is assigned: its timers stay, are set, or it has no open socket or a timer
\* under way.
<1>b. ASSUME NEW o \in Objects, NEW x, objects' = [objects EXCEPT ![o] = x],
             x.websocket \in {objects[o].websocket, None},
             \/ x.heartbeat \/ x.reconnect \/ Replaced(o)' \/ x.websocket = None \/ ~IsOpen(o)
             \/ x.heartbeat = objects[o].heartbeat /\ x.reconnect = objects[o].reconnect,
             \A p \in Objects : Replaced(p) => Replaced(p)',
             \A s \in Sockets :
               \/ sockets'[s].owner = o /\ (x.heartbeat \/ x.reconnect)
               \/ sockets'[s].state = "open" /\ sockets'[s].ready =>
                    sockets[s].state = "open" /\ sockets[s].ready
      PROVE  ReadyIsAlive'
  <2> SUFFICES ASSUME NEW p \in Objects, ReadyNow(p)'
               PROVE  \/ objects'[p].heartbeat \/ objects'[p].reconnect \/ Replaced(p)'
                      \/ /\ ReadyNow(p)
                         /\ Replaced(p) => Replaced(p)'
                         /\ objects[p].heartbeat => objects'[p].heartbeat
                         /\ objects[p].reconnect => objects'[p].reconnect
    BY <1>a
  <2> DEFINE s == objects'[p].websocket
  <2>1. s # None /\ s \in Sockets /\ sockets'[s].state = "open" /\ sockets'[s].ready
    BY <1>0 DEF IsOpen, TypeOK, Object
  <2>2. sockets'[s].owner = p
    BY <1>0, FitStep, <2>1 DEF SocketsFit
  <2>3. CASE p = o
    <3>1. objects'[p] = x
      BY <1>0, <1>b, <2>3 DEF TypeOK
    <3>2. s = objects[p].websocket
      BY <1>b, <2>1, <2>3, <3>1
    <3>3. CASE x.heartbeat \/ x.reconnect
      BY <3>1, <3>3
    <3>4. CASE ~(x.heartbeat \/ x.reconnect)
      <4>1. sockets[s].state = "open" /\ sockets[s].ready
        BY <1>b, <2>1, <3>4
      <4>2. ReadyNow(p)
        BY <2>1, <3>2, <4>1 DEF IsOpen
      <4> QED
        BY <1>b, <2>1, <2>3, <3>1, <3>2, <3>4, <4>2
    <3> QED
      BY <3>3, <3>4
  <2>4. CASE p # o
    <3>1. objects'[p] = objects[p]
      BY <1>0, <1>b, <2>4 DEF TypeOK
    <3>2. sockets[s].state = "open" /\ sockets[s].ready
      BY <1>b, <2>1, <2>2, <2>4
    <3>3. ReadyNow(p)
      BY <2>1, <3>1, <3>2 DEF IsOpen
    <3> QED
      BY <1>b, <3>1, <3>3
  <2> QED
    BY <2>3, <2>4
<1> HIDE DEF ReadyNow
\* No socket becomes ready.
<1>k. ASSUME UNCHANGED sockets
      PROVE  \A s \in Sockets : sockets'[s].state = "open" /\ sockets'[s].ready =>
                                  sockets[s].state = "open" /\ sockets[s].ready
  BY <1>k
<1>r. ASSUME UNCHANGED handlers PROVE \A p \in Objects : Replaced(p) => Replaced(p)'
  BY <1>r
<1>f. ASSUME NEW h \in Handlers, h \notin Timers, Finish(h)
      PROVE  \A p \in Objects : Replaced(p) => Replaced(p)'
  BY <1>0, <1>f, ConstantTypes DEF Finish, TypeOK
<1>g. ASSUME NEW h \in Handlers, NEW at, NEW o, NEW what, Proceed(h, at, o, what),
             h \notin Timers \/ handlers[h].at = "idle"
      PROVE  \A p \in Objects : Replaced(p) => Replaced(p)'
  BY <1>0, <1>g, ConstantTypes DEF Proceed, TypeOK
<1> HIDE DEF Replaced
<1>e. ASSUME NEW h \in Handlers, h \notin Timers, NEW o \in Objects, EnsureConnected(h, o) \/ Close(h, o)
      PROVE  ReadyIsAlive'
  <2>1. CASE EnsureConnected(h, o) /\ IsConnected(o)
    <3>1. objects' = [objects EXCEPT ![o] = RestoreSession(objects[o])]
      BY <2>1 DEF EnsureConnected
    <3>2. /\ RestoreSession(objects[o]).websocket = objects[o].websocket
          /\ RestoreSession(objects[o]).heartbeat = objects[o].heartbeat
          /\ RestoreSession(objects[o]).reconnect = objects[o].reconnect
      BY <1>0 DEF RestoreSession, Object
    <3>3. UNCHANGED sockets /\ \A p \in Objects : Replaced(p) => Replaced(p)'
      BY <1>e, <1>f, <2>1 DEF EnsureConnected
    <3> QED
      BY <1>b, <1>k, <3>1, <3>2, <3>3
  <2>2. CASE EnsureConnected(h, o) /\ ~IsConnected(o)
    <3> DEFINE x == ClearTimers(RestoreSession(objects[o]))
    <3>1. objects' = [objects EXCEPT ![o] = x]
      BY <2>2 DEF EnsureConnected, BeginConnect, Persist
    <3>2. x.websocket = objects[o].websocket
      BY <1>0 DEF RestoreSession, ClearTimers, Object
    <3>3. UNCHANGED sockets /\ \A p \in Objects : Replaced(p) => Replaced(p)'
      BY <1>e, <1>g, <2>2 DEF EnsureConnected, BeginConnect
    <3>4. ~IsOpen(o)
      BY <2>2 DEF IsOpen, IsConnected
    <3> QED
      BY <1>b, <1>k, <3>1, <3>2, <3>3, <3>4
  <2>3. CASE Close(h, o)
    <3> DEFINE x == [ClearTimers(objects[o]) EXCEPT !.websocket = None]
    <3>1. objects' = [objects EXCEPT ![o] = x]
      BY <2>3 DEF Close, Persist
    <3>2. x.websocket = None
      BY <1>0 DEF ClearTimers, Object
    <3>3. \A s \in Sockets : sockets'[s] = sockets[s] \/ sockets'[s] = [sockets[s] EXCEPT !.state = "closing"]
      BY <2>3 DEF Close
    <3>4. \A s \in Sockets : sockets'[s] = sockets[s] \/ sockets'[s].state = "closing"
      BY <1>0, <3>3 DEF Socket
    <3>5. \A p \in Objects : Replaced(p) => Replaced(p)'
      BY <1>e, <1>f, <2>3 DEF Close
    <3> QED
      BY <1>b, <3>1, <3>2, <3>4, <3>5
  <2> QED
    BY <1>e, <2>1, <2>2, <2>3
<1>n. ASSUME UNCHANGED <<objects, sockets>>, \A p \in Objects : Replaced(p) => Replaced(p)'
      PROVE  ReadyIsAlive'
  <2>1. \A o \in Objects : ReadyNow(o)' = ReadyNow(o)
    BY <1>n DEF ReadyNow, IsOpen
  <2> QED
    BY <1>a, <1>n, <2>1
<1>0a. ASSUME NEW h \in Handlers, h \notin Timers, NEW what \in {"connect", "disconnect"}, Enter(h, what)
       PROVE  ReadyIsAlive'
  <2>1. CASE current # None
    <3>1. current \in Objects
      BY <2>1, <1>0 DEF TypeOK
    <3> QED
      BY <1>0a, <2>1, <3>1, <1>e DEF Enter, Perform
  <2>2. CASE current = None
    BY <1>0a, <2>2, <1>g, <1>n DEF Enter
  <2> QED
    BY <2>1, <2>2
<1>1. ASSUME NEW h \in Handlers, NEW what \in {"connect", "disconnect"}, Fetch(h, what) PROVE ReadyIsAlive'
  BY <1>0a, <1>1, ConstantTypes DEF Fetch
<1>2. ASSUME AlarmFires PROVE ReadyIsAlive'
  BY <1>0a, <1>2, ConstantTypes DEF AlarmFires
<1>3. ASSUME NEW h \in Handlers, MakeSession(h) PROVE ReadyIsAlive'
  <2>0. h \notin Timers
    BY <1>0, <1>3 DEF MakeSession, HandlersFit
  <2>1. PICK o \in Objects :
          /\ objects[o] = NoObject
          /\ IF handlers[h].what = "connect"
               THEN BeginConnect(h, o, RestoreSession(NoObject)) /\ UNCHANGED sockets
               ELSE Close(h, o)
    BY <1>3 DEF MakeSession
  <2>2. CASE handlers[h].what = "connect"
    <3> DEFINE x == ClearTimers(RestoreSession(NoObject))
    <3>1. objects' = [objects EXCEPT ![o] = x]
      BY <2>1, <2>2 DEF BeginConnect, Persist
    <3>2. x.websocket = None
      BY DEF RestoreSession, ClearTimers, NoObject
    <3>3. UNCHANGED sockets /\ \A p \in Objects : Replaced(p) => Replaced(p)'
      BY <2>0, <2>1, <2>2, <1>g DEF BeginConnect
    <3> QED
      BY <1>b, <1>k, <3>1, <3>2, <3>3
  <2>3. CASE handlers[h].what # "connect"
    BY <2>0, <2>1, <2>3, <1>e
  <2> QED
    BY <2>2, <2>3
<1>4. ASSUME NEW h \in Handlers, OpenSocket(h) PROVE ReadyIsAlive'
  <2>0. handlers[h].object \in Objects
    BY <1>0, <1>4 DEF OpenSocket, HandlersFit
  <2>1. PICK o \in Objects : o = handlers[h].object
    BY <2>0
  <2>2. PICK s \in Sockets :
          /\ sockets[s].state = "closed"
          /\ sockets' = [sockets EXCEPT ![s] = [NoSocket EXCEPT !.owner = o, !.state = "connecting"]]
          /\ Persist(o, [objects[o] EXCEPT !.websocket = s])
    BY <1>4, <2>1 DEF OpenSocket
  <2>3. /\ sockets'[s].state = "connecting"
        /\ \A t \in Sockets : t # s => sockets'[t] = sockets[t]
    BY <1>0, <2>2 DEF TypeOK, NoSocket
  <2>4. /\ objects'[o].websocket = s
        /\ \A p \in Objects : p # o => objects'[p] = objects[p]
    BY <1>0, <2>1, <2>2 DEF TypeOK, Persist, Object
  <2>5. \A p \in Objects : p # o => (Replaced(p) => Replaced(p)')
    BY <1>0, <1>4, <2>1, ConstantTypes DEF OpenSocket, Finish, Replaced, TypeOK
  <2>6. ~ReadyNow(o)'
    BY <2>3, <2>4 DEF ReadyNow, IsOpen
  <2>7. \A p \in Objects : p # o /\ ReadyNow(p)' => ReadyNow(p)
    BY <1>0, <2>3, <2>4, FitStep DEF ReadyNow, IsOpen, SocketsFit, TypeOK, Object
  <2> QED
    BY <1>a, <2>4, <2>5, <2>6, <2>7
<1>5. ASSUME NEW o \in Objects, ReconnectTimerFires(o) PROVE ReadyIsAlive'
  <2>1. PICK h \in Timers : handlers[h].at = "idle" /\ BeginConnect(h, o, objects[o])
    BY <1>5 DEF ReconnectTimerFires
  <2>2. objects' = [objects EXCEPT ![o] = ClearTimers(objects[o])]
    BY <2>1 DEF BeginConnect, Persist
  <2>3. ClearTimers(objects[o]).websocket = objects[o].websocket
    BY <1>0 DEF ClearTimers, Object
  <2>4. \A p \in Objects : Replaced(p) => Replaced(p)'
    BY <1>g, <2>1, ConstantTypes DEF BeginConnect
  <2>5. Replaced(o)'
    BY <1>0, <2>1, ConstantTypes DEF BeginConnect, Proceed, Replaced, TypeOK
  <2> QED
    BY <1>b, <1>k, <1>5, <2>2, <2>3, <2>4, <2>5 DEF ReconnectTimerFires
\* An object that is given a timer.
<1>t. ASSUME NEW o \in Objects, NEW x \in Object, x.websocket \in {objects[o].websocket, None},
             objects' = [objects EXCEPT ![o] = ScheduleReconnect(x)],
             \A p \in Objects : p # o => (Replaced(p) => Replaced(p)'),
             \A s \in Sockets :
               sockets'[s].state = "open" /\ sockets'[s].ready =>
                 sockets[s].state = "open" /\ sockets[s].ready
      PROVE  ReadyIsAlive'
  <2>1. ScheduleReconnect(x).reconnect /\ ScheduleReconnect(x).websocket = x.websocket
    BY DEF ScheduleReconnect, ClearTimers, Object
  <2>2. objects'[o] = ScheduleReconnect(x) /\ \A p \in Objects : p # o => objects'[p] = objects[p]
    BY <1>0, <1>t DEF TypeOK
  <2>3. \A p \in Objects : p # o /\ ReadyNow(p)' => ReadyNow(p)
    BY <1>0, <1>t, <2>2 DEF ReadyNow, IsOpen
  <2> QED
    BY <1>a, <1>t, <2>1, <2>2, <2>3
<1>6. ASSUME NEW h \in Handlers, ConnectFails(h) PROVE ReadyIsAlive'
  <2>1. CASE h \in Timers
    <3>0. handlers[h].object \in Objects
      BY <1>0, <1>6, <2>1 DEF ConnectFails, HandlersFit, TypeOK, Handler
    <3>1. PICK o \in Objects : o = handlers[h].object
      BY <3>0
    <3>2. objects' = [objects EXCEPT ![o] = ScheduleReconnect(objects[o])]
      BY <1>6, <2>1, <3>1 DEF ConnectFails, PersistAndReconnect, Persist
    <3>3. \A p \in Objects : p # o => (Replaced(p) => Replaced(p)')
      BY <1>0, <1>6, <3>1, ConstantTypes DEF ConnectFails, Finish, Replaced, TypeOK
    <3>4. UNCHANGED sockets
      BY <1>6 DEF ConnectFails
    <3> QED
      BY <1>0, <1>k, <1>t, <3>2, <3>3, <3>4
  <2>2. CASE h \notin Timers
    BY <1>6, <2>2, <1>f, <1>n DEF ConnectFails
  <2> QED
    BY <2>1, <2>2
<1>7. ASSUME NEW s \in Sockets, SocketOpens(s) PROVE ReadyIsAlive'
  <2>1. Owner(s) \in Objects
    BY <1>own, <1>7 DEF SocketOpens
  <2> DEFINE x == [objects[Owner(s)] EXCEPT !.greetings = @ + 1]
  <2>2. objects' = [objects EXCEPT ![Owner(s)] = x]
    BY <1>7 DEF SocketOpens, Owner
  <2>3. /\ x.websocket = objects[Owner(s)].websocket /\ x.heartbeat = objects[Owner(s)].heartbeat
        /\ x.reconnect = objects[Owner(s)].reconnect
    BY <1>0, <2>1 DEF Object
  <2>4. sockets'[s].ready = sockets[s].ready /\ \A t \in Sockets : t # s => sockets'[t] = sockets[t]
    BY <1>0, <1>7 DEF SocketOpens, TypeOK, Socket
  <2>5. ~sockets[s].ready
    BY <1>0, <1>7 DEF SocketOpens, SocketsFit
  <2>6. \A t \in Sockets : sockets'[t].state = "open" /\ sockets'[t].ready =>
                             sockets[t].state = "open" /\ sockets[t].ready
    BY <2>4, <2>5
  <2>7. \A p \in Objects : Replaced(p) => Replaced(p)'
    BY <1>r, <1>7 DEF SocketOpens
  <2> HIDE DEF x
  <2> QED
    BY <1>b, <2>1, <2>2, <2>3, <2>6, <2>7
<1>8. ASSUME NEW o \in Objects, objects[o].greetings > 0,
             objects' = [objects EXCEPT ![o].greetings = @ - 1], UNCHANGED handlers,
             \A s \in Sockets : sockets'[s].state = "open" /\ sockets'[s].ready =>
                                  sockets[s].state = "open" /\ sockets[s].ready
      PROVE  ReadyIsAlive'
  <2> DEFINE x == [objects[o] EXCEPT !.greetings = @ - 1]
  <2>1. objects' = [objects EXCEPT ![o] = x]
    BY <1>8
  <2>2. /\ x.websocket = objects[o].websocket /\ x.heartbeat = objects[o].heartbeat
        /\ x.reconnect = objects[o].reconnect
    BY <1>0 DEF Object
  <2> HIDE DEF x
  <2> QED
    BY <1>b, <1>r, <1>8, <2>1, <2>2
<1>9. ASSUME NEW o \in Objects, TokenArrives(o) PROVE ReadyIsAlive'
  <2>1. ASSUME NEW s \in Sockets
        PROVE  sockets'[s].state = sockets[s].state /\ sockets'[s].ready = sockets[s].ready
    BY <1>0, <1>9, <2>1 DEF TokenArrives, TypeOK, Socket
  <2> QED
    BY <1>8, <1>9, <2>1 DEF TokenArrives
<1>10. ASSUME NEW o \in Objects, TokenFails(o) PROVE ReadyIsAlive'
  BY <1>8, <1>k, <1>10 DEF TokenFails
<1>11. ASSUME NEW s \in Sockets, Ready(s) PROVE ReadyIsAlive'
  <2>1. Owner(s) \in Objects
    BY <1>own, <1>11 DEF Ready
  <2>2. PICK k \in Sessions :
          /\ sockets' = [sockets EXCEPT ![s].asked = None, ![s].session = k, ![s].at = 1,
                                        ![s].ready = TRUE]
          /\ Persist(Owner(s), [StartHeartbeat(objects[Owner(s)]) EXCEPT !.id = k, !.seq = 1])
    BY <1>11 DEF Ready
  <2> DEFINE x == [StartHeartbeat(objects[Owner(s)]) EXCEPT !.id = k, !.seq = 1]
  <2>3. objects' = [objects EXCEPT ![Owner(s)] = x]
    BY <2>2 DEF Persist
  <2>4. x.heartbeat /\ x.websocket = objects[Owner(s)].websocket
    BY <1>0, <2>1 DEF StartHeartbeat, Object
  <2>5. sockets'[s].owner = Owner(s) /\ \A t \in Sockets : t # s => sockets'[t] = sockets[t]
    BY <1>0, <2>2 DEF TypeOK, Socket, Owner
  <2>6. \A t \in Sockets : \/ sockets'[t].owner = Owner(s) /\ (x.heartbeat \/ x.reconnect)
                           \/ sockets'[t].state = "open" /\ sockets'[t].ready =>
                                sockets[t].state = "open" /\ sockets[t].ready
    <3> HIDE DEF x
    <3> SUFFICES ASSUME NEW t \in Sockets
                 PROVE  t = s \/ sockets'[t] = sockets[t]
      BY <2>4, <2>5
    <3> QED
      BY <2>5
  <2>7. \A p \in Objects : Replaced(p) => Replaced(p)'
    BY <1>r, <1>11 DEF Ready
  <2> HIDE DEF x
  <2> QED
    BY <1>b, <2>1, <2>3, <2>4, <2>6, <2>7
<1>12. ASSUME NEW s \in Sockets, Resumed(s) PROVE ReadyIsAlive'
  <2>1. Owner(s) \in Objects
    BY <1>own, <1>12 DEF Resumed, Live
  <2> DEFINE x == OnResumed(objects[Owner(s)])
  <2>3. objects' = [objects EXCEPT ![Owner(s)] = x]
    BY <1>12 DEF Resumed, Persist
  <2>4. x.heartbeat /\ x.websocket = objects[Owner(s)].websocket
    BY <1>0, <2>1 DEF OnResumed, StartHeartbeat, Object
  <2>5. sockets'[s].owner = Owner(s) /\ \A t \in Sockets : t # s => sockets'[t] = sockets[t]
    BY <1>0, <1>12 DEF Resumed, TypeOK, Socket, Owner
  <2>6. \A t \in Sockets : \/ sockets'[t].owner = Owner(s) /\ (x.heartbeat \/ x.reconnect)
                           \/ sockets'[t].state = "open" /\ sockets'[t].ready =>
                                sockets[t].state = "open" /\ sockets[t].ready
    <3> HIDE DEF x
    <3> SUFFICES ASSUME NEW t \in Sockets
                 PROVE  t = s \/ sockets'[t] = sockets[t]
      BY <2>4, <2>5
    <3> QED
      BY <2>5
  <2>7. \A p \in Objects : Replaced(p) => Replaced(p)'
    BY <1>r, <1>12 DEF Resumed
  <2> HIDE DEF x
  <2> QED
    BY <1>b, <2>1, <2>3, <2>4, <2>6, <2>7
<1>13. ASSUME NEW s \in Sockets, AcceptResume(s) PROVE ReadyIsAlive'
  <2>1. \A t \in Sockets : sockets'[t].state = sockets[t].state /\ sockets'[t].ready = sockets[t].ready
    BY <1>0, <1>13 DEF AcceptResume, TypeOK, Socket
  <2>2. \A o \in Objects : ReadyNow(o)' = ReadyNow(o)
    BY <1>0, <1>13, <2>1, ConstantTypes DEF AcceptResume, ReadyNow, IsOpen
  <2> QED
    BY <1>a, <1>r, <1>13, <2>2 DEF AcceptResume
<1>14. ASSUME NEW s \in Sockets, InvalidSession(s) PROVE ReadyIsAlive'
  <2>1. Owner(s) \in Objects
    BY <1>own, <1>14 DEF InvalidSession
  <2> DEFINE x == [objects[Owner(s)] EXCEPT !.id = None, !.seq = 0]
  <2>2. x \in Object /\ x.websocket = objects[Owner(s)].websocket
    <3>1. 0 \in 0 .. MaxEvents
      BY ConstantTypes
    <3> QED
      BY <1>0, <2>1, <3>1, PieceTypes DEF Object
  <2>3. objects' = [objects EXCEPT ![Owner(s)] = ScheduleReconnect(x)]
    BY <1>14 DEF InvalidSession, PersistAndReconnect, Persist
  <2>4. \A t \in Sockets :
          \/ sockets'[t] = [sockets[t] EXCEPT !.asked = None]
          \/ sockets'[t] = [sockets[t] EXCEPT !.session = None, !.ready = FALSE]
          \/ sockets'[t] = sockets[t]
    BY <1>14 DEF InvalidSession
  <2>5. \A t \in Sockets : sockets'[t].state = "open" /\ sockets'[t].ready =>
                             sockets[t].state = "open" /\ sockets[t].ready
    BY <1>0, <2>4 DEF Socket
  <2> HIDE DEF x
  <2> QED
    BY <1>t, <1>r, <1>14, <2>1, <2>2, <2>3, <2>5 DEF InvalidSession
<1>15. ASSUME NEW s \in Sockets, ReconnectRequested(s) PROVE ReadyIsAlive'
  <2>1. Owner(s) \in Objects
    BY <1>own, <1>15 DEF ReconnectRequested, Live
  <2>2. objects' = [objects EXCEPT ![Owner(s)] = ScheduleReconnect(objects[Owner(s)])]
    BY <1>15 DEF ReconnectRequested
  <2> QED
    BY <1>0, <1>t, <1>r, <1>k, <1>15, <2>1, <2>2 DEF ReconnectRequested
<1>16. ASSUME NEW s \in Sockets, Dispatch(s) PROVE ReadyIsAlive'
  <2>1. Owner(s) \in Objects
    BY <1>own, <1>16 DEF Dispatch, Live
  <2> DEFINE x == KeepSeq(objects[Owner(s)], sockets[s].at + 1)
  <2>2. objects' = [objects EXCEPT ![Owner(s)] = x]
    BY <1>16 DEF Dispatch, Persist
  <2>3. /\ x.websocket = objects[Owner(s)].websocket /\ x.heartbeat = objects[Owner(s)].heartbeat
        /\ x.reconnect = objects[Owner(s)].reconnect
    BY <1>0, <2>1 DEF KeepSeq, Object
  <2>4. \A t \in Sockets : sockets'[t].state = sockets[t].state /\ sockets'[t].ready = sockets[t].ready
    BY <1>0, <1>16 DEF Dispatch, TypeOK, Socket
  <2> HIDE DEF x
  <2> QED
    BY <1>b, <1>r, <1>16, <2>1, <2>2, <2>3, <2>4 DEF Dispatch
<1>17. ASSUME NEW o \in Objects, Heartbeat(o) PROVE ReadyIsAlive'
  <2>1. objects' = objects
    BY <1>0, <1>17 DEF Heartbeat, Persist, TypeOK
  <2> QED
    BY <1>n, <1>r, <1>17, <2>1 DEF Heartbeat
<1>18. ASSUME NEW s \in Sockets, sockets[s].state # "closed", SocketClosed(s) PROVE ReadyIsAlive'
  <2>1. Owner(s) \in Objects
    BY <1>own, <1>18
  <2> DEFINE x == [objects[Owner(s)] EXCEPT !.websocket = None]
  <2>2. x \in Object /\ x.websocket = None
    BY <1>0, <2>1, PieceTypes DEF Object
  <2>3. objects' = [objects EXCEPT ![Owner(s)] = ScheduleReconnect(x)]
    BY <1>18 DEF SocketClosed, PersistAndReconnect, Persist
  <2>4. \A t \in Sockets : t # s => sockets'[t] = sockets[t]
    BY <1>0, <1>18 DEF SocketClosed, TypeOK
  <2>5. ~sockets'[s].ready
    BY <1>0, <1>18 DEF SocketClosed, TypeOK, NoSocket
  <2> HIDE DEF x
  <2> QED
    BY <1>t, <1>r, <1>18, <2>1, <2>2, <2>3, <2>4, <2>5 DEF SocketClosed
<1>19. ASSUME NEW s \in Sockets, SocketBreaks(s) \/ CloseCompletes(s) \/ PlatformTimesOut(s)
       PROVE  ReadyIsAlive'
  BY <1>18, <1>19, TimesOutCloses DEF SocketBreaks, CloseCompletes, Neglected
<1>20. ASSUME Crash PROVE ReadyIsAlive'
  BY <1>0, <1>20 DEF Crash, ReadyIsAlive, IsOpen, NoObject
<1>21. ASSUME UNCHANGED <<objects, sockets, handlers>> PROVE ReadyIsAlive'
  BY <1>21, <1>n, <1>r
<1> QED
  BY <1>1, <1>2, <1>3, <1>4, <1>5, <1>6, <1>7, <1>9, <1>10, <1>11, <1>12, <1>13, <1>14, <1>15, <1>16,
     <1>17, <1>19, <1>20, <1>21
  DEF Next, Ask, Handshake, Timeouts, Messages, Faults, NewEvent, MessageQueued, MessageRejected, vars

-----------------------------------------------------------------------------
(* One session object at a time. *)

\* Then whoever acts is the current object, and its session is the stored one.
LEMMA CurrentActs ==
  ASSUME QqInv, ~mixed
  PROVE  /\ \A s \in Sockets : sockets[s].state # "closed" => Owner(s) = current /\ current \in Objects
         /\ \A h \in Handlers : handlers[h].object \in Objects => handlers[h].object = current
         /\ \A o \in Objects :
              objects[o].greetings > 0 \/ objects[o].reconnect \/ objects[o].heartbeat => o = current
         /\ current \in Objects => objects[current].id = stored.id /\ objects[current].seq = stored.seq
<1>1. OneObject /\ SocketsFit
  BY DEF QqInv
<1> QED
  BY <1>1, ConstantTypes DEF OneObject, SocketsFit, Owner, NoObject

LEMMA ObjectStep == QqInv /\ [Next]_vars => OneObject'
<1> SUFFICES ASSUME QqInv, [Next]_vars, ~mixed' PROVE OneObject'
  BY DEF OneObject
<1> USE DEF queue, history
<1>0. /\ TypeOK /\ OneObject /\ TypeOK' /\ HandlersFit
      /\ \A o \in Objects : objects[o] \in Object
      /\ \A s \in Sockets : sockets[s] \in Socket
  BY TypeStep DEF TypeOK, QqInv
\* The current object is assigned and its session persisted, or both are as they were.
<1>a. ASSUME NEW o \in Objects, ~mixed, current' = o, current = o \/ current = None,
             NEW x, objects' = [objects EXCEPT ![o] = x],
             x.id = stored'.id, x.seq = stored'.seq,
             \A s \in Sockets : sockets'[s].owner \in {sockets[s].owner, o, None},
             \A h \in Handlers : handlers'[h].object \in {handlers[h].object, o, None}
      PROVE  OneObject'
  <2>1. objects'[o] = x /\ \A p \in Objects : p # o => objects'[p] = objects[p]
    BY <1>0, <1>a DEF TypeOK
  <2>2. \A p \in Objects : p # o => p # current /\ p # None
    BY <1>a, ConstantTypes
  <2> QED
    BY <1>0, <1>a, <2>1, <2>2 DEF OneObject
<1>b. ASSUME ~mixed, UNCHANGED <<objects, stored, current>>,
             \A s \in Sockets : sockets'[s].owner = sockets[s].owner,
             \A h \in Handlers : handlers'[h].object \in {handlers[h].object, None}
      PROVE  OneObject'
  BY <1>0, <1>b, ConstantTypes DEF OneObject
<1>s. ASSUME UNCHANGED sockets, NEW o
      PROVE  \A s \in Sockets : sockets'[s].owner \in {sockets[s].owner, o, None}
  BY <1>s
<1>h. ASSUME UNCHANGED handlers, NEW o
      PROVE  \A h \in Handlers : handlers'[h].object \in {handlers[h].object, o, None}
  BY <1>h
<1>f. ASSUME NEW h \in Handlers, Finish(h)
      PROVE  \A g \in Handlers : handlers'[g].object \in {handlers[g].object, None}
  BY <1>0, <1>f DEF Finish, TypeOK, Idle
<1>g. ASSUME NEW h \in Handlers, NEW at, NEW o, NEW what, Proceed(h, at, o, what)
      PROVE  \A g \in Handlers : handlers'[g].object \in {handlers[g].object, o, None}
  BY <1>0, <1>g DEF Proceed, TypeOK
\* connect() begins, and close(), of the current object or of a new one.
<1>c. ASSUME NEW h \in Handlers, NEW o \in Objects, ~mixed, current' = o, current = o \/ current = None,
             NEW x \in Object, BeginConnect(h, o, x), UNCHANGED sockets
      PROVE  OneObject'
  <2>1. /\ objects' = [objects EXCEPT ![o] = ClearTimers(x)]
        /\ stored' = [id |-> ClearTimers(x).id, seq |-> ClearTimers(x).seq]
    BY <1>c DEF BeginConnect, Persist
  <2> QED
    BY <1>a, <1>c, <1>g, <1>s, <2>1 DEF BeginConnect
<1>d. ASSUME NEW h \in Handlers, NEW o \in Objects, ~mixed, current' = o, current = o \/ current = None,
             Close(h, o)
      PROVE  OneObject'
  <2> DEFINE x == [ClearTimers(objects[o]) EXCEPT !.websocket = None]
  <2>1. objects' = [objects EXCEPT ![o] = x] /\ stored' = [id |-> x.id, seq |-> x.seq]
    BY <1>d DEF Close, Persist
  <2>2. \A s \in Sockets : sockets'[s].owner = sockets[s].owner
    BY <1>0, <1>d DEF Close, Socket
  <2>3. \A g \in Handlers : handlers'[g].object \in {handlers[g].object, None}
    BY <1>d, <1>f DEF Close
  <2> HIDE DEF x
  <2> QED
    BY <1>a, <1>d, <2>1, <2>2, <2>3
<1>e. ASSUME ~mixed, UNCHANGED current, NEW h \in Handlers, NEW what \in {"connect", "disconnect"},
             Enter(h, what)
      PROVE  OneObject'
  <2>1. CASE current = None
    <3>1. \A g \in Handlers : handlers'[g].object \in {handlers[g].object, None}
      BY <1>e, <1>g, <2>1 DEF Enter
    <3> QED
      BY <1>b, <1>e, <2>1, <3>1 DEF Enter
  <2>2. CASE current # None
    <3>1. PICK o \in Objects : o = current
      BY <1>0, <2>2 DEF TypeOK
    <3>2. CASE what = "connect" /\ IsConnected(o)
      <4> DEFINE x == RestoreSession(objects[o])
      <4>1. objects' = [objects EXCEPT ![o] = x] /\ UNCHANGED <<stored, sockets>> /\ Finish(h)
        BY <1>e, <2>2, <3>1, <3>2 DEF Enter, Perform, EnsureConnected
      <4>2. x.id = stored.id /\ x.seq = stored.seq
        BY <1>0 DEF RestoreSession, Object
      <4> HIDE DEF x
      <4> QED
        BY <1>a, <1>e, <1>f, <1>s, <3>1, <4>1, <4>2
    <3>3. CASE what = "connect" /\ ~IsConnected(o)
      <4>1. BeginConnect(h, o, RestoreSession(objects[o])) /\ UNCHANGED sockets
        BY <1>e, <2>2, <3>1, <3>3 DEF Enter, Perform, EnsureConnected
      <4>2. RestoreSession(objects[o]) \in Object
        BY <1>0, PieceTypes
      <4> QED
        BY <1>c, <1>e, <3>1, <4>1, <4>2
    <3>4. CASE what = "disconnect"
      <4>1. Close(h, o)
        BY <1>e, <2>2, <3>1, <3>4 DEF Enter, Perform
      <4> QED
        BY <1>d, <1>e, <3>1, <4>1
    <3> QED
      BY <3>2, <3>3, <3>4
  <2> QED
    BY <2>1, <2>2
<1>1. ASSUME NEW h \in Handlers, NEW what \in {"connect", "disconnect"}, Fetch(h, what) PROVE OneObject'
  BY <1>e, <1>1 DEF Fetch
<1>2. ASSUME AlarmFires PROVE OneObject'
  BY <1>e, <1>2, ConstantTypes DEF AlarmFires
<1>3. ASSUME NEW h \in Handlers, MakeSession(h) PROVE OneObject'
  <2>0. ~mixed /\ current = None
    BY <1>3 DEF MakeSession
  <2>1. PICK o \in Objects :
          /\ current' = o
          /\ IF handlers[h].what = "connect"
               THEN BeginConnect(h, o, RestoreSession(NoObject)) /\ UNCHANGED sockets
               ELSE Close(h, o)
    BY <1>3 DEF MakeSession
  <2>2. CASE handlers[h].what = "connect"
    <3>1. RestoreSession(NoObject) \in Object
      BY <1>0, EmptyTypes, PieceTypes
    <3> QED
      BY <1>c, <2>0, <2>1, <2>2, <3>1
  <2>3. CASE handlers[h].what # "connect"
    BY <1>d, <2>0, <2>1, <2>3
  <2> QED
    BY <2>2, <2>3
<1>4. ASSUME NEW h \in Handlers, OpenSocket(h) PROVE OneObject'
  <2>0. ~mixed /\ handlers[h].object \in Objects
    BY <1>0, <1>4 DEF OpenSocket, HandlersFit
  <2>1. PICK o \in Objects : o = handlers[h].object /\ o = current /\ current' = o
    BY <1>4, <2>0, CurrentActs DEF OpenSocket
  <2>2. PICK s \in Sockets :
          /\ sockets' = [sockets EXCEPT ![s] = [NoSocket EXCEPT !.owner = o, !.state = "connecting"]]
          /\ Persist(o, [objects[o] EXCEPT !.websocket = s])
    BY <1>4, <2>1 DEF OpenSocket
  <2> DEFINE x == [objects[o] EXCEPT !.websocket = s]
  <2>3. objects' = [objects EXCEPT ![o] = x] /\ stored' = [id |-> x.id, seq |-> x.seq]
    BY <2>2 DEF Persist
  <2>4. \A t \in Sockets : sockets'[t].owner \in {sockets[t].owner, o, None}
    BY <1>0, <2>2 DEF TypeOK, NoSocket
  <2>5. \A g \in Handlers : handlers'[g].object \in {handlers[g].object, None}
    BY <1>4, <1>f DEF OpenSocket
  <2> HIDE DEF x
  <2> QED
    BY <1>a, <2>0, <2>1, <2>3, <2>4, <2>5
<1>5. ASSUME NEW o \in Objects, ReconnectTimerFires(o) PROVE OneObject'
  <2>1. ~mixed /\ o = current
    BY <1>5, CurrentActs DEF ReconnectTimerFires
  <2>2. PICK h \in Timers : BeginConnect(h, o, objects[o])
    BY <1>5 DEF ReconnectTimerFires
  <2> QED
    BY <1>0, <1>c, <1>5, <2>1, <2>2, ConstantTypes DEF ReconnectTimerFires
\* A step of a socket or timer of the current object.
<1>p. ASSUME ~mixed, NEW o \in Objects, o = current, UNCHANGED current, NEW x,
             Persist(o, x) \/ PersistAndReconnect(o, x),
             \A s \in Sockets : sockets'[s].owner \in {sockets[s].owner, o, None},
             \A h \in Handlers : handlers'[h].object \in {handlers[h].object, o, None}
      PROVE  OneObject'
  <2>1. PICK y : objects' = [objects EXCEPT ![o] = y] /\ stored' = [id |-> y.id, seq |-> y.seq]
    BY <1>p DEF Persist, PersistAndReconnect
  <2> QED
    BY <1>a, <1>p, <2>1
<1>6. ASSUME NEW h \in Handlers, ConnectFails(h) PROVE OneObject'
  <2>0. ~mixed /\ \A g \in Handlers : handlers'[g].object \in {handlers[g].object, None}
    BY <1>6, <1>f DEF ConnectFails
  <2>1. CASE h \in Timers
    <3>1. handlers[h].object \in Objects
      BY <1>0, <1>6, <2>1 DEF ConnectFails, HandlersFit, TypeOK, Handler
    <3>2. PICK o \in Objects : o = handlers[h].object /\ o = current
      BY <2>0, <3>1, CurrentActs
    <3> QED
      BY <1>p, <1>s, <1>6, <2>0, <2>1, <3>2 DEF ConnectFails
  <2>2. CASE h \notin Timers
    BY <1>6, <1>b, <2>0, <2>2 DEF ConnectFails
  <2> QED
    BY <2>1, <2>2
\* Only the timers and greetings of the object change.
<1>t. ASSUME ~mixed, NEW o \in Objects, o = current, UNCHANGED <<current, stored, handlers>>,
             NEW x, objects' = [objects EXCEPT ![o] = x], x.id = objects[o].id, x.seq = objects[o].seq,
             \A s \in Sockets : sockets'[s].owner = sockets[s].owner
      PROVE  OneObject'
  <2>1. x.id = stored'.id /\ x.seq = stored'.seq
    BY <1>t, CurrentActs
  <2> QED
    BY <1>a, <1>h, <1>t, <2>1
<1>7. ASSUME NEW s \in Sockets, SocketOpens(s) PROVE OneObject'
  <2>1. ~mixed /\ Owner(s) = current /\ current \in Objects /\ UNCHANGED current
    BY <1>7, CurrentActs DEF SocketOpens
  <2> DEFINE x == [objects[current] EXCEPT !.greetings = @ + 1]
  <2>2. objects' = [objects EXCEPT ![current] = x]
    BY <1>7, <2>1 DEF SocketOpens, Owner
  <2>3. x.id = objects[current].id /\ x.seq = objects[current].seq
    BY <1>0, <2>1 DEF Object
  <2>4. \A t \in Sockets : sockets'[t].owner = sockets[t].owner
    BY <1>0, <1>7 DEF SocketOpens, TypeOK, Socket
  <2> HIDE DEF x
  <2> QED
    BY <1>t, <1>7, <2>1, <2>2, <2>3, <2>4 DEF SocketOpens
<1>8. ASSUME NEW o \in Objects, TokenArrives(o) \/ TokenFails(o) PROVE OneObject'
  <2>1. ~mixed /\ o = current /\ UNCHANGED <<current, stored, handlers>>
    BY <1>8, CurrentActs DEF TokenArrives, TokenFails
  <2> DEFINE x == [objects[o] EXCEPT !.greetings = @ - 1]
  <2>2. objects' = [objects EXCEPT ![o] = x]
    BY <1>8 DEF TokenArrives, TokenFails
  <2>3. x.id = objects[o].id /\ x.seq = objects[o].seq
    BY <1>0 DEF Object
  <2>4. \A t \in Sockets : sockets'[t].owner = sockets[t].owner
    BY <1>0, <1>8 DEF TokenArrives, TokenFails, TypeOK, Socket
  <2> HIDE DEF x
  <2> QED
    BY <1>t, <2>1, <2>2, <2>3, <2>4
<1>9. ASSUME NEW s \in Sockets, sockets[s].state # "closed", UNCHANGED <<current, handlers>>,
             NEW x, Persist(Owner(s), x) \/ PersistAndReconnect(Owner(s), x), ~mixed,
             \A t \in Sockets : sockets'[t].owner \in {sockets[t].owner, None}
      PROVE  OneObject'
  <2>1. PICK o \in Objects : o = Owner(s) /\ o = current
    BY <1>9, CurrentActs
  <2>2. Persist(o, x) \/ PersistAndReconnect(o, x)
    BY <1>9, <2>1
  <2>3. \A h \in Handlers : handlers'[h].object \in {handlers[h].object, o, None}
    BY <1>9
  <2> QED
    BY <1>p, <1>9, <2>1, <2>2, <2>3
<1>10. ASSUME NEW s \in Sockets, Ready(s) PROVE OneObject'
  <2>1. PICK k \in Sessions :
          /\ sockets' = [sockets EXCEPT ![s].asked = None, ![s].session = k, ![s].at = 1,
                                        ![s].ready = TRUE]
          /\ Persist(Owner(s), [StartHeartbeat(objects[Owner(s)]) EXCEPT !.id = k, !.seq = 1])
    BY <1>10 DEF Ready
  <2>2. \A t \in Sockets : sockets'[t].owner = sockets[t].owner
    BY <1>0, <2>1 DEF TypeOK, Socket
  <2>3. sockets[s].state # "closed" /\ UNCHANGED <<current, handlers>> /\ ~mixed
    BY <1>10 DEF Ready
  <2> QED
    BY <1>9, <2>1, <2>2, <2>3
<1>11. ASSUME NEW s \in Sockets, AcceptResume(s) PROVE OneObject'
  <2>1. \A t \in Sockets : sockets'[t].owner = sockets[t].owner
    BY <1>0, <1>11 DEF AcceptResume, TypeOK, Socket
  <2> QED
    BY <1>b, <1>11, <2>1 DEF AcceptResume
<1>12. ASSUME NEW s \in Sockets, Resumed(s) \/ Dispatch(s) PROVE OneObject'
  <2>1. \A t \in Sockets : sockets'[t].owner = sockets[t].owner
    BY <1>0, <1>12 DEF Resumed, Dispatch, TypeOK, Socket
  <2>2. /\ sockets[s].state # "closed" /\ UNCHANGED <<current, handlers>> /\ ~mixed
        /\ \E x : Persist(Owner(s), x)
    BY <1>12 DEF Resumed, Dispatch, Live
  <2> QED
    BY <1>9, <2>1, <2>2
<1>13. ASSUME NEW s \in Sockets, InvalidSession(s) PROVE OneObject'
  <2>1. \A t \in Sockets :
          \/ sockets'[t] = [sockets[t] EXCEPT !.asked = None]
          \/ sockets'[t] = [sockets[t] EXCEPT !.session = None, !.ready = FALSE]
          \/ sockets'[t] = sockets[t]
    BY <1>13 DEF InvalidSession
  <2>2. \A t \in Sockets : sockets'[t].owner = sockets[t].owner
    BY <1>0, <2>1 DEF Socket
  <2>3. sockets[s].state # "closed" /\ UNCHANGED <<current, handlers>> /\ ~mixed
    BY <1>13 DEF InvalidSession
  <2> QED
    BY <1>9, <1>13, <2>2, <2>3 DEF InvalidSession
<1>14. ASSUME NEW s \in Sockets, ReconnectRequested(s) PROVE OneObject'
  <2>1. ~mixed /\ Owner(s) = current /\ current \in Objects /\ UNCHANGED <<current, stored, handlers>>
    BY <1>14, CurrentActs DEF ReconnectRequested, Live
  <2> DEFINE x == ScheduleReconnect(objects[current])
  <2>2. objects' = [objects EXCEPT ![current] = x]
    BY <1>14, <2>1 DEF ReconnectRequested
  <2>3. x.id = objects[current].id /\ x.seq = objects[current].seq
    BY <1>0, <2>1 DEF ScheduleReconnect, ClearTimers, Object
  <2> HIDE DEF x
  <2> QED
    BY <1>t, <1>14, <2>1, <2>2, <2>3 DEF ReconnectRequested
<1>15. ASSUME NEW o \in Objects, Heartbeat(o) PROVE OneObject'
  <2>1. ~mixed /\ o = current
    BY <1>15, CurrentActs DEF Heartbeat
  <2> QED
    BY <1>p, <1>s, <1>h, <1>15, <2>1 DEF Heartbeat
<1>16. ASSUME NEW s \in Sockets, sockets[s].state # "closed", SocketClosed(s) PROVE OneObject'
  <2>1. \A t \in Sockets : sockets'[t].owner \in {sockets[t].owner, None}
    BY <1>0, <1>16 DEF SocketClosed, TypeOK, NoSocket
  <2> QED
    BY <1>9, <1>16, <2>1 DEF SocketClosed
<1>17. ASSUME NEW s \in Sockets, SocketBreaks(s) \/ CloseCompletes(s) \/ PlatformTimesOut(s)
       PROVE  OneObject'
  BY <1>16, <1>17, TimesOutCloses DEF SocketBreaks, CloseCompletes, Neglected
<1>18. ASSUME Crash PROVE OneObject'
  BY <1>18, ConstantTypes DEF Crash, OneObject, NoSocket, Idle
<1>19. ASSUME UNCHANGED <<stored, current, objects, sockets, handlers, mixed>> PROVE OneObject'
  BY <1>0, <1>19 DEF OneObject
<1> QED
  BY <1>1, <1>2, <1>3, <1>4, <1>5, <1>6, <1>7, <1>8, <1>10, <1>11, <1>12, <1>13, <1>14, <1>15,
     <1>17, <1>18, <1>19
  DEF Next, Ask, Handshake, Timeouts, Messages, Faults, NewEvent, MessageQueued, MessageRejected, vars

-----------------------------------------------------------------------------
(* One session at a time: nothing is skipped. *)

LEMMA SessionStep == QqInv /\ [Next]_vars => OneSession'
<1> SUFFICES ASSUME QqInv, [Next]_vars, ~mixed' PROVE OneSession'
  BY DEF OneSession
<1> USE DEF queue, history
<1>0. /\ TypeOK /\ OneSession /\ TypeOK' /\ SocketsFit /\ HandlersFit
      /\ \A o \in Objects : objects[o] \in Object
      /\ \A s \in Sockets : sockets[s] \in Socket
      /\ stored \in Session
  BY TypeStep DEF TypeOK, QqInv
<1> DEFINE Known == sending \cup queued \cup lost
           CoveredNext(k, n) == \A m \in 2 .. n : <<k, m>> \in Known'
\* The goal, its primes spelled out.
<1>z. ASSUME stored'.id # None => CoveredNext(stored'.id, stored'.seq),
             \A s \in Sockets : Live(s)' =>
               /\ CoveredNext(sockets'[s].session, sockets'[s].at)
               /\ stored'.id # None => sockets'[s].session = stored'.id,
             \A s \in Sockets : sockets'[s].asked \notin {None, NoSession} =>
               CoveredNext(sockets'[s].asked.id, sockets'[s].asked.seq)
      PROVE  OneSession'
  BY <1>z DEF OneSession, Covered
\* What is known of events is never forgotten.
<1>k. ASSUME Known \subseteq Known', NEW k, NEW n, Covered(k, n) PROVE CoveredNext(k, n)
  BY <1>k DEF Covered
<1> HIDE DEF Known, CoveredNext
\* The session stays or is forgotten, and no socket gets a new one.
<1>b. ASSUME ~mixed, Known \subseteq Known',
             stored'.id = None \/ (stored'.id = stored.id /\ stored'.seq = stored.seq)
      PROVE  stored'.id # None => CoveredNext(stored'.id, stored'.seq)
  BY <1>0, <1>b, <1>k DEF OneSession
<1>l. ASSUME ~mixed, Known \subseteq Known', stored'.id \in {None, stored.id}, NEW s \in Sockets,
             Live(s), sockets'[s].session = sockets[s].session, sockets'[s].at = sockets[s].at
      PROVE  /\ CoveredNext(sockets'[s].session, sockets'[s].at)
             /\ stored'.id # None => sockets'[s].session = stored'.id
  BY <1>0, <1>l, <1>k DEF OneSession
<1>w. ASSUME ~mixed, Known \subseteq Known', NEW s \in Sockets,
             sockets'[s].asked \in {sockets[s].asked, None, NoSession}
      PROVE  sockets'[s].asked \notin {None, NoSession} =>
               CoveredNext(sockets'[s].asked.id, sockets'[s].asked.seq)
  BY <1>0, <1>w, <1>k DEF OneSession
<1>a. ASSUME ~mixed, Known \subseteq Known',
             stored'.id = None \/ (stored'.id = stored.id /\ stored'.seq = stored.seq),
             \A s \in Sockets :
               /\ Live(s)' => /\ Live(s) /\ sockets'[s].session = sockets[s].session
                              /\ sockets'[s].at = sockets[s].at
               /\ sockets'[s].asked \in {sockets[s].asked, None, NoSession}
      PROVE  OneSession'
  BY <1>a, <1>b, <1>l, <1>w, <1>z
<1>q. ASSUME UNCHANGED queue PROVE Known \subseteq Known'
  BY <1>q DEF Known
<1>s. ASSUME UNCHANGED sockets
      PROVE  \A s \in Sockets :
               /\ Live(s)' => /\ Live(s) /\ sockets'[s].session = sockets[s].session
                              /\ sockets'[s].at = sockets[s].at
               /\ sockets'[s].asked \in {sockets[s].asked, None, NoSession}
  BY <1>s DEF Live
\* What a step of the current object stores when it keeps the session.
<1>p. ASSUME ~mixed, NEW o \in Objects, o = current, NEW x,
             x.id = objects[o].id, x.seq = objects[o].seq,
             Persist(o, x) \/ (PersistAndReconnect(o, x) /\ x \in Object)
      PROVE  stored'.id = stored.id /\ stored'.seq = stored.seq
  <2>1. x \in Object => ScheduleReconnect(x).id = x.id /\ ScheduleReconnect(x).seq = x.seq
    BY DEF ScheduleReconnect, ClearTimers, Object
  <2>2. stored' = [id |-> x.id, seq |-> x.seq]
    BY <1>p, <2>1 DEF Persist, PersistAndReconnect
  <2>3. x.id = stored.id /\ x.seq = stored.seq
    BY <1>p, CurrentActs
  <2> QED
    BY <2>2, <2>3
<1>c. ASSUME NEW h, NEW o, NEW x \in Object, x.id = stored.id, x.seq = stored.seq, BeginConnect(h, o, x)
      PROVE  stored'.id = stored.id /\ stored'.seq = stored.seq
  <2>1. ClearTimers(x).id = x.id /\ ClearTimers(x).seq = x.seq
    BY DEF ClearTimers, Object
  <2> QED
    BY <1>c, <2>1 DEF BeginConnect, Persist
<1>d. ASSUME NEW h, NEW o \in Objects, ~mixed, Close(h, o), Known \subseteq Known',
             o = current \/ objects[o] = NoObject
      PROVE  OneSession'
  <2> DEFINE x == [ClearTimers(objects[o]) EXCEPT !.websocket = None]
  <2>1. stored' = [id |-> x.id, seq |-> x.seq]
    BY <1>d DEF Close, Persist
  <2>2. x.id = objects[o].id /\ x.seq = objects[o].seq
    BY <1>0 DEF ClearTimers, Object
  <2>3. stored'.id = None \/ (stored'.id = stored.id /\ stored'.seq = stored.seq)
    <3>1. CASE o = current
      BY <1>d, <2>1, <2>2, <3>1, CurrentActs
    <3>2. CASE objects[o] = NoObject
      <4>1. objects[o].id = None
        BY <3>2 DEF NoObject
      <4> HIDE DEF x
      <4> QED
        BY <2>1, <2>2, <4>1
    <3> QED
      BY <1>d, <3>1, <3>2
  <2>4. \A s \in Sockets : sockets'[s] = sockets[s] \/ sockets'[s] = [sockets[s] EXCEPT !.state = "closing"]
    BY <1>d DEF Close
  <2>5. \A s \in Sockets : \/ sockets'[s] = sockets[s]
                           \/ sockets'[s].state = "closing" /\ sockets'[s].asked = sockets[s].asked
    BY <1>0, <2>4 DEF Socket
  <2> QED
    BY <1>a, <1>d, <2>3, <2>5 DEF Live
<1>e. ASSUME ~mixed, Known \subseteq Known', NEW h, NEW what \in {"connect", "disconnect"}, Enter(h, what)
      PROVE  OneSession'
  <2>1. CASE current = None
    BY <1>a, <1>e, <1>s, <2>1 DEF Enter
  <2>2. CASE current # None
    <3>1. PICK o \in Objects : o = current
      BY <1>0, <2>2 DEF TypeOK
    <3>2. CASE what = "connect" /\ IsConnected(o)
      BY <1>a, <1>e, <1>s, <2>2, <3>1, <3>2 DEF Enter, Perform, EnsureConnected
    <3>3. CASE what = "connect" /\ ~IsConnected(o)
      <4>1. BeginConnect(h, o, RestoreSession(objects[o])) /\ UNCHANGED sockets
        BY <1>e, <2>2, <3>1, <3>3 DEF Enter, Perform, EnsureConnected
      <4>2. RestoreSession(objects[o]) \in Object
        BY <1>0, PieceTypes
      <4>3. RestoreSession(objects[o]).id = stored.id /\ RestoreSession(objects[o]).seq = stored.seq
        BY <1>0 DEF RestoreSession, Object
      <4> QED
        BY <1>a, <1>c, <1>e, <1>s, <4>1, <4>2, <4>3
    <3>4. CASE what = "disconnect"
      <4>1. Close(h, o)
        BY <1>e, <2>2, <3>1, <3>4 DEF Enter, Perform
      <4> QED
        BY <1>d, <1>e, <3>1, <4>1
    <3> QED
      BY <3>2, <3>3, <3>4
  <2> QED
    BY <2>1, <2>2
<1>1. ASSUME NEW h \in Handlers, NEW what \in {"connect", "disconnect"}, Fetch(h, what) PROVE OneSession'
  BY <1>e, <1>q, <1>1 DEF Fetch
<1>2. ASSUME AlarmFires PROVE OneSession'
  BY <1>e, <1>q, <1>2 DEF AlarmFires
<1>3. ASSUME NEW h \in Handlers, MakeSession(h) PROVE OneSession'
  <2>0. ~mixed /\ Known \subseteq Known'
    BY <1>3, <1>q DEF MakeSession
  <2>1. PICK o \in Objects :
          /\ objects[o] = NoObject
          /\ IF handlers[h].what = "connect"
               THEN BeginConnect(h, o, RestoreSession(NoObject)) /\ UNCHANGED sockets
               ELSE Close(h, o)
    BY <1>3 DEF MakeSession
  <2>2. CASE handlers[h].what = "connect"
    <3>1. RestoreSession(NoObject) \in Object
      BY <1>0, EmptyTypes, PieceTypes
    <3>2. RestoreSession(NoObject).id = stored.id /\ RestoreSession(NoObject).seq = stored.seq
      BY EmptyTypes DEF RestoreSession, Object
    <3> QED
      BY <1>a, <1>c, <1>s, <2>0, <2>1, <2>2, <3>1, <3>2
  <2>3. CASE handlers[h].what # "connect"
    BY <1>d, <2>0, <2>1, <2>3
  <2> QED
    BY <2>2, <2>3
<1>4. ASSUME NEW h \in Handlers, OpenSocket(h) PROVE OneSession'
  <2>0. ~mixed /\ handlers[h].object \in Objects /\ Known \subseteq Known'
    BY <1>0, <1>4, <1>q DEF OpenSocket, HandlersFit
  <2>1. PICK o \in Objects : o = handlers[h].object /\ o = current
    BY <2>0, CurrentActs
  <2>2. PICK s \in Sockets :
          /\ sockets' = [sockets EXCEPT ![s] = [NoSocket EXCEPT !.owner = o, !.state = "connecting"]]
          /\ Persist(o, [objects[o] EXCEPT !.websocket = s])
    BY <1>4, <2>1 DEF OpenSocket
  <2> DEFINE x == [objects[o] EXCEPT !.websocket = s]
  <2>3. x.id = objects[o].id /\ x.seq = objects[o].seq
    BY <1>0 DEF Object
  <2>4. Persist(o, x)
    BY <2>2
  <2>5. /\ sockets'[s].state = "connecting" /\ sockets'[s].asked = None
        /\ \A t \in Sockets : t # s => sockets'[t] = sockets[t]
    BY <1>0, <2>2 DEF TypeOK, NoSocket
  <2> HIDE DEF x
  <2>6. stored'.id = stored.id /\ stored'.seq = stored.seq
    BY <1>p, <2>0, <2>1, <2>3, <2>4
  <2> QED
    BY <1>a, <2>0, <2>5, <2>6 DEF Live
<1>5. ASSUME NEW o \in Objects, ReconnectTimerFires(o) PROVE OneSession'
  <2>1. ~mixed /\ o = current /\ Known \subseteq Known'
    BY <1>5, <1>q, CurrentActs DEF ReconnectTimerFires
  <2>2. PICK h \in Timers : BeginConnect(h, o, objects[o])
    BY <1>5 DEF ReconnectTimerFires
  <2>3. stored'.id = stored.id /\ stored'.seq = stored.seq
    BY <1>0, <1>c, <2>1, <2>2, CurrentActs
  <2> QED
    BY <1>a, <1>s, <1>5, <2>1, <2>3 DEF ReconnectTimerFires
<1>6. ASSUME NEW h \in Handlers, ConnectFails(h) PROVE OneSession'
  <2>0. ~mixed /\ Known \subseteq Known'
    BY <1>6, <1>q DEF ConnectFails
  <2>1. CASE h \in Timers
    <3>1. handlers[h].object \in Objects
      BY <1>0, <1>6, <2>1 DEF ConnectFails, HandlersFit, TypeOK, Handler
    <3>2. PICK o \in Objects : o = handlers[h].object /\ o = current
      BY <2>0, <3>1, CurrentActs
    <3>3. stored'.id = stored.id /\ stored'.seq = stored.seq
      BY <1>0, <1>p, <1>6, <2>0, <2>1, <3>2 DEF ConnectFails
    <3> QED
      BY <1>a, <1>s, <1>6, <2>0, <3>3 DEF ConnectFails
  <2>2. CASE h \notin Timers
    BY <1>6, <1>a, <1>s, <2>0, <2>2 DEF ConnectFails
  <2> QED
    BY <2>1, <2>2
<1>7. ASSUME NEW s \in Sockets, SocketOpens(s) PROVE OneSession'
  <2>1. /\ sockets'[s].session = sockets[s].session /\ sockets'[s].asked = sockets[s].asked
        /\ \A t \in Sockets : t # s => sockets'[t] = sockets[t]
    BY <1>0, <1>7 DEF SocketOpens, TypeOK, Socket
  <2>2. sockets[s].session = None
    BY <1>0, <1>7 DEF SocketOpens, SocketsFit
  <2>3. Known \subseteq Known' /\ ~mixed /\ UNCHANGED stored
    BY <1>7, <1>q DEF SocketOpens
  <2> QED
    BY <1>a, <2>1, <2>2, <2>3 DEF Live
<1>8. ASSUME NEW o \in Objects, TokenArrives(o) PROVE OneSession'
  <2>1. ~mixed /\ o = current /\ UNCHANGED stored /\ Known \subseteq Known'
    BY <1>8, <1>q, CurrentActs DEF TokenArrives
  <2>2. CASE UNCHANGED sockets
    BY <1>a, <1>s, <2>1, <2>2
  <2>3. CASE IsOpen(o) /\ sockets[objects[o].websocket].session = None
    <3>1. PICK s \in Sockets : s = objects[o].websocket
      BY <1>0, <2>3 DEF IsOpen, Object
    <3>2. /\ sockets'[s].session = None /\ sockets'[s].asked = IdentifyOrResume(objects[o])
          /\ \A t \in Sockets : t # s => sockets'[t] = sockets[t]
      BY <1>0, <1>8, <2>3, <3>1 DEF TokenArrives, TypeOK, Socket
    <3>3. IdentifyOrResume(objects[o]) \in {NoSession, [id |-> stored.id, seq |-> stored.seq]}
          /\ (stored.id = None => IdentifyOrResume(objects[o]) = NoSession)
      BY <2>1, CurrentActs DEF IdentifyOrResume
    <3>4. sockets'[s].asked \notin {None, NoSession} =>
            CoveredNext(sockets'[s].asked.id, sockets'[s].asked.seq)
      <4>1. ASSUME sockets'[s].asked \notin {None, NoSession}
            PROVE  /\ stored.id # None
                   /\ sockets'[s].asked.id = stored.id /\ sockets'[s].asked.seq = stored.seq
        BY <3>2, <3>3, <4>1
      <4> QED
        BY <1>0, <1>k, <2>1, <4>1 DEF OneSession
    <3>5. ~Live(s)' /\ \A t \in Sockets : t # s => (Live(t)' => Live(t))
      BY <3>2 DEF Live
    <3> QED
      BY <1>b, <1>l, <1>w, <1>z, <2>1, <3>2, <3>4, <3>5
  <2> QED
    BY <1>8, <2>2, <2>3 DEF TokenArrives
<1>9. ASSUME NEW s \in Sockets, Ready(s) PROVE OneSession'
  <2>0. ~mixed /\ Owner(s) = current /\ current \in Objects /\ Known \subseteq Known'
    BY <1>9, <1>q, CurrentActs DEF Ready
  <2>1. PICK k \in Sessions :
          /\ sockets' = [sockets EXCEPT ![s].asked = None, ![s].session = k, ![s].at = 1,
                                        ![s].ready = TRUE]
          /\ Persist(Owner(s), [StartHeartbeat(objects[Owner(s)]) EXCEPT !.id = k, !.seq = 1])
    BY <1>9 DEF Ready
  <2>2. stored'.id = k /\ stored'.seq = 1
    <3>1. StartHeartbeat(objects[Owner(s)]) \in Object
      BY <1>0, <2>0, PieceTypes
    <3>2. /\ [StartHeartbeat(objects[Owner(s)]) EXCEPT !.id = k, !.seq = 1].id = k
          /\ [StartHeartbeat(objects[Owner(s)]) EXCEPT !.id = k, !.seq = 1].seq = 1
      BY <3>1 DEF Object
    <3> QED
      BY <2>1, <3>2 DEF Persist
  <2>3. /\ sockets'[s].session = k /\ sockets'[s].at = 1 /\ sockets'[s].asked = None
        /\ \A t \in Sockets : t # s => sockets'[t] = sockets[t]
    BY <1>0, <2>1 DEF TypeOK, Socket
  <2>4. \A t \in Sockets : ~Live(t)
    BY <1>9 DEF Ready
  <2>5. \A t \in Sockets : t # s => ~Live(t)'
    BY <2>3, <2>4 DEF Live
  <2>6. CoveredNext(k, 1)
    BY DEF CoveredNext
  <2> QED
    BY <1>w, <1>z, <2>0, <2>2, <2>3, <2>5, <2>6
<1>10. ASSUME NEW s \in Sockets, AcceptResume(s) PROVE OneSession'
  <2>1. ~mixed /\ Known \subseteq Known' /\ UNCHANGED stored /\ stored.id = sockets[s].asked.id
    BY <1>10, <1>q DEF AcceptResume
  <2>2. /\ sockets'[s].session = sockets[s].asked.id /\ sockets'[s].at = sockets[s].asked.seq
        /\ sockets'[s].asked = None
        /\ \A t \in Sockets : t # s => sockets'[t] = sockets[t]
    BY <1>0, <1>10 DEF AcceptResume, TypeOK, Socket
  <2>3. CoveredNext(sockets'[s].session, sockets'[s].at)
    BY <1>0, <1>10, <1>k, <2>1, <2>2 DEF AcceptResume, OneSession
  <2>4. \A t \in Sockets : t # s => (Live(t)' => Live(t))
    BY <2>2 DEF Live
  <2> QED
    BY <1>b, <1>l, <1>w, <1>z, <2>1, <2>2, <2>3, <2>4
<1>11. ASSUME NEW s \in Sockets, Resumed(s) PROVE OneSession'
  <2>1. ~mixed /\ Owner(s) = current /\ current \in Objects /\ Known \subseteq Known'
    BY <1>11, <1>q, CurrentActs DEF Resumed, Live
  <2>2. /\ OnResumed(objects[Owner(s)]).id = objects[Owner(s)].id
        /\ OnResumed(objects[Owner(s)]).seq = objects[Owner(s)].seq
    BY <1>0, <2>1 DEF OnResumed, StartHeartbeat, Object
  <2>3. stored'.id = stored.id /\ stored'.seq = stored.seq
    BY <1>11, <1>p, <2>1, <2>2 DEF Resumed
  <2>4. \A t \in Sockets : /\ sockets'[t].session = sockets[t].session /\ sockets'[t].at = sockets[t].at
                           /\ sockets'[t].asked = sockets[t].asked /\ sockets'[t].state = sockets[t].state
    BY <1>0, <1>11 DEF Resumed, TypeOK, Socket
  <2> QED
    BY <1>a, <2>1, <2>3, <2>4 DEF Live
<1>12. ASSUME NEW s \in Sockets, InvalidSession(s) PROVE OneSession'
  <2>1. ~mixed /\ Owner(s) = current /\ current \in Objects /\ Known \subseteq Known'
    BY <1>12, <1>q, CurrentActs DEF InvalidSession
  <2> DEFINE x == [objects[Owner(s)] EXCEPT !.id = None, !.seq = 0]
  <2>2. ScheduleReconnect(x).id = None
    BY <1>0, <2>1 DEF ScheduleReconnect, ClearTimers, Object
  <2>3. stored'.id = None
    BY <1>12, <2>2 DEF InvalidSession, PersistAndReconnect, Persist
  <2>4. \A t \in Sockets :
          \/ sockets'[t] = [sockets[t] EXCEPT !.asked = None]
          \/ sockets'[t] = [sockets[t] EXCEPT !.session = None, !.ready = FALSE]
          \/ sockets'[t] = sockets[t]
    BY <1>12 DEF InvalidSession
  <2>5. \A t \in Sockets :
          /\ sockets'[t].session \in {sockets[t].session, None} /\ sockets'[t].at = sockets[t].at
          /\ sockets'[t].asked \in {sockets[t].asked, None} /\ sockets'[t].state = sockets[t].state
    BY <1>0, <2>4 DEF Socket
  <2>6. \A t \in Sockets :
          Live(t)' => Live(t) /\ sockets'[t].session = sockets[t].session /\ sockets'[t].at = sockets[t].at
    BY <2>5 DEF Live
  <2> HIDE DEF x
  <2> QED
    BY <1>a, <2>1, <2>3, <2>5, <2>6
<1>13. ASSUME NEW s \in Sockets, Dispatch(s) PROVE OneSession'
  <2> DEFINE k == sockets[s].session
             n == sockets[s].at + 1
  <2>1. ~mixed /\ Owner(s) = current /\ current \in Objects
    BY <1>13, CurrentActs DEF Dispatch, Live
  <2>2. Live(s) /\ Known \subseteq Known' /\ <<k, n>> \in Known'
    BY <1>13 DEF Dispatch, Known
  <2>3. KeepSeq(objects[Owner(s)], n).id = objects[Owner(s)].id /\ KeepSeq(objects[Owner(s)], n).seq = n
    BY <1>0, <2>1 DEF KeepSeq, Object
  <2>4. stored'.id = stored.id /\ stored'.seq = n
    <3>1. stored'.id = objects[Owner(s)].id /\ stored'.seq = n
      BY <1>13, <2>3 DEF Dispatch, Persist
    <3> QED
      BY <2>1, <3>1, CurrentActs
  <2>5. sockets' = [sockets EXCEPT ![s].at = n]
    BY <1>13 DEF Dispatch
  <2>6. /\ sockets'[s].session = k /\ sockets'[s].at = n /\ sockets'[s].asked = sockets[s].asked
        /\ \A t \in Sockets : t # s => sockets'[t] = sockets[t]
    BY <1>0, <2>5 DEF TypeOK, Socket
  <2>7. CoveredNext(k, n)
    <3>1. Covered(k, sockets[s].at) /\ sockets[s].at \in Nat
      BY <1>0, <2>1, <2>2 DEF OneSession, Socket
    <3>2. \A m \in 2 .. sockets[s].at : <<k, m>> \in Known'
      BY <1>k, <2>2, <3>1 DEF CoveredNext
    <3> QED
      BY <2>2, <3>1, <3>2 DEF CoveredNext
  <2>8. stored.id # None => k = stored.id
    BY <1>0, <2>1, <2>2 DEF OneSession
  <2>9. \A t \in Sockets : t # s => (Live(t)' => Live(t))
    BY <2>6 DEF Live
  <2> HIDE DEF k, n
  <2> QED
    BY <1>l, <1>w, <1>z, <2>1, <2>2, <2>4, <2>6, <2>7, <2>8, <2>9
<1>14. ASSUME NEW s \in Sockets, sockets[s].state # "closed", SocketClosed(s), ~mixed, Known \subseteq Known'
       PROVE  OneSession'
  <2>1. Owner(s) = current /\ current \in Objects
    BY <1>14, CurrentActs
  <2> DEFINE x == [objects[Owner(s)] EXCEPT !.websocket = None]
  <2>2. x \in Object /\ x.id = objects[Owner(s)].id /\ x.seq = objects[Owner(s)].seq
    BY <1>0, <2>1, PieceTypes DEF Object
  <2>3. stored'.id = stored.id /\ stored'.seq = stored.seq
    BY <1>14, <1>p, <2>1, <2>2 DEF SocketClosed
  <2>4. sockets'[s] = NoSocket /\ \A t \in Sockets : t # s => sockets'[t] = sockets[t]
    BY <1>0, <1>14 DEF SocketClosed, TypeOK
  <2>5. NoSocket.state = "closed" /\ NoSocket.asked = None
    BY DEF NoSocket
  <2> QED
    BY <1>a, <1>14, <2>3, <2>4, <2>5 DEF Live
<1>15. ASSUME NEW s \in Sockets, SocketBreaks(s) \/ CloseCompletes(s) \/ PlatformTimesOut(s)
       PROVE  OneSession'
  <2>1. SocketClosed(s) /\ sockets[s].state # "closed"
    BY <1>15, TimesOutCloses DEF SocketBreaks, CloseCompletes, Neglected
  <2>2. ~mixed /\ Known \subseteq Known'
    BY <1>q, <2>1 DEF SocketClosed
  <2> QED
    BY <1>14, <2>1, <2>2
<1>16. ASSUME NEW o \in Objects, Heartbeat(o) PROVE OneSession'
  <2>1. ~mixed /\ o = current /\ Known \subseteq Known' /\ UNCHANGED sockets
    BY <1>16, <1>q, CurrentActs DEF Heartbeat
  <2>2. stored'.id = stored.id /\ stored'.seq = stored.seq
    BY <1>16, <1>p, <2>1 DEF Heartbeat
  <2> QED
    BY <1>a, <1>s, <2>1, <2>2
<1>17. ASSUME Crash PROVE OneSession'
  <2>1. ~mixed /\ Known \subseteq Known' /\ UNCHANGED stored
    BY <1>17 DEF Crash, Known
  <2>2. \A s \in Sockets : sockets'[s] = NoSocket
    BY <1>17 DEF Crash
  <2>3. NoSocket.state = "closed" /\ NoSocket.asked = None
    BY DEF NoSocket
  <2> QED
    BY <1>a, <2>1, <2>2, <2>3 DEF Live
\* What concerns neither the session nor the sockets.
<1>18. ASSUME ~mixed, UNCHANGED <<stored, sockets>>, Known \subseteq Known' PROVE OneSession'
  BY <1>a, <1>s, <1>18
<1>19. ASSUME NEW e \in sending, MessageQueued(e) \/ MessageRejected(e) PROVE OneSession'
  <2>1. Known \subseteq Known'
    BY <1>19 DEF MessageQueued, MessageRejected, Known
  <2> QED
    BY <1>18, <1>19, <2>1 DEF MessageQueued, MessageRejected
<1>20. ASSUME UNCHANGED <<stored, sockets, queue, mixed>> PROVE OneSession'
  BY <1>18, <1>q, <1>20
<1> QED
  BY <1>1, <1>2, <1>3, <1>4, <1>5, <1>6, <1>7, <1>8, <1>9, <1>10, <1>11, <1>12, <1>13, <1>15, <1>16,
     <1>17, <1>19, <1>20
  DEF Next, Ask, Handshake, Timeouts, Messages, Faults, NewEvent, ReconnectRequested, TokenFails, vars

-----------------------------------------------------------------------------
(* What holds of every behaviour. *)

\* The invariant: of sockets and their owners, of what wakes the object and replaces a
\* socket, and of which events a resumed session would pass over.
THEOREM QqInvariant == Spec => []QqInv
<1>1. QqInv /\ [Next]_vars => QqInv'
  BY TypeStep, FitStep, ForgottenStep, AliveStep, ObjectStep, SessionStep DEF QqInv
<1> QED
  BY InitInv, <1>1, PTL DEF Spec

\* The state has its types: as many sockets, sessions and events as the bounds allow.
THEOREM TypesHold == Spec => []TypeOK
<1>1. QqInv => TypeOK
  BY DEF QqInv
<1> QED
  BY QqInvariant, <1>1, PTL

\* A bot that was set up is never left without an alarm, whatever its requests, sockets,
\* timers and crashes come to: every schedule of a reconnect sets the alarm, and only the
\* alarm's handler takes it away.
THEOREM AlwaysWoken == Spec => []NeverForgotten
<1>1. QqInv => NeverForgotten
  BY DEF QqInv
<1> QED
  BY QqInvariant, <1>1, PTL

\* A ready socket never stays without its heartbeat and without a replacement coming:
\* clearTimers on a socket that is still open is only done by who replaces it.
THEOREM AliveOrReplaced == Spec => []KeptAliveOrReplaced
<1>1. QqInv => KeptAliveOrReplaced
  BY ConstantTypes DEF QqInv, ReadyIsAlive, KeptAliveOrReplaced
<1> QED
  BY QqInvariant, <1>1, PTL

\* As long as one session object talks for one session, no event up to the stored number
\* is passed over when the session is resumed.
THEOREM NoEventSkipped == Spec => []NothingSkipped
<1>1. QqInv => NothingSkipped
  BY DEF QqInv, OneSession, Covered, NothingSkipped
<1> QED
  BY QqInvariant, <1>1, PTL
=============================================================================
