------------------------- MODULE AgentDurableObject -------------------------
(***************************************************************************)
(* One agent's Durable Object (src/agents/agent-durable-object.ts) with    *)
(* its drain loop (agent-mailbox-drainer.ts), its alarm, and the Queue     *)
(* consumer that feeds it (worker/queue-consumer.ts, agent-dispatch.ts).   *)
(*                                                                         *)
(* One step is the code between two awaits.  The object runs up to four    *)
(* asynchronous functions at a time: fetch(), alarm() and the promise      *)
(* chains of startDrain(), each of which ends in a detached                *)
(* scheduleNextAlarm().  They share the mailbox of AgentMailbox, the alarm *)
(* and drainPromise.  The platform is external: it delivers requests,      *)
(* alarms and the answers handlers wait for only while no storage          *)
(* operation is in progress (input gates), restarts the object after a     *)
(* crash, and delivers alarms and queue messages at least once.  Storage   *)
(* operations finish in the order in which they were asked for.            *)
(***************************************************************************)
EXTENDS AgentMailbox, Sequences

CONSTANTS
  DelayMs,   \* MAILBOX_RECOVERY_ALARM_DELAY_MS, in clock ticks
  MaxFaults, \* bound of the model: crashes, storage failures and lost acks
  MaxSlow    \* bound of the model: ticks that pass while a handler runs or an alarm is late

Drains == {"drain1", "drain2"}  \* promise chains of startDrain; one may be in its detached tail
Procs  == {"fetch", "alarm"} \cup Drains

SchedulePoints == {"pending", "running", "gc", "set"}  \* awaits of scheduleNextAlarm
StoragePoints  == {"enqueue", "cleanup", "recover", "claim", "begin", "complete", "fail"}
                    \cup SchedulePoints

ASSUME ObjectConstants ==
  /\ {DelayMs, MaxFaults, MaxSlow} \subseteq Nat
  /\ Instances = 1 .. MaxFaults + 1

VARIABLES
  instance,     \* instanceId of the live object
  alarm,        \* the stored alarm, or None
  drainPromise, \* whether drainPromise is set
  pc,           \* the await each function is at
  io,           \* the functions that wait for storage, in the order they asked
  item,         \* the event a drain loop holds, or None
  due,          \* the alarm time scheduleNextAlarm has computed so far, or None
  queue,        \* "queued", "dispatching" or "acked", for the message of each event
  handled,      \* how often a handler returned, for each event (history)
  faults,       \* faults so far
  slow          \* slow ticks so far

objectVars == <<instance, alarm, drainPromise, pc, io, item, due, queue, handled, faults, slow>>
allVars == <<vars, objectVars>>

ObjectTypeOK ==
  /\ TypeOK
  /\ instance \in Instances
  /\ alarm \in Nat \cup {None}
  /\ drainPromise \in BOOLEAN
  /\ pc \in [Procs -> {"idle", "handler"} \cup StoragePoints]
  /\ io \in Seq(Procs)
  /\ item \in [Drains -> RunningRecord \cup {None}]
  /\ due \in [Procs -> Nat \cup {None}]
  /\ queue \in [EventIds -> {"queued", "dispatching", "acked"}]
  /\ handled \in [EventIds -> Nat]
  /\ faults \in 0 .. MaxFaults
  /\ slow \in 0 .. MaxSlow

ObjectInit ==
  /\ Init
  /\ instance = 1
  /\ alarm = None
  /\ drainPromise = FALSE
  /\ pc = [p \in Procs |-> "idle"]
  /\ io = <<>>
  /\ item = [d \in Drains |-> None]
  /\ due = [p \in Procs |-> None]
  /\ queue = [e \in EventIds |-> "queued"]
  /\ handled = [e \in EventIds |-> 0]
  /\ faults = 0
  /\ slow = 0

\* The input gate: no event is delivered while a storage operation is in progress.
GateOpen == io = <<>>

\* The storage operation p waits for at point is the next one to finish.
At(p, point) == pc[p] = point /\ io # <<>> /\ Head(io) = p

Waiting(p, point) == IF point \in StoragePoints THEN <<p>> ELSE <<>>

\* Those that go on waiting when p, which is the next one if it waits at all, goes on.
Others(p) == IF io # <<>> /\ Head(io) = p THEN Tail(io) ELSE io

\* p goes on to its next await.
Goto(p, point) ==
  /\ pc' = [pc EXCEPT ![p] = point]
  /\ io' = Others(p) \o Waiting(p, point)

Minimum(s, t) == IF s = None THEN t ELSE IF t = None THEN s ELSE IF s <= t THEN s ELSE t
Maximum(s, t) == IF s <= t THEN t ELSE s

\* Mutant: every call of startDrain starts a drain, as long as a slot is left for it.
MayAlwaysStartDrain == \E d \in Drains : pc[d] = "idle"

MayStartDrain == ~drainPromise

\* p calls startDrain, whose first operation is asked for at once, and goes on.
StartDrain(p, point) ==
  IF MayStartDrain
  THEN LET d == CHOOSE x \in Drains : pc[x] = "idle"
       IN  /\ drainPromise' = TRUE
           /\ pc' = [pc EXCEPT ![p] = point, ![d] = "recover"]
           /\ io' = Others(p) \o <<d>> \o Waiting(p, point)
  ELSE Goto(p, point) /\ UNCHANGED drainPromise

\* Storage failed, an acknowledgement got lost, or the object went away.
Fault == faults < MaxFaults /\ faults' = faults + 1

-----------------------------------------------------------------------------
(* fetch: POST /events, called by the Queue consumer. *)

\* handleQueueMessage dispatches the message of e, and the object receives it.
ReceiveFetch(e) ==
  /\ queue[e] = "queued"
  /\ pc["fetch"] = "idle"
  /\ GateOpen
  /\ queue' = [queue EXCEPT ![e] = "dispatching"]
  /\ Goto("fetch", "enqueue")
  /\ UNCHANGED <<vars, instance, alarm, drainPromise, item, due, handled, faults, slow>>

\* The event is stored, unless the index knows it.
FetchEnqueue(e) ==
  /\ At("fetch", "enqueue")
  /\ queue[e] = "dispatching"
  /\ EnqueueMailboxEvent(e) \/ (index[e] # None /\ UNCHANGED vars)
  /\ Goto("fetch", "pending")
  /\ UNCHANGED <<instance, alarm, drainPromise, item, due, queue, handled, faults, slow>>

-----------------------------------------------------------------------------
(* scheduleNextAlarm, run by fetch, by alarm and at the end of a drain.  Its  *)
(* three reads and its write are separate storage operations.                *)

\* Mutant: only the running event is looked for.
PendingIsNotListed(p) ==
  /\ At(p, "pending")
  /\ Goto(p, "running")
  /\ UNCHANGED <<vars, instance, alarm, drainPromise, item, due, queue, handled, faults, slow>>

\* getNextMailboxWorkAlarmTime lists the pending records.
ListPending(p) ==
  /\ At(p, "pending")
  /\ \/ /\ pending # {}
        /\ due' = [due EXCEPT ![p] = now + DelayMs]
        /\ Goto(p, "gc")
     \/ /\ pending = {}
        /\ Goto(p, "running")
        /\ UNCHANGED due
  /\ UNCHANGED <<vars, instance, alarm, drainPromise, item, queue, handled, faults, slow>>

RecoveryAt == Minimum(running.leaseExpiresAt, running.startedAt + StaleMs)

\* Mutant: a running event needs no alarm.
RunningNeedsNoAlarm(p) ==
  /\ At(p, "running")
  /\ Goto(p, "gc")
  /\ UNCHANGED <<vars, instance, alarm, drainPromise, item, due, queue, handled, faults, slow>>

\* getNextMailboxWorkAlarmTime reads the running record.
GetRunning(p) ==
  /\ At(p, "running")
  /\ due' = [due EXCEPT ![p] =
       IF running = None THEN None ELSE Maximum(now + DelayMs, RecoveryAt)]
  /\ Goto(p, "gc")
  /\ UNCHANGED <<vars, instance, alarm, drainPromise, item, queue, handled, faults, slow>>

\* getNextMailboxEventCleanupTime
CleanupTime ==
  IF gc = {} THEN None
  ELSE Maximum(now, CHOOSE t \in {g.expiresAt : g \in gc} : \A g \in gc : t <= g.expiresAt)

ListGc(p) ==
  /\ At(p, "gc")
  /\ due' = [due EXCEPT ![p] = Minimum(due[p], CleanupTime)]
  /\ Goto(p, "set")
  /\ UNCHANGED <<vars, instance, alarm, drainPromise, item, queue, handled, faults, slow>>

\* setAlarm or deleteAlarm; the function that asked for it goes on: fetch starts
\* a drain and answers, and the consumer acknowledges the message; the others end.
SetAlarm(p) ==
  /\ At(p, "set")
  /\ alarm' = due[p]
  /\ due' = [due EXCEPT ![p] = None]
  /\ \/ /\ p = "fetch"
        /\ StartDrain("fetch", "idle")
        /\ queue' = [e \in EventIds |-> IF queue[e] = "dispatching" THEN "acked" ELSE queue[e]]
     \/ /\ p # "fetch"
        /\ Goto(p, "idle")
        /\ UNCHANGED <<drainPromise, queue>>
  /\ UNCHANGED <<vars, instance, item, handled, faults, slow>>

-----------------------------------------------------------------------------
(* alarm *)

\* The platform takes the alarm off and calls alarm(), which starts a drain.
ReceiveAlarm ==
  /\ alarm # None
  /\ alarm <= now
  /\ pc["alarm"] = "idle"
  /\ GateOpen
  /\ alarm' = None
  /\ StartDrain("alarm", "cleanup")
  /\ UNCHANGED <<vars, instance, item, due, queue, handled, faults, slow>>

AlarmCleanup ==
  /\ At("alarm", "cleanup")
  /\ CleanupExpiredMailboxEvents \/ (UNCHANGED vars /\ \A g \in gc : ~HasExpired(g))
  /\ Goto("alarm", "pending")
  /\ UNCHANGED <<instance, alarm, drainPromise, item, due, queue, handled, faults, slow>>

-----------------------------------------------------------------------------
(* drainAgentMailbox *)

DrainUnchanged == UNCHANGED <<instance, alarm, due, queue, faults, slow>>

\* recoverStaleRunningEvent, which may find nothing to recover.
DrainRecover(d) ==
  /\ At(d, "recover")
  /\ \/ RecoverStaleRunningEvent(instance)
     \/ UNCHANGED vars /\ (running # None => ~ShouldRecoverRunningEvent(instance))
  /\ Goto(d, "claim")
  /\ UNCHANGED <<drainPromise, item, handled>>
  /\ DrainUnchanged

\* claimNextMailboxEvent, when there is an event to claim.
DrainClaim(d) ==
  /\ At(d, "claim")
  /\ ClaimNextMailboxEvent(instance)
  /\ item' = [item EXCEPT ![d] = running']
  /\ Goto(d, "begin")
  /\ UNCHANGED <<drainPromise, handled>>
  /\ DrainUnchanged

\* The promise chain is settled: drainPromise is cleared, and a detached
\* scheduleNextAlarm begins.
EndDrain(d) ==
  /\ drainPromise' = FALSE
  /\ item' = [item EXCEPT ![d] = None]
  /\ Goto(d, "pending")

\* claimNextMailboxEvent, when an event is running or none is pending.
DrainFinish(d) ==
  /\ At(d, "claim")
  /\ running # None \/ pending = {}
  /\ EndDrain(d)
  /\ UNCHANGED <<vars, handled>>
  /\ DrainUnchanged

\* handleAgentEvent writes down what it works on, then waits for its work only.
HandlerBegins(d) ==
  /\ At(d, "begin")
  /\ Goto(d, "handler")
  /\ UNCHANGED <<vars, drainPromise, item, handled>>
  /\ DrainUnchanged

\* handleAgentEvent has done its work and returns.
HandlerReturns(d) ==
  /\ pc[d] = "handler"
  /\ GateOpen
  /\ Goto(d, "complete")
  /\ handled' = [handled EXCEPT ![item[d].eventId] = @ + 1]
  /\ UNCHANGED <<vars, drainPromise, item>>
  /\ DrainUnchanged

\* handleAgentEvent throws.
HandlerThrows(d) ==
  /\ pc[d] = "handler"
  /\ GateOpen
  /\ Goto(d, "fail")
  /\ UNCHANGED <<vars, drainPromise, item, handled>>
  /\ DrainUnchanged

\* completeMailboxEvent, and the loop goes round.
DrainComplete(d) ==
  /\ At(d, "complete")
  /\ CompleteMailboxEvent(item[d])
  /\ item' = [item EXCEPT ![d] = None]
  /\ Goto(d, "claim")
  /\ UNCHANGED <<drainPromise, handled>>
  /\ DrainUnchanged

\* failMailboxEvent; the error is thrown on, and ends the drain.
DrainFail(d) ==
  /\ At(d, "fail")
  /\ FailMailboxEvent(item[d])
  /\ EndDrain(d)
  /\ UNCHANGED handled
  /\ DrainUnchanged

-----------------------------------------------------------------------------
(* Faults and time. *)

\* Whether the platform has to call alarm() again: it did not run to its end.
RetryAlarm == alarm' = IF pc["alarm"] # "idle" /\ alarm = None THEN now ELSE alarm

\* Mutant: a message is acknowledged whether it was dispatched or not.
AckAnyway ==
  queue' = [e \in EventIds |-> IF queue[e] = "dispatching" THEN "acked" ELSE queue[e]]

\* handleQueueMessage asks for a retry of a message that was not dispatched.
RetryMessage ==
  queue' = [e \in EventIds |-> IF queue[e] = "dispatching" THEN "queued" ELSE queue[e]]

\* A storage operation of fetch rejects, and so does the request.
FetchStorageFails ==
  /\ \E point \in StoragePoints : At("fetch", point)
  /\ Fault
  /\ RetryMessage
  /\ Goto("fetch", "idle")
  /\ due' = [due EXCEPT !["fetch"] = None]
  /\ UNCHANGED <<vars, instance, alarm, drainPromise, item, handled, slow>>

\* The cleanup rejects: alarm() still schedules the next alarm.
CleanupFails ==
  /\ At("alarm", "cleanup")
  /\ Fault
  /\ Goto("alarm", "pending")
  /\ UNCHANGED <<vars, instance, alarm, drainPromise, item, due, queue, handled, slow>>

\* A storage operation of alarm()'s scheduleNextAlarm rejects.
AlarmScheduleFails ==
  /\ \E point \in SchedulePoints : At("alarm", point)
  /\ Fault
  /\ RetryAlarm
  /\ Goto("alarm", "idle")
  /\ due' = [due EXCEPT !["alarm"] = None]
  /\ UNCHANGED <<vars, instance, drainPromise, item, queue, handled, slow>>

\* A transaction before or after the handler rejects and ends the drain; the
\* event of a rejected failMailboxEvent stays in the running slot.
DrainStorageFails(d) ==
  /\ \E point \in {"recover", "claim", "fail"} : At(d, point)
  /\ Fault
  /\ EndDrain(d)
  /\ \/ pc[d] = "fail" /\ AbandonAttempt(item[d])
     \/ pc[d] # "fail" /\ UNCHANGED vars
  /\ UNCHANGED <<instance, alarm, due, queue, handled, slow>>

\* handleAgentEvent's own storage writes, or completeMailboxEvent, reject: the
\* loop fails the event, also when its handler has done its work.
HandledStorageFails(d) ==
  /\ \E point \in {"begin", "complete"} : At(d, point)
  /\ Fault
  /\ Goto(d, "fail")
  /\ UNCHANGED <<vars, instance, alarm, drainPromise, item, due, queue, handled, slow>>

\* A storage operation of the detached scheduleNextAlarm rejects; nobody notices.
DetachedScheduleFails(d) ==
  /\ \E point \in SchedulePoints : At(d, point)
  /\ Fault
  /\ Goto(d, "idle")
  /\ due' = [due EXCEPT ![d] = None]
  /\ UNCHANGED <<vars, instance, alarm, drainPromise, item, queue, handled, slow>>

\* The object goes away with everything it held in memory; another instance of
\* it takes the next call.
Crash ==
  /\ Fault
  /\ instance' = instance + 1
  /\ attempts' = {}
  /\ UNCHANGED <<nextSequence, pending, running, index, gc, now>>
  /\ drainPromise' = FALSE
  /\ pc' = [p \in Procs |-> "idle"]
  /\ io' = <<>>
  /\ item' = [d \in Drains |-> None]
  /\ due' = [p \in Procs |-> None]
  /\ RetryAlarm
  /\ RetryMessage
  /\ UNCHANGED <<handled, slow>>

\* The Queue delivers a message again after it was acknowledged.
Redeliver(e) ==
  /\ queue[e] = "acked"
  /\ Fault
  /\ queue' = [queue EXCEPT ![e] = "queued"]
  /\ UNCHANGED <<vars, instance, alarm, drainPromise, pc, io, item, due, handled, slow>>

\* Storage operations take no time on this clock.  Time passes until the next
\* alarm of an object that rests, and for MaxSlow ticks at any other moment: while
\* a handler runs, when an alarm is late.
TimePasses ==
  /\ GateOpen
  /\ Tick
  /\ \/ /\ alarm # None /\ now < alarm
        /\ \A d \in Drains : pc[d] = "idle"
        /\ UNCHANGED slow
     \/ slow < MaxSlow /\ slow' = slow + 1
  /\ UNCHANGED <<instance, alarm, drainPromise, pc, io, item, due, queue, handled, faults>>

ScheduleNextAlarm(p) == ListPending(p) \/ GetRunning(p) \/ ListGc(p) \/ SetAlarm(p)

FetchStep == (\E e \in EventIds : FetchEnqueue(e)) \/ ScheduleNextAlarm("fetch")

AlarmStep == AlarmCleanup \/ ScheduleNextAlarm("alarm")

DrainStep(d) ==
  \/ DrainRecover(d)
  \/ DrainClaim(d)
  \/ DrainFinish(d)
  \/ HandlerBegins(d)
  \/ DrainComplete(d)
  \/ DrainFail(d)
  \/ ScheduleNextAlarm(d)

HandlerEnds(d) == HandlerReturns(d) \/ HandlerThrows(d)

FaultStep ==
  \/ FetchStorageFails \/ CleanupFails \/ AlarmScheduleFails \/ Crash
  \/ \E d \in Drains :
       DrainStorageFails(d) \/ HandledStorageFails(d) \/ DetachedScheduleFails(d)
  \/ \E e \in EventIds : Redeliver(e)

ObjectNext ==
  \/ \E e \in EventIds : ReceiveFetch(e)
  \/ FetchStep
  \/ ReceiveAlarm
  \/ AlarmStep
  \/ \E d \in Drains : DrainStep(d) \/ HandlerEnds(d)
  \/ FaultStep
  \/ TimePasses

\* The runtime goes on with an async function whose operation is done, the Queue
\* and the alarm are delivered, handlers end (by their own time limits), and time
\* passes.  Faults are never owed.
Fairness ==
  /\ WF_allVars(FetchStep)
  /\ WF_allVars(AlarmStep)
  /\ WF_allVars(ReceiveAlarm)
  /\ WF_allVars(TimePasses)
  /\ \A e \in EventIds : WF_allVars(ReceiveFetch(e))
  /\ \A d \in Drains : WF_allVars(DrainStep(d)) /\ WF_allVars(HandlerEnds(d))

ObjectSpec == ObjectInit /\ [][ObjectNext]_allVars
FairObjectSpec == ObjectSpec /\ Fairness

-----------------------------------------------------------------------------
(* Properties. *)

\* The callers of the mailbox are the ones AgentMailbox allows, so everything
\* it guarantees holds of the object.
Mailbox == INSTANCE AgentMailbox
ImplementsMailbox == Mailbox!Spec

\* One handler runs at a time, and it holds the event of the running slot, also
\* when it runs longer than its lease and the alarm fires in the meantime.
OneHandlerAtATime ==
  /\ Cardinality({d \in Drains : pc[d] \in {"begin", "handler", "complete", "fail"}}) <= 1
  /\ \A d \in Drains : item[d] # None => item[d] = running

\* Work that is stored is never stranded: unless a function is under way, an
\* alarm is set, or the message that brought the work is still to be delivered.
NoWorkIsStranded ==
  (pending # {} \/ running # None) =>
    \/ alarm # None
    \/ \E p \in Procs : pc[p] # "idle"
    \/ \E e \in EventIds : queue[e] # "acked"

\* A handler does its work for an event a second time only after a fault.
HandledOnceWithoutFaults ==
  \A e \in EventIds : handled[e] <= 1 + faults

\* An acknowledged message was accepted: its event is known to the index until
\* its retention is over.
AckedIsAccepted ==
  [][\A e \in EventIds : queue[e] # "acked" /\ queue'[e] = "acked" => index[e] # None]_allVars

\* Every accepted event gets an outcome.
EveryEventIsFinished ==
  \A e \in EventIds :
    (index[e] # None /\ ~Terminal(index[e].status))
      ~> (index[e] = None \/ Terminal(index[e].status))
=============================================================================
