---------------------------- MODULE AgentMailbox ----------------------------
(***************************************************************************)
(* The durable mailbox of one agent: the records that                      *)
(* src/agents/agent-mailbox.ts and agent-mailbox-event-index.ts keep in    *)
(* Durable Object storage, and the storage transactions they run on them.  *)
(* Each exported function is one transaction, so each is one action here.  *)
(*                                                                         *)
(* The callers are left as general as they can be: any instance may        *)
(* recover or claim at any time, and an attempt that was handed out may be *)
(* completed, failed or abandoned at any later time, also after another    *)
(* instance has taken the event over.  AgentDurableObject restricts the    *)
(* callers to what the Durable Object does, and implements this module.    *)
(***************************************************************************)
EXTENDS Integers, FiniteSets

CONSTANTS
  EventIds,     \* event ids the queue can deliver
  Instances,    \* ids of the object instances (createId("do"), never reused)
  None,         \* an absent storage key or an undefined field
  MaxAttempts,  \* MAILBOX_MAX_ATTEMPTS
  LeaseMs,      \* MAILBOX_RUNNING_LEASE_MS, in clock ticks
  StaleMs,      \* MAILBOX_RUNNING_STALE_MS, in clock ticks
  RetentionMs,  \* MAILBOX_EVENT_RETENTION_MS, in clock ticks
  CleanupBatch, \* MAILBOX_EVENT_CLEANUP_BATCH_SIZE
  MaxTime       \* bound of the model: the clock stops here

Status == {"pending", "running", "completed", "failed"}

Terminal(status) == status \in {"completed", "failed"}

PendingRecord ==
  [sequence : Nat, eventId : EventIds, attemptCount : Nat]

RunningRecord ==
  [sequence : Nat, eventId : EventIds, attemptCount : Nat,
   startedAt : Nat, owner : Instances, leaseExpiresAt : Nat]

EventState ==
  [status : Status, sequence : Nat, attemptCount : Nat, expiresAt : Nat \cup {None}]

GcRecord == [eventId : EventIds, expiresAt : Nat]

ASSUME MailboxConstants ==
  /\ MaxAttempts \in Nat \ {0}
  /\ {LeaseMs, StaleMs, RetentionMs, CleanupBatch, MaxTime} \subseteq Nat
  /\ None \notin Nat
  /\ None \notin RunningRecord
  /\ None \notin EventState

VARIABLES
  nextSequence, \* mailbox:meta
  pending,      \* mailbox:pending:<sequence>, the set of stored records
  running,      \* mailbox:running, or None
  index,        \* mailbox:event:<eventId>, or None
  gc,           \* mailbox:event-gc:<expiresAt>:<eventId>
  attempts,     \* running records handed to a drain loop and not settled yet
  now           \* Date.now()

vars == <<nextSequence, pending, running, index, gc, attempts, now>>

TypeOK ==
  /\ nextSequence \in Nat \ {0}
  /\ pending \subseteq PendingRecord
  /\ running \in RunningRecord \cup {None}
  /\ index \in [EventIds -> EventState \cup {None}]
  /\ gc \subseteq GcRecord
  /\ attempts \subseteq RunningRecord
  /\ now \in Nat

Init ==
  /\ nextSequence = 1
  /\ pending = {}
  /\ running = None
  /\ index = [e \in EventIds |-> None]
  /\ gc = {}
  /\ attempts = {}
  /\ now = 0

-----------------------------------------------------------------------------
(* Helpers of the transactions. *)

\* Storing a record under the key of its sequence replaces what was there.
PutPending(record) ==
  pending' = {p \in pending : p.sequence # record.sequence} \cup {record}

\* Mutant: the fence compares the event and its place only.
IsSameRunningEvent(expected) ==
  /\ running # None
  /\ running.eventId = expected.eventId
  /\ running.sequence = expected.sequence

\* Mutant: the fence turns away a holder whose lease is over.
IsUnexpiredAttempt(expected) ==
  /\ IsSameRunningEvent(expected)
  /\ running.attemptCount = expected.attemptCount
  /\ now < running.leaseExpiresAt

\* isSameRunningAttempt: all identifying fields of the attempt agree.
IsSameRunningAttempt(expected) ==
  /\ running # None
  /\ running.eventId = expected.eventId
  /\ running.sequence = expected.sequence
  /\ running.attemptCount = expected.attemptCount
  /\ running.startedAt = expected.startedAt
  /\ running.owner = expected.owner

\* shouldRecoverRunningEvent, asked by instance i.
ShouldRecoverRunningEvent(i) ==
  \/ running.owner # i
  \/ now - running.startedAt >= StaleMs
  \/ now >= running.leaseExpiresAt

ExpiresAt(e) == IF index[e] = None THEN None ELSE index[e].expiresAt

\* Mutant: an event that is not finished gets an expiry too.
ExpiresAnyway(e, status) ==
  IF ExpiresAt(e) # None THEN ExpiresAt(e) ELSE now + RetentionMs

\* The expiry updateMailboxEventState gives the state of e when it becomes
\* status: a terminal state keeps an expiry it has, or gets a new one.
NextExpiresAt(e, status) ==
  IF ~Terminal(status) THEN None
  ELSE IF ExpiresAt(e) # None THEN ExpiresAt(e)
  ELSE now + RetentionMs

\* updateMailboxEventState with the key of the garbage collection index that
\* goes with it (updateMailboxEventGcIndex).
UpdateMailboxEventState(e, status, sequence, attemptCount) ==
  LET previous == ExpiresAt(e)
      next     == NextExpiresAt(e, status)
      Key(t)   == IF t = None THEN {} ELSE {[eventId |-> e, expiresAt |-> t]}
  IN  /\ index' = [index EXCEPT ![e] =
                     [status       |-> status,
                      sequence     |-> sequence,
                      attemptCount |-> attemptCount,
                      expiresAt    |-> next]]
      /\ gc' = IF previous = next THEN gc ELSE (gc \ Key(previous)) \cup Key(next)

\* The record of attempt r as it goes back to the queue, under its own sequence.
RetryRecord(r) ==
  [sequence |-> r.sequence, eventId |-> r.eventId, attemptCount |-> r.attemptCount]

\* Pending records are listed in key order: the first has the least sequence.
IsFirstPending(p) ==
  /\ p \in pending
  /\ \A q \in pending : p.sequence <= q.sequence

-----------------------------------------------------------------------------
(* The transactions. *)

\* Mutant: duplicates are not recognised.
EnqueueAgain(e) ==
  /\ PutPending([sequence |-> nextSequence, eventId |-> e, attemptCount |-> 0])
  /\ nextSequence' = nextSequence + 1
  /\ nextSequence <= Cardinality(EventIds) + 1
  /\ index' = [index EXCEPT ![e] =
                 [status |-> "pending", sequence |-> nextSequence,
                  attemptCount |-> 0, expiresAt |-> None]]
  /\ UNCHANGED <<running, gc, attempts, now>>

\* enqueueMailboxEvent: an event id the index still knows is a duplicate and
\* changes nothing, so only a first delivery is a step.
EnqueueMailboxEvent(e) ==
  /\ index[e] = None
  /\ PutPending([sequence |-> nextSequence, eventId |-> e, attemptCount |-> 0])
  /\ nextSequence' = nextSequence + 1
  /\ index' = [index EXCEPT ![e] =
                 [status |-> "pending", sequence |-> nextSequence,
                  attemptCount |-> 0, expiresAt |-> None]]
  /\ UNCHANGED <<running, gc, attempts, now>>

\* recoverStaleRunningEvent, called by instance i.
RecoverStaleRunningEvent(i) ==
  /\ running # None
  /\ ShouldRecoverRunningEvent(i)
  /\ running' = None
  /\ \/ /\ running.attemptCount >= MaxAttempts
        /\ UpdateMailboxEventState(running.eventId, "failed",
             index[running.eventId].sequence, running.attemptCount)
        /\ UNCHANGED pending
     \/ /\ running.attemptCount < MaxAttempts
        /\ PutPending(RetryRecord(running))
        /\ UpdateMailboxEventState(running.eventId, "pending",
             running.sequence, running.attemptCount)
  /\ UNCHANGED <<nextSequence, attempts, now>>

\* The record claimNextMailboxEvent stores and returns for pending record p.
ClaimedRecord(p, i) ==
  [sequence       |-> p.sequence,
   eventId        |-> p.eventId,
   attemptCount   |-> p.attemptCount + 1,
   startedAt      |-> now,
   owner          |-> i,
   leaseExpiresAt |-> now + LeaseMs]

\* claimNextMailboxEvent, called by instance i.
ClaimNextMailboxEvent(i) ==
  /\ running = None
  /\ \E p \in pending :
       /\ IsFirstPending(p)
       /\ pending' = pending \ {p}
       /\ running' = ClaimedRecord(p, i)
       /\ attempts' = attempts \cup {ClaimedRecord(p, i)}
       /\ UpdateMailboxEventState(p.eventId, "running", p.sequence, p.attemptCount + 1)
  /\ UNCHANGED <<nextSequence, now>>

\* completeMailboxEvent by the holder of attempt a.
CompleteMailboxEvent(a) ==
  /\ a \in attempts
  /\ attempts' = attempts \ {a}
  /\ \/ /\ IsSameRunningAttempt(a)
        /\ running' = None
        /\ UpdateMailboxEventState(a.eventId, "completed", a.sequence, a.attemptCount)
     \/ /\ ~IsSameRunningAttempt(a)
        /\ UNCHANGED <<running, index, gc>>
  /\ UNCHANGED <<nextSequence, pending, now>>

\* failMailboxEvent by the holder of attempt a.
FailMailboxEvent(a) ==
  /\ a \in attempts
  /\ attempts' = attempts \ {a}
  /\ \/ /\ IsSameRunningAttempt(a)
        /\ running' = None
        /\ \/ /\ a.attemptCount >= MaxAttempts
              /\ UpdateMailboxEventState(a.eventId, "failed", a.sequence, a.attemptCount)
              /\ UNCHANGED pending
           \/ /\ a.attemptCount < MaxAttempts
              /\ PutPending(RetryRecord(a))
              /\ UpdateMailboxEventState(a.eventId, "pending", a.sequence, a.attemptCount)
     \/ /\ ~IsSameRunningAttempt(a)
        /\ UNCHANGED <<pending, running, index, gc>>
  /\ UNCHANGED <<nextSequence, now>>

\* The holder of attempt a is gone, or its settling transaction was rejected:
\* nothing is stored and nobody will settle this attempt any more.
AbandonAttempt(a) ==
  /\ a \in attempts
  /\ attempts' = attempts \ {a}
  /\ UNCHANGED <<nextSequence, pending, running, index, gc, now>>

\* The keys of the garbage collection index are listed by expiry, at most
\* CleanupBatch of them; the scan stops at the first that has not expired.
IsCleanupBatch(batch) ==
  /\ Cardinality(batch) <= CleanupBatch
  /\ batch # gc => Cardinality(batch) = CleanupBatch
  /\ \A b \in batch : \A g \in gc \ batch : b.expiresAt <= g.expiresAt

\* Mutant: the scan does not stop at the keys that have not expired.
HasAnyExpiry(g) == g.expiresAt # None

HasExpired(g) == g.expiresAt <= now

\* Whether the scanned key still names the terminal state of its event.
KeyIsCurrent(g) ==
  /\ index[g.eventId] # None
  /\ index[g.eventId].expiresAt = g.expiresAt
  /\ Terminal(index[g.eventId].status)

\* cleanupExpiredMailboxEvents
CleanupExpiredMailboxEvents ==
  /\ \E batch \in SUBSET gc :
       /\ IsCleanupBatch(batch)
       /\ LET expired == {g \in batch : HasExpired(g)}
          IN  /\ expired # {}
              /\ gc' = gc \ expired
              /\ index' = [e \in EventIds |->
                             IF \E g \in expired : g.eventId = e /\ KeyIsCurrent(g)
                             THEN None ELSE index[e]]
  /\ UNCHANGED <<nextSequence, pending, running, attempts, now>>

\* The wall clock.
Tick ==
  /\ now < MaxTime
  /\ now' = now + 1
  /\ UNCHANGED <<nextSequence, pending, running, index, gc, attempts>>

Next ==
  \/ \E e \in EventIds : EnqueueMailboxEvent(e)
  \/ \E i \in Instances : RecoverStaleRunningEvent(i)
  \/ \E i \in Instances : ClaimNextMailboxEvent(i)
  \/ \E a \in attempts : CompleteMailboxEvent(a)
  \/ \E a \in attempts : FailMailboxEvent(a)
  \/ \E a \in attempts : AbandonAttempt(a)
  \/ CleanupExpiredMailboxEvents
  \/ Tick

Spec == Init /\ [][Next]_vars

-----------------------------------------------------------------------------
(* Properties. *)

\* A queued event is reported pending, under the sequence and the count it has.
PendingIsIndexed ==
  \A p \in pending :
    /\ index[p.eventId] # None
    /\ index[p.eventId].status = "pending"
    /\ index[p.eventId].sequence = p.sequence
    /\ index[p.eventId].attemptCount = p.attemptCount

\* The event in the running slot is reported running.
RunningIsIndexed ==
  running # None =>
    /\ index[running.eventId] # None
    /\ index[running.eventId].status = "running"
    /\ index[running.eventId].sequence = running.sequence
    /\ index[running.eventId].attemptCount = running.attemptCount

\* An unfinished event is in the queue or in the running slot.
UnfinishedIsQueued ==
  \A e \in EventIds : index[e] # None =>
    /\ index[e].status = "pending" => \E p \in pending : p.eventId = e
    /\ index[e].status = "running" => running # None /\ running.eventId = e

\* The status a client reads from the index and the place of the event in the
\* queue agree in every state: an event reported pending is queued exactly
\* once, with the attempt count the index reports, the one reported running is
\* the one in the running slot, and nothing finished or forgotten is queued.
\* No accepted event is lost and none is queued twice, whatever the callers do.
IndexAgreesWithQueue ==
  /\ PendingIsIndexed
  /\ RunningIsIndexed
  /\ UnfinishedIsQueued

\* Events are handled strictly in the order in which they were accepted, also
\* through retries and recoveries: once an event has been attempted, every
\* event accepted before it is finished.
HandledInOrder ==
  \A e, f \in EventIds :
    /\ index[e] # None
    /\ index[f] # None
    /\ index[e].attemptCount > 0
    /\ index[f].sequence < index[e].sequence
    => Terminal(index[f].status)

\* No event is attempted more than MAILBOX_MAX_ATTEMPTS times, and one that
\* waits for another attempt has one left.
AttemptsBounded ==
  \A e \in EventIds : index[e] # None =>
    /\ index[e].attemptCount <= MaxAttempts
    /\ index[e].status = "pending" => index[e].attemptCount < MaxAttempts

\* The garbage collection index holds exactly one key for every finished event,
\* the key of its expiry: none leaks, and every finished event is collectable.
GcKeysAreExact ==
  gc = {[eventId |-> e, expiresAt |-> index[e].expiresAt] :
          e \in {x \in EventIds : index[x] # None /\ Terminal(index[x].status)}}

\* Two attempts that are held at the same time are never the same attempt of
\* the same acceptance, so the fence of isSameRunningAttempt lets at most one
\* holder settle an event.
AttemptsDistinct ==
  \A a, b \in attempts :
    a.sequence = b.sequence /\ a.attemptCount = b.attemptCount => a = b

\* Only the holder of the attempt in the running slot settles it: a holder that was
\* superseded by a recovery, or by a later acceptance of its event, changes nothing.
SettledByItsHolder ==
  [][running # None /\ attempts' # attempts /\ running' = None
       => running \in attempts \ attempts']_vars

\* The outcome of an event never changes, and the event is not forgotten (and
\* so cannot be accepted a second time) before its retention window is over.
OutcomeIsFinalUntilExpiry ==
  [][\A e \in EventIds :
       index[e] # None /\ index'[e] # index[e] =>
         IF index'[e] = None
         THEN Terminal(index[e].status) /\ index[e].expiresAt <= now
         ELSE ~Terminal(index[e].status)]_vars

-----------------------------------------------------------------------------
(* The inductive invariant behind these properties. *)

\* Sequence numbers come from a counter that is ahead of all that were given.
SequencesAreFresh ==
  /\ \A e \in EventIds : index[e] # None => index[e].sequence < nextSequence
  /\ \A a \in attempts : a.sequence < nextSequence

SequencesAreDistinct ==
  \A e, f \in EventIds :
    /\ index[e] # None
    /\ index[f] # None
    /\ index[e].sequence = index[f].sequence
    => e = f

\* Only a finished event has an expiry.
ExpiryMeansFinished ==
  \A e \in EventIds : index[e] # None =>
    (index[e].expiresAt = None <=> ~Terminal(index[e].status))

\* A held attempt never runs ahead of the index.
HeldAttemptsAreOld ==
  \A a \in attempts, e \in EventIds :
    index[e] # None /\ index[e].sequence = a.sequence =>
      a.attemptCount <= index[e].attemptCount

MailboxInv ==
  /\ TypeOK
  /\ IndexAgreesWithQueue
  /\ SequencesAreFresh
  /\ SequencesAreDistinct
  /\ ExpiryMeansFinished
  /\ HandledInOrder
  /\ AttemptsBounded
  /\ GcKeysAreExact
  /\ HeldAttemptsAreOld
  /\ AttemptsDistinct

-----------------------------------------------------------------------------
(* The mailbox as a queue: what its index shows of each event. *)

PhaseOf(e) ==
  IF index[e] = None THEN "unknown"
  ELSE IF index[e].status = "pending" THEN "waiting"
  ELSE IF index[e].status = "running" THEN "active"
  ELSE IF index[e].status = "completed" THEN "done"
  ELSE "dead"

Queue == INSTANCE SerialQueue WITH
  Jobs       <- EventIds,
  MaxTries   <- MaxAttempts,
  phase      <- [e \in EventIds |-> PhaseOf(e)],
  ticket     <- [e \in EventIds |-> IF index[e] = None THEN 0 ELSE index[e].sequence],
  tries      <- [e \in EventIds |-> IF index[e] = None THEN 0 ELSE index[e].attemptCount],
  lastTicket <- nextSequence - 1

\* Seen through its index, the mailbox is a serial queue: it accepts an event
\* once while it remembers it, claims only the oldest one and only while none is
\* running, retries it in place, and gives it up only when its attempts are used.
ImplementsSerialQueue == Queue!Spec
=============================================================================
