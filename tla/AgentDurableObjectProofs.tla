---------------------- MODULE AgentDurableObjectProofs ----------------------
(***************************************************************************)
(* Proofs about AgentMailbox and AgentDurableObject, for every value of    *)
(* their constants: first the mailbox, then the object that works on it.   *)
(***************************************************************************)
EXTENDS AgentDurableObject, FiniteSetTheorems, SequenceTheorems, WellFoundedInduction, TLAPS

-----------------------------------------------------------------------------
(* The mailbox. *)

\* The invariant holds of an empty mailbox.
LEMMA InitInv == Init => MailboxInv
  BY MailboxConstants
  DEF Init, MailboxInv, TypeOK, IndexAgreesWithQueue, SequencesAreFresh,
      PendingIsIndexed, RunningIsIndexed, UnfinishedIsQueued, SequencesAreDistinct,
      ExpiryMeansFinished, HandledInOrder, AttemptsBounded, GcKeysAreExact,
      HeldAttemptsAreOld, AttemptsDistinct

\* A state of the index has a number where a number is expected.
LEMMA IndexTypes ==
  ASSUME TypeOK, NEW e \in EventIds, index[e] # None
  PROVE  /\ index[e] \in EventState
         /\ index[e].sequence \in Nat
         /\ index[e].attemptCount \in Nat
         /\ index[e].status \in Status
         /\ index[e].expiresAt \in Nat \cup {None}
  BY DEF TypeOK, EventState

-----------------------------------------------------------------------------
LEMMA EnqueueInv ==
  ASSUME MailboxInv, NEW e \in EventIds, EnqueueMailboxEvent(e)
  PROVE  MailboxInv'
<1> DEFINE record == [sequence |-> nextSequence, eventId |-> e, attemptCount |-> 0]
           state  == [status |-> "pending", sequence |-> nextSequence,
                      attemptCount |-> 0, expiresAt |-> None]
<1> USE DEF MailboxInv
<1>1. /\ index[e] = None
      /\ nextSequence' = nextSequence + 1
      /\ index' = [index EXCEPT ![e] = state]
      /\ UNCHANGED <<running, gc, attempts, now>>
  BY DEF EnqueueMailboxEvent
<1>2. \A p \in pending : p.sequence < nextSequence
  BY DEF TypeOK, IndexAgreesWithQueue, PendingIsIndexed, SequencesAreFresh, PendingRecord
<1>3. pending' = pending \cup {record}
  BY <1>2 DEF EnqueueMailboxEvent, PutPending, TypeOK, PendingRecord
<1>4. state \in EventState /\ state # None /\ record \in PendingRecord
  BY MailboxConstants DEF TypeOK, EventState, PendingRecord, Status
<1>5. index'[e] = state /\ \A f \in EventIds \ {e} : index'[f] = index[f]
  BY <1>1 DEF TypeOK
<1>6. ~Terminal(state.status)
  BY DEF Terminal
<1>7. TypeOK'
  BY <1>1, <1>3, <1>4 DEF TypeOK
<1>8. IndexAgreesWithQueue'
  <2>1. PendingIsIndexed'
    <3>1. \A p \in pending : p.eventId # e /\ p.eventId \in EventIds
      BY <1>1 DEF IndexAgreesWithQueue, PendingIsIndexed, TypeOK, PendingRecord
    <3>2. \A p \in pending : index'[p.eventId] = index[p.eventId]
      BY <1>5, <3>1
    <3> QED
      BY <1>3, <1>4, <1>5, <3>2 DEF IndexAgreesWithQueue, PendingIsIndexed
  <2>2. RunningIsIndexed'
    <3>1. running # None => index'[running.eventId] = index[running.eventId]
      BY <1>1, <1>5
      DEF IndexAgreesWithQueue, RunningIsIndexed, TypeOK, RunningRecord
    <3> QED
      BY <1>1, <3>1 DEF IndexAgreesWithQueue, RunningIsIndexed
  <2>3. UnfinishedIsQueued'
    <3>1. record \in pending' /\ record.eventId = e /\ state.status = "pending"
      BY <1>3
    <3>2. \A f \in EventIds \ {e} : index'[f] # None /\ index'[f].status = "pending"
             => \E p \in pending' : p.eventId = f
      BY <1>3, <1>5 DEF IndexAgreesWithQueue, UnfinishedIsQueued
    <3>3. \A f \in EventIds \ {e} : index'[f] # None /\ index'[f].status = "running"
             => running' # None /\ running'.eventId = f
      BY <1>1, <1>5 DEF IndexAgreesWithQueue, UnfinishedIsQueued
    <3> QED
      BY <1>5, <3>1, <3>2, <3>3 DEF UnfinishedIsQueued
  <2> QED
    BY <2>1, <2>2, <2>3 DEF IndexAgreesWithQueue
<1>9. SequencesAreFresh'
  BY <1>1, <1>5, IndexTypes DEF SequencesAreFresh, TypeOK, RunningRecord
<1>10. SequencesAreDistinct'
  BY <1>5, IndexTypes DEF SequencesAreDistinct, SequencesAreFresh
<1>11. ExpiryMeansFinished'
  BY <1>5, <1>6 DEF ExpiryMeansFinished, Terminal
<1>12. HandledInOrder'
  BY <1>5, <1>6, IndexTypes DEF HandledInOrder, SequencesAreFresh, Terminal, TypeOK
<1>13. AttemptsBounded'
  BY <1>5, MailboxConstants DEF AttemptsBounded
<1>14. GcKeysAreExact'
  BY <1>1, <1>5, <1>6 DEF GcKeysAreExact, Terminal
<1>15. HeldAttemptsAreOld'
  BY <1>1, <1>5 DEF HeldAttemptsAreOld, SequencesAreFresh, TypeOK, RunningRecord
<1>16. AttemptsDistinct'
  BY <1>1 DEF AttemptsDistinct
<1> QED
  BY <1>7, <1>8, <1>9, <1>10, <1>11, <1>12, <1>13, <1>14, <1>15, <1>16

-----------------------------------------------------------------------------
(* Recovering, completing and failing are two kinds of step: the running     *)
(* event gets its outcome, or it goes back to the queue.                     *)

\* The running event, and what the index says about it.
LEMMA RunningFacts ==
  ASSUME MailboxInv, running # None
  PROVE  /\ running \in RunningRecord
         /\ running.eventId \in EventIds
         /\ running.sequence \in Nat
         /\ running.attemptCount \in Nat
         /\ running.attemptCount <= MaxAttempts
         /\ index[running.eventId] # None
         /\ index[running.eventId].status = "running"
         /\ index[running.eventId].sequence = running.sequence
         /\ index[running.eventId].attemptCount = running.attemptCount
         /\ index[running.eventId].expiresAt = None
         /\ \A p \in pending : /\ p.eventId \in EventIds
                               /\ p.eventId # running.eventId
                               /\ p.sequence # running.sequence
<1> USE DEF MailboxInv
<1>1. /\ running \in RunningRecord
      /\ running.eventId \in EventIds
      /\ running.sequence \in Nat
      /\ running.attemptCount \in Nat
  BY DEF TypeOK, RunningRecord
<1>2. /\ index[running.eventId] # None
      /\ index[running.eventId].status = "running"
      /\ index[running.eventId].sequence = running.sequence
      /\ index[running.eventId].attemptCount = running.attemptCount
  BY DEF IndexAgreesWithQueue, RunningIsIndexed
<1>3. index[running.eventId].expiresAt = None
  BY <1>1, <1>2 DEF ExpiryMeansFinished, Terminal
<1>4. running.attemptCount <= MaxAttempts
  BY <1>1, <1>2 DEF AttemptsBounded
<1>5. \A p \in pending : p.eventId \in EventIds /\ p.eventId # running.eventId
  BY <1>2 DEF IndexAgreesWithQueue, PendingIsIndexed, TypeOK, PendingRecord
<1>6. \A p \in pending : p.sequence # running.sequence
  BY <1>1, <1>2, <1>5
  DEF IndexAgreesWithQueue, PendingIsIndexed, SequencesAreDistinct
<1> QED
  BY <1>1, <1>2, <1>3, <1>4, <1>5, <1>6

\* A step that gives the running event an outcome.
Settles(status) ==
  /\ running # None
  /\ running' = None
  /\ Terminal(status)
  /\ status = "failed" => running.attemptCount >= MaxAttempts
  /\ UpdateMailboxEventState(running.eventId, status, running.sequence, running.attemptCount)
  /\ UNCHANGED <<nextSequence, pending, now>>
  /\ attempts' \subseteq attempts

LEMMA SettlesInv ==
  ASSUME MailboxInv, NEW status \in Status, Settles(status)
  PROVE  MailboxInv'
<1> DEFINE e     == running.eventId
           state == [status |-> status, sequence |-> running.sequence,
                     attemptCount |-> running.attemptCount,
                     expiresAt |-> now + RetentionMs]
           key   == [eventId |-> e, expiresAt |-> now + RetentionMs]
<1> USE DEF MailboxInv
<1>1. /\ running # None
      /\ running' = None
      /\ Terminal(status)
      /\ nextSequence' = nextSequence /\ pending' = pending /\ now' = now
      /\ attempts' \subseteq attempts
  BY DEF Settles
<1>2. /\ running \in RunningRecord
      /\ e \in EventIds
      /\ running.sequence \in Nat
      /\ running.attemptCount \in Nat
      /\ running.attemptCount <= MaxAttempts
      /\ index[e] # None
      /\ index[e].status = "running"
      /\ index[e].sequence = running.sequence
      /\ index[e].attemptCount = running.attemptCount
      /\ index[e].expiresAt = None
      /\ \A p \in pending : p.eventId \in EventIds /\ p.eventId # e
  BY <1>1, RunningFacts
<1>3. now + RetentionMs \in Nat /\ now + RetentionMs # None
  BY MailboxConstants DEF TypeOK
<1>4. ExpiresAt(e) = None /\ NextExpiresAt(e, status) = now + RetentionMs
  BY <1>1, <1>2 DEF ExpiresAt, NextExpiresAt
<1>5. index' = [index EXCEPT ![e] = state] /\ gc' = gc \cup {key}
  BY <1>3, <1>4 DEF Settles, UpdateMailboxEventState
<1>6. state \in EventState /\ state # None /\ key \in GcRecord
  BY <1>2, <1>3, MailboxConstants DEF EventState, GcRecord
<1>7. index'[e] = state /\ \A f \in EventIds \ {e} : index'[f] = index[f]
  BY <1>2, <1>5 DEF TypeOK
<1>8. TypeOK'
  BY <1>1, <1>2, <1>5, <1>6 DEF TypeOK
<1>9. IndexAgreesWithQueue'
  <2>1. PendingIsIndexed'
    BY <1>1, <1>2, <1>7 DEF IndexAgreesWithQueue, PendingIsIndexed
  <2>2. RunningIsIndexed'
    BY <1>1 DEF RunningIsIndexed
  <2>3. state.status # "pending" /\ state.status # "running"
    BY <1>1 DEF Terminal
  <2>4. UnfinishedIsQueued'
    BY <1>1, <1>2, <1>7, <2>3 DEF IndexAgreesWithQueue, UnfinishedIsQueued
  <2> QED
    BY <2>1, <2>2, <2>4 DEF IndexAgreesWithQueue
<1>10. SequencesAreFresh'
  BY <1>1, <1>2, <1>7 DEF SequencesAreFresh
<1>11. SequencesAreDistinct'
  BY <1>2, <1>7 DEF SequencesAreDistinct
<1>12. ExpiryMeansFinished'
  BY <1>1, <1>3, <1>7 DEF ExpiryMeansFinished
<1>13. HandledInOrder'
  BY <1>1, <1>2, <1>7 DEF HandledInOrder
<1>14. AttemptsBounded'
  BY <1>1, <1>2, <1>7 DEF AttemptsBounded, Terminal
<1>15. GcKeysAreExact'
  <2>1. Terminal(state.status)
    BY <1>1
  <2>2. ~Terminal(index[e].status)
    BY <1>2 DEF Terminal
  <2> QED
    BY <1>2, <1>5, <1>6, <1>7, <2>1, <2>2 DEF GcKeysAreExact
<1>16. HeldAttemptsAreOld'
  BY <1>1, <1>2, <1>7 DEF HeldAttemptsAreOld
<1>17. AttemptsDistinct'
  BY <1>1 DEF AttemptsDistinct
<1> QED
  BY <1>8, <1>9, <1>10, <1>11, <1>12, <1>13, <1>14, <1>15, <1>16, <1>17

\* A step that puts the running event back into the queue.
Requeues ==
  /\ running # None
  /\ running.attemptCount < MaxAttempts
  /\ running' = None
  /\ PutPending(RetryRecord(running))
  /\ UpdateMailboxEventState(running.eventId, "pending", running.sequence, running.attemptCount)
  /\ UNCHANGED <<nextSequence, now>>
  /\ attempts' \subseteq attempts

LEMMA RequeuesInv ==
  ASSUME MailboxInv, Requeues
  PROVE  MailboxInv'
<1> DEFINE e      == running.eventId
           record == RetryRecord(running)
           state  == [status |-> "pending", sequence |-> running.sequence,
                      attemptCount |-> running.attemptCount, expiresAt |-> None]
<1> USE DEF MailboxInv
<1>1. /\ running # None
      /\ running' = None
      /\ running.attemptCount < MaxAttempts
      /\ nextSequence' = nextSequence /\ now' = now
      /\ attempts' \subseteq attempts
  BY DEF Requeues
<1>2. /\ running \in RunningRecord
      /\ e \in EventIds
      /\ running.sequence \in Nat
      /\ running.attemptCount \in Nat
      /\ index[e] # None
      /\ index[e].status = "running"
      /\ index[e].sequence = running.sequence
      /\ index[e].attemptCount = running.attemptCount
      /\ index[e].expiresAt = None
      /\ \A p \in pending : /\ p.eventId \in EventIds
                            /\ p.eventId # e
                            /\ p.sequence # running.sequence
  BY <1>1, RunningFacts
<1>3. ExpiresAt(e) = None /\ NextExpiresAt(e, "pending") = None
  BY <1>2 DEF ExpiresAt, NextExpiresAt, Terminal
<1>4. index' = [index EXCEPT ![e] = state] /\ gc' = gc
  BY <1>3 DEF Requeues, UpdateMailboxEventState
<1>5. /\ record \in PendingRecord
      /\ record.eventId = e
      /\ record.sequence = running.sequence
      /\ record.attemptCount = running.attemptCount
  BY <1>2 DEF RetryRecord, PendingRecord
<1>6. pending' = pending \cup {record}
  BY <1>2, <1>5 DEF Requeues, PutPending
<1>7. state \in EventState /\ state # None
  BY <1>2, MailboxConstants DEF EventState, Status
<1>8. index'[e] = state /\ \A f \in EventIds \ {e} : index'[f] = index[f]
  BY <1>2, <1>4 DEF TypeOK
<1>9. TypeOK'
  BY <1>1, <1>2, <1>4, <1>5, <1>6, <1>7 DEF TypeOK
<1>10. IndexAgreesWithQueue'
  <2>1. PendingIsIndexed'
    <3>1. \A p \in pending : index'[p.eventId] = index[p.eventId]
      BY <1>2, <1>8
    <3> QED
      BY <1>5, <1>6, <1>7, <1>8, <3>1 DEF IndexAgreesWithQueue, PendingIsIndexed
  <2>2. RunningIsIndexed'
    BY <1>1 DEF RunningIsIndexed
  <2>3. UnfinishedIsQueued'
    <3>1. record \in pending' /\ record.eventId = e /\ state.status = "pending"
      BY <1>5, <1>6
    <3>2. \A f \in EventIds \ {e} : index'[f] # None =>
            /\ index'[f].status = "pending" => \E p \in pending' : p.eventId = f
            /\ index'[f].status # "running"
      BY <1>1, <1>6, <1>8 DEF IndexAgreesWithQueue, UnfinishedIsQueued
    <3> QED
      BY <1>8, <3>1, <3>2 DEF UnfinishedIsQueued
  <2> QED
    BY <2>1, <2>2, <2>3 DEF IndexAgreesWithQueue
<1>11. SequencesAreFresh'
  BY <1>1, <1>2, <1>8 DEF SequencesAreFresh
<1>12. SequencesAreDistinct'
  BY <1>2, <1>8 DEF SequencesAreDistinct
<1>13. ExpiryMeansFinished'
  BY <1>8 DEF ExpiryMeansFinished, Terminal
<1>14. HandledInOrder'
  BY <1>1, <1>2, <1>8 DEF HandledInOrder, Terminal
<1>15. AttemptsBounded'
  BY <1>1, <1>2, <1>8, MailboxConstants DEF AttemptsBounded
<1>16. GcKeysAreExact'
  <2>1. ~Terminal(state.status) /\ ~Terminal(index[e].status)
    BY <1>2 DEF Terminal
  <2> QED
    BY <1>2, <1>4, <1>8, <2>1 DEF GcKeysAreExact
<1>17. HeldAttemptsAreOld'
  BY <1>1, <1>2, <1>8 DEF HeldAttemptsAreOld
<1>18. AttemptsDistinct'
  BY <1>1 DEF AttemptsDistinct
<1> QED
  BY <1>9, <1>10, <1>11, <1>12, <1>13, <1>14, <1>15, <1>16, <1>17, <1>18

-----------------------------------------------------------------------------
LEMMA ClaimInv ==
  ASSUME MailboxInv, NEW i \in Instances, NEW p \in pending, IsFirstPending(p),
         running = None,
         pending' = pending \ {p},
         running' = ClaimedRecord(p, i),
         attempts' = attempts \cup {ClaimedRecord(p, i)},
         UpdateMailboxEventState(p.eventId, "running", p.sequence, p.attemptCount + 1),
         UNCHANGED <<nextSequence, now>>
  PROVE  MailboxInv'
<1> DEFINE e     == p.eventId
           taken == ClaimedRecord(p, i)
           state == [status |-> "running", sequence |-> p.sequence,
                     attemptCount |-> p.attemptCount + 1, expiresAt |-> None]
<1> USE DEF MailboxInv
<1>1. /\ p \in PendingRecord
      /\ e \in EventIds
      /\ p.sequence \in Nat
      /\ p.attemptCount \in Nat
  BY DEF TypeOK, PendingRecord
<1>2. /\ index[e] # None
      /\ index[e].status = "pending"
      /\ index[e].sequence = p.sequence
      /\ index[e].attemptCount = p.attemptCount
  BY DEF IndexAgreesWithQueue, PendingIsIndexed
<1>3. index[e].expiresAt = None /\ p.attemptCount < MaxAttempts
  BY <1>1, <1>2 DEF ExpiryMeansFinished, AttemptsBounded, Terminal
<1>4. ExpiresAt(e) = None /\ NextExpiresAt(e, "running") = None
  BY <1>2, <1>3 DEF ExpiresAt, NextExpiresAt, Terminal
<1>5. index' = [index EXCEPT ![e] = state] /\ gc' = gc
  BY <1>4 DEF UpdateMailboxEventState
<1>6. /\ taken \in RunningRecord
      /\ taken.eventId = e
      /\ taken.sequence = p.sequence
      /\ taken.attemptCount = p.attemptCount + 1
  BY <1>1, MailboxConstants DEF ClaimedRecord, RunningRecord, TypeOK
<1>7. taken # None
  BY <1>6, MailboxConstants
<1>8. state \in EventState /\ state # None
  BY <1>1, MailboxConstants DEF EventState, Status
<1>9. index'[e] = state /\ \A f \in EventIds \ {e} : index'[f] = index[f]
  BY <1>1, <1>5 DEF TypeOK
<1>10. \A q \in pending \ {p} : q.eventId \in EventIds /\ q.eventId # e
  \* Another record of e would be under the same sequence, and p is the record there.
  <2> SUFFICES ASSUME NEW q \in pending \ {p}, q.eventId = e PROVE FALSE
    BY DEF TypeOK, PendingRecord
  <2>1. q.sequence = p.sequence /\ q.attemptCount = p.attemptCount
    BY <1>2 DEF IndexAgreesWithQueue, PendingIsIndexed
  <2>2. p \in PendingRecord /\ q \in PendingRecord
    BY DEF TypeOK
  <2> QED
    BY <2>1, <2>2 DEF PendingRecord
<1>11. TypeOK'
  BY <1>1, <1>5, <1>6, <1>8 DEF TypeOK
<1>12. IndexAgreesWithQueue'
  <2>1. PendingIsIndexed'
    BY <1>9, <1>10 DEF IndexAgreesWithQueue, PendingIsIndexed
  <2>2. RunningIsIndexed'
    BY <1>6, <1>8, <1>9 DEF RunningIsIndexed
  <2>3. UnfinishedIsQueued'
    <3>1. state.status = "running"
      OBVIOUS
    <3>2. \A f \in EventIds \ {e} : index'[f] # None =>
            /\ index'[f].status = "pending" => \E q \in pending' : q.eventId = f
            /\ index'[f].status # "running"
      BY <1>9 DEF IndexAgreesWithQueue, UnfinishedIsQueued
    <3> QED
      BY <1>6, <1>7, <1>9, <3>1, <3>2 DEF UnfinishedIsQueued
  <2> QED
    BY <2>1, <2>2, <2>3 DEF IndexAgreesWithQueue
<1>13. SequencesAreFresh'
  BY <1>1, <1>2, <1>6, <1>9 DEF SequencesAreFresh
<1>14. SequencesAreDistinct'
  BY <1>1, <1>2, <1>9 DEF SequencesAreDistinct
<1>15. ExpiryMeansFinished'
  BY <1>9 DEF ExpiryMeansFinished, Terminal
<1>16. HandledInOrder'
  <2>1. ASSUME NEW f \in EventIds, index[f] # None, index[f].sequence < p.sequence
        PROVE  Terminal(index[f].status)
    <3>1. index[f].status # "running"
      BY <2>1 DEF IndexAgreesWithQueue, UnfinishedIsQueued
    <3>2. index[f].status # "pending"
      <4> SUFFICES ASSUME index[f].status = "pending" PROVE FALSE
        OBVIOUS
      <4>1. PICK q \in pending : q.eventId = f
        BY <2>1 DEF IndexAgreesWithQueue, UnfinishedIsQueued
      <4>2. q.sequence = index[f].sequence /\ q.sequence \in Nat
        BY <4>1 DEF IndexAgreesWithQueue, PendingIsIndexed, TypeOK, PendingRecord
      <4> QED
        BY <1>1, <2>1, <4>2 DEF IsFirstPending
    <3> QED
      BY <2>1, <3>1, <3>2, IndexTypes DEF Terminal, Status
  <2>2. ASSUME NEW f \in EventIds, NEW g \in EventIds,
               index'[f] # None, index'[g] # None,
               index'[f].attemptCount > 0, index'[g].sequence < index'[f].sequence
        PROVE  Terminal(index'[g].status)
    <3>1. CASE f = e
      <4>1. g # e
        BY <1>1, <1>9, <2>2, <3>1
      <4> QED
        BY <1>9, <2>1, <2>2, <3>1, <4>1
    <3>2. CASE f # e
      <4>1. g # e
        \* e was still waiting when f had been attempted
        <5> SUFFICES ASSUME g = e PROVE FALSE
          OBVIOUS
        <5>1. index[f].attemptCount > 0 /\ index[e].sequence < index[f].sequence
          BY <1>2, <1>9, <2>2, <3>2
        <5> QED
          BY <1>1, <1>2, <1>9, <2>2, <3>2, <5>1 DEF HandledInOrder, Terminal
      <4> QED
        BY <1>9, <2>2, <3>2, <4>1 DEF HandledInOrder
    <3> QED
      BY <3>1, <3>2
  <2> QED
    BY <2>2 DEF HandledInOrder
<1>17. AttemptsBounded'
  BY <1>1, <1>3, <1>9, MailboxConstants DEF AttemptsBounded
<1>18. GcKeysAreExact'
  <2>1. ~Terminal(state.status) /\ ~Terminal(index[e].status)
    BY <1>2 DEF Terminal
  <2> QED
    BY <1>1, <1>2, <1>5, <1>8, <1>9, <2>1 DEF GcKeysAreExact
<1>19. \A a \in attempts : a.sequence = p.sequence =>
         a.attemptCount \in Nat /\ a.attemptCount <= p.attemptCount
  BY <1>1, <1>2 DEF HeldAttemptsAreOld, TypeOK, RunningRecord
<1>20. HeldAttemptsAreOld'
  <2>1. ASSUME NEW a \in attempts, NEW f \in EventIds,
               index'[f] # None, index'[f].sequence = a.sequence
        PROVE  a.attemptCount <= index'[f].attemptCount
    <3>1. CASE f = e
      BY <1>1, <1>9, <1>19, <2>1, <3>1
    <3>2. CASE f # e
      BY <1>9, <2>1, <3>2 DEF HeldAttemptsAreOld
    <3> QED
      BY <3>1, <3>2
  <2>2. ASSUME NEW f \in EventIds, index'[f] # None, index'[f].sequence = p.sequence
        PROVE  p.attemptCount + 1 <= index'[f].attemptCount
    <3>1. f = e
      BY <1>1, <1>2, <1>9, <2>2 DEF SequencesAreDistinct
    <3> QED
      BY <1>1, <1>9, <3>1
  <2> QED
    BY <1>6, <2>1, <2>2 DEF HeldAttemptsAreOld
<1>21. AttemptsDistinct'
  BY <1>1, <1>6, <1>19 DEF AttemptsDistinct
<1> QED
  BY <1>11, <1>12, <1>13, <1>14, <1>15, <1>16, <1>17, <1>18, <1>20, <1>21

LEMMA CleanupInv ==
  ASSUME MailboxInv, CleanupExpiredMailboxEvents
  PROVE  MailboxInv'
<1> USE DEF MailboxInv
<1>1. PICK expired \in SUBSET gc :
        /\ \A g \in expired : g.expiresAt <= now
        /\ gc' = gc \ expired
        /\ index' = [e \in EventIds |->
                       IF \E g \in expired : g.eventId = e /\ KeyIsCurrent(g)
                       THEN None ELSE index[e]]
  BY DEF CleanupExpiredMailboxEvents, HasExpired
<1>2. UNCHANGED <<nextSequence, pending, running, attempts, now>>
  BY DEF CleanupExpiredMailboxEvents
<1>3. \A g \in gc : KeyIsCurrent(g) /\ g.eventId \in EventIds
  BY DEF GcKeysAreExact, KeyIsCurrent
<1>4. \A e \in EventIds : index'[e] \in {index[e], None}
  BY <1>1
<1>5. \A e \in EventIds : index'[e] # index[e] =>
        index[e] # None /\ Terminal(index[e].status)
  BY <1>1 DEF KeyIsCurrent
<1>6. \A e \in EventIds :
        index'[e] = None <=> index[e] = None \/ \E g \in expired : g.eventId = e
  BY <1>1, <1>3
<1>7. TypeOK'
  BY <1>1, <1>2 DEF TypeOK
<1>8. IndexAgreesWithQueue'
  <2>1. PendingIsIndexed'
    <3>1. \A p \in pending : p.eventId \in EventIds
      BY DEF TypeOK, PendingRecord
    <3> QED
      BY <1>2, <1>5, <3>1 DEF IndexAgreesWithQueue, PendingIsIndexed, Terminal
  <2>2. RunningIsIndexed'
    BY <1>2, <1>5 DEF IndexAgreesWithQueue, RunningIsIndexed, Terminal, TypeOK, RunningRecord
  <2>3. UnfinishedIsQueued'
    BY <1>2, <1>4 DEF IndexAgreesWithQueue, UnfinishedIsQueued
  <2> QED
    BY <2>1, <2>2, <2>3 DEF IndexAgreesWithQueue
<1>9. SequencesAreFresh'
  BY <1>2, <1>4 DEF SequencesAreFresh
<1>10. SequencesAreDistinct'
  BY <1>4 DEF SequencesAreDistinct
<1>11. ExpiryMeansFinished'
  BY <1>4 DEF ExpiryMeansFinished
<1>12. HandledInOrder'
  BY <1>4 DEF HandledInOrder
<1>13. AttemptsBounded'
  BY <1>4 DEF AttemptsBounded
<1>14. GcKeysAreExact'
  <2> DEFINE Keys(ix) == {[eventId |-> e, expiresAt |-> ix[e].expiresAt] :
                            e \in {x \in EventIds : ix[x] # None /\ Terminal(ix[x].status)}}
  <2>1. ASSUME NEW g \in gc' PROVE g \in Keys(index')
    <3>1. PICK e \in EventIds : /\ index[e] # None
                               /\ Terminal(index[e].status)
                               /\ g = [eventId |-> e, expiresAt |-> index[e].expiresAt]
      BY <1>1, <2>1 DEF GcKeysAreExact
    <3>2. \A h \in expired : h.eventId # e
      BY <1>1, <2>1, <3>1 DEF GcKeysAreExact
    <3>3. index'[e] = index[e]
      BY <1>4, <1>6, <3>1, <3>2
    <3> QED
      BY <3>1, <3>3
  <2>2. ASSUME NEW g \in Keys(index') PROVE g \in gc'
    <3>1. PICK e \in EventIds : /\ index'[e] # None
                               /\ Terminal(index'[e].status)
                               /\ g = [eventId |-> e, expiresAt |-> index'[e].expiresAt]
      BY <2>2
    <3>2. index'[e] = index[e] /\ \A h \in expired : h.eventId # e
      BY <1>4, <1>6, <3>1
    <3> QED
      BY <1>1, <3>1, <3>2 DEF GcKeysAreExact
  <2> QED
    BY <2>1, <2>2 DEF GcKeysAreExact
<1>15. HeldAttemptsAreOld'
  BY <1>2, <1>4 DEF HeldAttemptsAreOld
<1>16. AttemptsDistinct'
  BY <1>2 DEF AttemptsDistinct
<1> QED
  BY <1>7, <1>8, <1>9, <1>10, <1>11, <1>12, <1>13, <1>14, <1>15, <1>16

\* Steps that store nothing: the holder of an attempt that is no longer the
\* running one, a holder that gives up, the clock.
LEMMA SilentInv ==
  ASSUME MailboxInv,
         UNCHANGED <<nextSequence, pending, running, index, gc>>,
         attempts' \subseteq attempts,
         now' \in Nat
  PROVE  MailboxInv'
  BY DEF MailboxInv, TypeOK, IndexAgreesWithQueue, PendingIsIndexed, RunningIsIndexed,
         UnfinishedIsQueued, SequencesAreFresh, SequencesAreDistinct, ExpiryMeansFinished,
         HandledInOrder, AttemptsBounded, GcKeysAreExact, HeldAttemptsAreOld, AttemptsDistinct

-----------------------------------------------------------------------------
\* A holder whose attempt is the running one holds what the running slot says.
LEMMA RecoverSteps ==
  ASSUME MailboxInv, NEW i \in Instances, RecoverStaleRunningEvent(i)
  PROVE  Settles("failed") \/ Requeues
  BY RunningFacts
  DEF RecoverStaleRunningEvent, Settles, Requeues, Terminal

LEMMA CompleteSteps ==
  ASSUME MailboxInv, NEW a \in attempts, CompleteMailboxEvent(a)
  PROVE  \/ Settles("completed")
         \/ /\ UNCHANGED <<nextSequence, pending, running, index, gc, now>>
            /\ attempts' \subseteq attempts
  BY DEF CompleteMailboxEvent, Settles, Terminal, IsSameRunningAttempt

LEMMA FailSteps ==
  ASSUME MailboxInv, NEW a \in attempts, FailMailboxEvent(a)
  PROVE  \/ Settles("failed")
         \/ Requeues
         \/ /\ UNCHANGED <<nextSequence, pending, running, index, gc, now>>
            /\ attempts' \subseteq attempts
<1>1. CASE IsSameRunningAttempt(a)
  <2>1. RetryRecord(a) = RetryRecord(running)
    BY <1>1 DEF IsSameRunningAttempt, RetryRecord
  <2> QED
    BY <1>1, <2>1 DEF FailMailboxEvent, Settles, Requeues, Terminal, IsSameRunningAttempt
<1>2. CASE ~IsSameRunningAttempt(a)
  BY <1>2 DEF FailMailboxEvent
<1> QED
  BY <1>1, <1>2

LEMMA StepInv == MailboxInv /\ [Next]_vars => MailboxInv'
<1> SUFFICES ASSUME MailboxInv, [Next]_vars PROVE MailboxInv'
  OBVIOUS
<1>1. now \in Nat
  BY DEF MailboxInv, TypeOK
<1>2. ASSUME NEW e \in EventIds, EnqueueMailboxEvent(e) PROVE MailboxInv'
  BY <1>2, EnqueueInv
<1>3. ASSUME NEW i \in Instances, RecoverStaleRunningEvent(i) PROVE MailboxInv'
  BY <1>3, RecoverSteps, SettlesInv, RequeuesInv DEF Status
<1>4. ASSUME NEW i \in Instances, ClaimNextMailboxEvent(i) PROVE MailboxInv'
  BY <1>4, ClaimInv DEF ClaimNextMailboxEvent
<1>5. ASSUME NEW a \in attempts, CompleteMailboxEvent(a) PROVE MailboxInv'
  BY <1>1, <1>5, CompleteSteps, SettlesInv, SilentInv DEF Status
<1>6. ASSUME NEW a \in attempts, FailMailboxEvent(a) PROVE MailboxInv'
  BY <1>1, <1>6, FailSteps, SettlesInv, RequeuesInv, SilentInv DEF Status
<1>7. ASSUME NEW a \in attempts, AbandonAttempt(a) PROVE MailboxInv'
  BY <1>1, <1>7, SilentInv DEF AbandonAttempt
<1>8. CASE CleanupExpiredMailboxEvents
  BY <1>8, CleanupInv
<1>9. CASE Tick
  BY <1>1, <1>9, SilentInv DEF Tick
<1>10. CASE UNCHANGED vars
  BY <1>1, <1>10, SilentInv DEF vars
<1> QED
  BY <1>2, <1>3, <1>4, <1>5, <1>6, <1>7, <1>8, <1>9, <1>10 DEF Next

\* The inductive invariant holds in every reachable state of the mailbox, for
\* any number of events, instances and attempts and any lease and retention.
THEOREM MailboxInvariant == Spec => []MailboxInv
  BY InitInv, StepInv, PTL DEF Spec

\* The stored records, the index and the held attempts keep their types.
THEOREM TypeCorrect == Spec => []TypeOK
<1>1. MailboxInv => TypeOK
  BY DEF MailboxInv
<1> QED
  BY <1>1, MailboxInvariant, PTL

\* No accepted event is lost or queued twice, and the status clients read is right.
THEOREM NothingLost == Spec => []IndexAgreesWithQueue
<1>1. MailboxInv => IndexAgreesWithQueue
  BY DEF MailboxInv
<1> QED
  BY <1>1, MailboxInvariant, PTL

\* Events are attempted strictly in the order in which they were accepted.
THEOREM InOrder == Spec => []HandledInOrder
<1>1. MailboxInv => HandledInOrder
  BY DEF MailboxInv
<1> QED
  BY <1>1, MailboxInvariant, PTL

\* At most one holder can pass the fence that settles an event.
THEOREM FenceIsExclusive == Spec => []AttemptsDistinct
<1>1. MailboxInv => AttemptsDistinct
  BY DEF MailboxInv
<1> QED
  BY <1>1, MailboxInvariant, PTL

\* Exactly the finished events can be collected.
THEOREM GcIndexIsExact == Spec => []GcKeysAreExact
<1>1. MailboxInv => GcKeysAreExact
  BY DEF MailboxInv
<1> QED
  BY <1>1, MailboxInvariant, PTL

-----------------------------------------------------------------------------
(* What each kind of step does to the index, for the theorems about steps. *)

LEMMA NextExpiryType ==
  ASSUME TypeOK, NEW e \in EventIds, NEW status
  PROVE  NextExpiresAt(e, status) \in Nat \cup {None}
  BY IndexTypes, MailboxConstants DEF NextExpiresAt, ExpiresAt, TypeOK

LEMMA EnqueueIndex ==
  ASSUME MailboxInv, NEW e \in EventIds, EnqueueMailboxEvent(e)
  PROVE  /\ index[e] = None
         /\ index' = [index EXCEPT ![e] = [status |-> "pending", sequence |-> nextSequence,
                                          attemptCount |-> 0, expiresAt |-> None]]
         /\ nextSequence' = nextSequence + 1
  BY DEF EnqueueMailboxEvent

LEMMA SettlesIndex ==
  ASSUME MailboxInv, NEW status \in Status, Settles(status)
  PROVE  /\ running.eventId \in EventIds
         /\ index[running.eventId] # None
         /\ index[running.eventId].status = "running"
         /\ Terminal(status)
         /\ status = "failed" => index[running.eventId].attemptCount >= MaxAttempts
         /\ \E t \in Nat \cup {None} : index' = [index EXCEPT ![running.eventId] =
                 [status |-> status, sequence |-> index[running.eventId].sequence,
                  attemptCount |-> index[running.eventId].attemptCount, expiresAt |-> t]]
         /\ nextSequence' = nextSequence
<1>1. /\ running # None /\ nextSequence' = nextSequence /\ Terminal(status)
      /\ status = "failed" => running.attemptCount >= MaxAttempts
  BY DEF Settles
<1>2. index' = [index EXCEPT ![running.eventId] =
        [status |-> status, sequence |-> running.sequence,
         attemptCount |-> running.attemptCount,
         expiresAt |-> NextExpiresAt(running.eventId, status)]]
  BY DEF Settles, UpdateMailboxEventState
<1> QED
  BY <1>1, <1>2, RunningFacts, NextExpiryType DEF MailboxInv

LEMMA RequeuesIndex ==
  ASSUME MailboxInv, Requeues
  PROVE  /\ running.eventId \in EventIds
         /\ index[running.eventId] # None
         /\ index[running.eventId].status = "running"
         /\ index[running.eventId].attemptCount < MaxAttempts
         /\ \E t \in Nat \cup {None} : index' = [index EXCEPT ![running.eventId] =
                 [status |-> "pending", sequence |-> index[running.eventId].sequence,
                  attemptCount |-> index[running.eventId].attemptCount, expiresAt |-> t]]
         /\ nextSequence' = nextSequence
<1>1. running # None /\ nextSequence' = nextSequence /\ running.attemptCount < MaxAttempts
  BY DEF Requeues
<1>2. index' = [index EXCEPT ![running.eventId] =
        [status |-> "pending", sequence |-> running.sequence,
         attemptCount |-> running.attemptCount,
         expiresAt |-> NextExpiresAt(running.eventId, "pending")]]
  BY DEF Requeues, UpdateMailboxEventState
<1> QED
  BY <1>1, <1>2, RunningFacts, NextExpiryType DEF MailboxInv

LEMMA ClaimIndex ==
  ASSUME MailboxInv, NEW i \in Instances, ClaimNextMailboxEvent(i)
  PROVE  \E e \in EventIds :
           /\ index[e] # None
           /\ index[e].status = "pending"
           /\ \A f \in EventIds : index[f] # None =>
                /\ index[f].status # "running"
                /\ index[f].status = "pending" => index[e].sequence <= index[f].sequence
           /\ \E t \in Nat \cup {None} : index' = [index EXCEPT ![e] =
                   [status |-> "running", sequence |-> index[e].sequence,
                    attemptCount |-> index[e].attemptCount + 1, expiresAt |-> t]]
           /\ nextSequence' = nextSequence
<1> USE DEF MailboxInv
<1>1. PICK p \in pending :
        /\ IsFirstPending(p)
        /\ UpdateMailboxEventState(p.eventId, "running", p.sequence, p.attemptCount + 1)
  BY DEF ClaimNextMailboxEvent
<1>2. running = None /\ nextSequence' = nextSequence
  BY DEF ClaimNextMailboxEvent
<1>3. /\ p.eventId \in EventIds
      /\ index[p.eventId] # None
      /\ index[p.eventId].status = "pending"
      /\ index[p.eventId].sequence = p.sequence
      /\ index[p.eventId].attemptCount = p.attemptCount
  BY DEF IndexAgreesWithQueue, PendingIsIndexed, TypeOK, PendingRecord
<1>4. ASSUME NEW f \in EventIds, index[f] # None, index[f].status = "pending"
      PROVE  p.sequence <= index[f].sequence
  <2>1. PICK q \in pending : q.eventId = f
    BY <1>4 DEF IndexAgreesWithQueue, UnfinishedIsQueued
  <2> QED
    BY <1>1, <2>1 DEF IsFirstPending, IndexAgreesWithQueue, PendingIsIndexed
<1>5. \A f \in EventIds : index[f] # None => index[f].status # "running"
  BY <1>2 DEF IndexAgreesWithQueue, UnfinishedIsQueued
<1>6. index' = [index EXCEPT ![p.eventId] =
        [status |-> "running", sequence |-> p.sequence,
         attemptCount |-> p.attemptCount + 1,
         expiresAt |-> NextExpiresAt(p.eventId, "running")]]
  BY <1>1 DEF UpdateMailboxEventState
<1> QED
  BY <1>2, <1>3, <1>4, <1>5, <1>6, NextExpiryType

LEMMA CleanupIndex ==
  ASSUME MailboxInv, CleanupExpiredMailboxEvents
  PROVE  \E S \in SUBSET EventIds :
           /\ \A e \in S : /\ index[e] # None
                           /\ Terminal(index[e].status)
                           /\ index[e].expiresAt <= now
           /\ index' = [e \in EventIds |-> IF e \in S THEN None ELSE index[e]]
           /\ nextSequence' = nextSequence
<1>1. PICK expired \in SUBSET gc :
        /\ \A g \in expired : g.expiresAt <= now
        /\ index' = [e \in EventIds |->
                       IF \E g \in expired : g.eventId = e /\ KeyIsCurrent(g)
                       THEN None ELSE index[e]]
  BY DEF CleanupExpiredMailboxEvents, HasExpired
<1> DEFINE S == {e \in EventIds : \E g \in expired : g.eventId = e /\ KeyIsCurrent(g)}
<1>2. \A e \in S : /\ index[e] # None
                  /\ Terminal(index[e].status)
                  /\ index[e].expiresAt <= now
  BY <1>1 DEF KeyIsCurrent
<1>3. index' = [e \in EventIds |-> IF e \in S THEN None ELSE index[e]]
  BY <1>1
<1>4. nextSequence' = nextSequence
  BY DEF CleanupExpiredMailboxEvents
<1> QED
  BY <1>2, <1>3, <1>4

-----------------------------------------------------------------------------
\* Each step of the mailbox changes the index in one of these ways.
LEMMA IndexSteps ==
  ASSUME MailboxInv, [Next]_vars
  PROVE  \/ \E e \in EventIds : EnqueueMailboxEvent(e)
         \/ \E i \in Instances : ClaimNextMailboxEvent(i)
         \/ \E status \in Status : Settles(status)
         \/ Requeues
         \/ CleanupExpiredMailboxEvents
         \/ UNCHANGED <<index, nextSequence>>
<1>1. ASSUME NEW i \in Instances, RecoverStaleRunningEvent(i)
      PROVE  Requeues \/ \E status \in Status : Settles(status)
  BY <1>1, RecoverSteps DEF Status
<1>2. ASSUME NEW a \in attempts, CompleteMailboxEvent(a)
      PROVE  UNCHANGED <<index, nextSequence>> \/ \E status \in Status : Settles(status)
  BY <1>2, CompleteSteps DEF Status
<1>3. ASSUME NEW a \in attempts, FailMailboxEvent(a)
      PROVE  \/ UNCHANGED <<index, nextSequence>>
             \/ Requeues
             \/ \E status \in Status : Settles(status)
  BY <1>3, FailSteps DEF Status
<1>4. ASSUME NEW a \in attempts, AbandonAttempt(a)
      PROVE  UNCHANGED <<index, nextSequence>>
  BY <1>4 DEF AbandonAttempt
<1>5. Tick \/ UNCHANGED vars => UNCHANGED <<index, nextSequence>>
  BY DEF Tick, vars
<1> QED
  BY <1>1, <1>2, <1>3, <1>4, <1>5 DEF Next

\* An outcome is never taken back, and an event is not forgotten early.
THEOREM OutcomeIsFinal == Spec => OutcomeIsFinalUntilExpiry
<1> DEFINE Final == \A e \in EventIds :
       index[e] # None /\ index'[e] # index[e] =>
         IF index'[e] = None
         THEN Terminal(index[e].status) /\ index[e].expiresAt <= now
         ELSE ~Terminal(index[e].status)
<1>1. ASSUME MailboxInv, [Next]_vars PROVE Final
  <2> USE <1>1
  <2>1. index \in [EventIds -> EventState \cup {None}] /\ None \notin EventState
    BY MailboxConstants DEF MailboxInv, TypeOK
  <2>2. ASSUME NEW e \in EventIds, NEW s \in EventState, ~Terminal(index[e].status),
               index' = [index EXCEPT ![e] = s]
        PROVE  Final
    BY <2>1, <2>2
  <2>3. ASSUME NEW e \in EventIds, EnqueueMailboxEvent(e) PROVE Final
    BY <2>1, <2>3, EnqueueIndex
  <2>4. ASSUME NEW i \in Instances, ClaimNextMailboxEvent(i) PROVE Final
    <3>1. PICK e \in EventIds, t \in Nat \cup {None} :
            /\ index[e] # None
            /\ index[e].status = "pending"
            /\ index' = [index EXCEPT ![e] =
                           [status |-> "running", sequence |-> index[e].sequence,
                            attemptCount |-> index[e].attemptCount + 1, expiresAt |-> t]]
      BY <2>4, ClaimIndex
    <3>2. [status |-> "running", sequence |-> index[e].sequence,
           attemptCount |-> index[e].attemptCount + 1, expiresAt |-> t] \in EventState
      BY <3>1, IndexTypes DEF MailboxInv, EventState, Status
    <3> QED
      BY <2>2, <3>1, <3>2 DEF Terminal
  <2>5. ASSUME NEW e \in EventIds, NEW status \in Status, NEW t \in Nat \cup {None},
               index[e] # None, index[e].status = "running",
               index' = [index EXCEPT ![e] =
                          [status |-> status, sequence |-> index[e].sequence,
                           attemptCount |-> index[e].attemptCount, expiresAt |-> t]]
        PROVE  Final
    <3>1. [status |-> status, sequence |-> index[e].sequence,
           attemptCount |-> index[e].attemptCount, expiresAt |-> t] \in EventState
      BY <2>5, IndexTypes DEF MailboxInv, EventState
    <3> QED
      BY <2>2, <2>5, <3>1 DEF Terminal
  <2>6. Requeues \/ (\E status \in Status : Settles(status)) => Final
    BY <2>5, RequeuesIndex, SettlesIndex DEF Status
  <2>7. CASE CleanupExpiredMailboxEvents
    BY <2>7, CleanupIndex
  <2>8. CASE UNCHANGED <<index, nextSequence>>
    BY <2>8
  <2> QED
    BY <2>3, <2>4, <2>6, <2>7, <2>8, IndexSteps
<1>2. MailboxInv /\ [Next]_vars => [Final]_vars
  BY <1>1
<1> QED
  BY <1>2, MailboxInvariant, PTL DEF Spec, OutcomeIsFinalUntilExpiry

-----------------------------------------------------------------------------
(* The mailbox implements the serial queue. *)

TicketOf(e) == IF index[e] = None THEN 0 ELSE index[e].sequence
TriesOf(e)  == IF index[e] = None THEN 0 ELSE index[e].attemptCount

\* When the index changes at e alone, only the job e changes in the queue.
LEMMA OneJobChanges ==
  ASSUME MailboxInv, NEW e \in EventIds, NEW s \in EventState,
         index' = [index EXCEPT ![e] = s]
  PROVE  /\ s # None /\ index'[e] = s
         /\ \A f \in EventIds \ {e} : index'[f] = index[f]
         /\ [f \in EventIds |-> PhaseOf(f)]'
              = [[f \in EventIds |-> PhaseOf(f)] EXCEPT ![e] = PhaseOf(e)']
         /\ [f \in EventIds |-> TicketOf(f)]'
              = [[f \in EventIds |-> TicketOf(f)] EXCEPT ![e] = s.sequence]
         /\ [f \in EventIds |-> TriesOf(f)]'
              = [[f \in EventIds |-> TriesOf(f)] EXCEPT ![e] = s.attemptCount]
<1>1. /\ s # None
      /\ index'[e] = s
      /\ \A f \in EventIds \ {e} : index'[f] = index[f]
  BY MailboxConstants DEF MailboxInv, TypeOK
<1>2. \A f \in EventIds \ {e} : PhaseOf(f)' = PhaseOf(f)
  BY <1>1 DEF PhaseOf
<1>3. \A f \in EventIds \ {e} : TicketOf(f)' = TicketOf(f) /\ TriesOf(f)' = TriesOf(f)
  BY <1>1 DEF TicketOf, TriesOf
<1>4. TicketOf(e)' = s.sequence /\ TriesOf(e)' = s.attemptCount
  BY <1>1 DEF TicketOf, TriesOf
<1> QED
  BY <1>1, <1>2, <1>3, <1>4

LEMMA QueueStep ==
  ASSUME MailboxInv, [Next]_vars
  PROVE  [Queue!Next]_(Queue!queueVars)
<1> DEFINE phase  == [e \in EventIds |-> PhaseOf(e)]
           ticket == [e \in EventIds |-> TicketOf(e)]
           tries  == [e \in EventIds |-> TriesOf(e)]
<1>1. nextSequence \in Nat \ {0}
  BY DEF MailboxInv, TypeOK
<1>2. ASSUME NEW e \in EventIds, EnqueueMailboxEvent(e) PROVE Queue!Accept(e)
  <2> DEFINE s == [status |-> "pending", sequence |-> nextSequence,
                   attemptCount |-> 0, expiresAt |-> None]
  <2>1. index[e] = None /\ index' = [index EXCEPT ![e] = s] /\ nextSequence' = nextSequence + 1
    BY <1>2, EnqueueIndex
  <2>2. s \in EventState
    BY <1>1 DEF EventState, Status
  <2>3. /\ s # None /\ index'[e] = s
        /\ phase' = [phase EXCEPT ![e] = PhaseOf(e)']
        /\ ticket' = [ticket EXCEPT ![e] = nextSequence]
        /\ tries' = [tries EXCEPT ![e] = 0]
    BY <2>1, <2>2, OneJobChanges
  <2>4. phase[e] = "unknown" /\ PhaseOf(e)' = "waiting" /\ tries[e] = 0
    BY <2>1, <2>3 DEF PhaseOf, TriesOf
  <2>5. tries' = tries
    BY <2>3, <2>4
  <2>6. (nextSequence - 1)' = (nextSequence - 1) + 1 /\ nextSequence = (nextSequence - 1) + 1
    BY <1>1, <2>1
  <2> QED
    BY <2>3, <2>4, <2>5, <2>6 DEF Queue!Accept, TicketOf, TriesOf
<1>3. ASSUME NEW i \in Instances, ClaimNextMailboxEvent(i)
      PROVE  \E e \in EventIds : Queue!Start(e)
  <2>1. PICK e \in EventIds, t \in Nat \cup {None} :
          /\ index[e] # None
          /\ index[e].status = "pending"
          /\ \A f \in EventIds : index[f] # None =>
               /\ index[f].status # "running"
               /\ index[f].status = "pending" => index[e].sequence <= index[f].sequence
          /\ index' = [index EXCEPT ![e] =
                  [status |-> "running", sequence |-> index[e].sequence,
                   attemptCount |-> index[e].attemptCount + 1, expiresAt |-> t]]
          /\ nextSequence' = nextSequence
    BY <1>3, ClaimIndex
  <2> DEFINE s == [status |-> "running", sequence |-> index[e].sequence,
                   attemptCount |-> index[e].attemptCount + 1, expiresAt |-> t]
  <2>2. s \in EventState
    BY <2>1, IndexTypes DEF MailboxInv, EventState, Status
  <2>3. /\ s # None /\ index'[e] = s
        /\ phase' = [phase EXCEPT ![e] = PhaseOf(e)']
        /\ ticket' = [ticket EXCEPT ![e] = index[e].sequence]
        /\ tries' = [tries EXCEPT ![e] = index[e].attemptCount + 1]
    BY <2>1, <2>2, OneJobChanges
  <2>4. PhaseOf(e)' = "active" /\ phase[e] = "waiting"
    BY <2>1, <2>3 DEF PhaseOf
  <2>5. ticket[e] = index[e].sequence /\ tries[e] = index[e].attemptCount
    BY <2>1 DEF TicketOf, TriesOf
  <2>6. \A f \in EventIds :
          /\ phase[f] # "active"
          /\ phase[f] = "waiting" => ticket[e] <= ticket[f]
    BY <2>1, <2>5 DEF PhaseOf, TicketOf
  <2>7. ticket' = ticket /\ tries' = [tries EXCEPT ![e] = @ + 1]
    BY <2>3, <2>5
  <2> QED
    BY <2>1, <2>3, <2>4, <2>6, <2>7 DEF Queue!Start, TicketOf, TriesOf
<1>4. ASSUME NEW status \in Status, NEW e \in EventIds, NEW t \in Nat \cup {None},
             index[e] # None, index[e].status = "running",
             index' = [index EXCEPT ![e] =
                        [status |-> status, sequence |-> index[e].sequence,
                         attemptCount |-> index[e].attemptCount, expiresAt |-> t]],
             nextSequence' = nextSequence,
             \/ status = "completed"
             \/ status = "failed" /\ index[e].attemptCount >= MaxAttempts
             \/ status = "pending" /\ index[e].attemptCount < MaxAttempts
      PROVE  Queue!Finish(e) \/ Queue!Retry(e) \/ Queue!GiveUp(e)
  <2> DEFINE s == [status |-> status, sequence |-> index[e].sequence,
                   attemptCount |-> index[e].attemptCount, expiresAt |-> t]
  <2>1. s \in EventState
    BY <1>4, IndexTypes DEF MailboxInv, EventState
  <2>2. /\ s # None /\ index'[e] = s
        /\ phase' = [phase EXCEPT ![e] = PhaseOf(e)']
        /\ ticket' = [ticket EXCEPT ![e] = index[e].sequence]
        /\ tries' = [tries EXCEPT ![e] = index[e].attemptCount]
    BY <1>4, <2>1, OneJobChanges
  <2>3. ticket[e] = index[e].sequence /\ tries[e] = index[e].attemptCount
    BY <1>4 DEF TicketOf, TriesOf
  <2>4. ticket' = ticket /\ tries' = tries
    BY <2>2, <2>3
  <2>5. phase[e] = "active"
    BY <1>4 DEF PhaseOf
  <2>6. CASE status = "completed"
    <3>1. PhaseOf(e)' = "done"
      BY <2>2, <2>6 DEF PhaseOf
    <3> QED
      BY <1>4, <2>2, <2>4, <2>5, <3>1 DEF Queue!Finish, TicketOf, TriesOf
  <2>7. CASE status = "failed"
    <3>1. PhaseOf(e)' = "dead"
      BY <2>2, <2>7 DEF PhaseOf
    <3> QED
      BY <1>4, <2>2, <2>3, <2>4, <2>5, <2>7, <3>1 DEF Queue!GiveUp, TicketOf, TriesOf
  <2>8. CASE status = "pending"
    <3>1. PhaseOf(e)' = "waiting"
      BY <2>2, <2>8 DEF PhaseOf
    <3> QED
      BY <1>4, <2>2, <2>3, <2>4, <2>5, <2>8, <3>1 DEF Queue!Retry, TicketOf, TriesOf
  <2> QED
    BY <1>4, <2>6, <2>7, <2>8
<1>5. Requeues \/ (\E status \in Status : Settles(status)) =>
        \E e \in EventIds : Queue!Finish(e) \/ Queue!Retry(e) \/ Queue!GiveUp(e)
  BY <1>4, RequeuesIndex, SettlesIndex DEF Status, Terminal
<1>6. CleanupExpiredMailboxEvents => \E S \in SUBSET EventIds : Queue!Forget(S)
  <2> SUFFICES ASSUME CleanupExpiredMailboxEvents
               PROVE  \E S \in SUBSET EventIds : Queue!Forget(S)
    OBVIOUS
  <2>1. PICK S \in SUBSET EventIds :
          /\ \A e \in S : index[e] # None /\ Terminal(index[e].status)
          /\ index' = [e \in EventIds |-> IF e \in S THEN None ELSE index[e]]
          /\ nextSequence' = nextSequence
    BY CleanupIndex
  <2>2. \A e \in S : phase[e] \in {"done", "dead"}
    BY <2>1 DEF PhaseOf, Terminal
  <2>3. \A e \in EventIds : PhaseOf(e)' = IF e \in S THEN "unknown" ELSE PhaseOf(e)
    BY <2>1 DEF PhaseOf
  <2>4. \A e \in EventIds : /\ TicketOf(e)' = IF e \in S THEN 0 ELSE TicketOf(e)
                            /\ TriesOf(e)' = IF e \in S THEN 0 ELSE TriesOf(e)
    BY <2>1 DEF TicketOf, TriesOf
  <2>5. /\ phase' = [e \in EventIds |-> IF e \in S THEN "unknown" ELSE phase[e]]
        /\ ticket' = [e \in EventIds |-> IF e \in S THEN 0 ELSE ticket[e]]
        /\ tries' = [e \in EventIds |-> IF e \in S THEN 0 ELSE tries[e]]
    BY <2>3, <2>4
  <2> QED
    BY <2>1, <2>2, <2>5 DEF Queue!Forget, Queue!Over, TicketOf, TriesOf
<1>7. ASSUME UNCHANGED <<index, nextSequence>> PROVE UNCHANGED Queue!queueVars
  BY <1>7 DEF Queue!queueVars, PhaseOf
<1> QED
  BY <1>2, <1>3, <1>5, <1>6, <1>7, IndexSteps DEF Queue!Next

\* The mailbox is a serial queue: one event at a time, in the order of acceptance,
\* retried in place, accepted once while it is remembered.
THEOREM MailboxIsSerialQueue == Spec => ImplementsSerialQueue
<1>1. Init => Queue!Init
  BY DEF Init, Queue!Init, PhaseOf
<1>2. MailboxInv /\ [Next]_vars => [Queue!Next]_(Queue!queueVars)
  BY QueueStep
<1> QED
  BY <1>1, <1>2, MailboxInvariant, PTL DEF Spec, Queue!Spec, ImplementsSerialQueue
-----------------------------------------------------------------------------
(* The fence compares every field of a record that can differ: the lease follows from the  *)
(* time of the claim.                                                                      *)

LeasesFit ==
  /\ running # None => running.leaseExpiresAt = running.startedAt + LeaseMs
  /\ \A a \in attempts : a.leaseExpiresAt = a.startedAt + LeaseMs

LEMMA LeasesStep == LeasesFit /\ [Next]_vars => LeasesFit'
<1> SUFFICES ASSUME LeasesFit, [Next]_vars PROVE LeasesFit'
  OBVIOUS
<1>k. ASSUME running' = running \/ running' = None, attempts' \subseteq attempts PROVE LeasesFit'
  BY <1>k DEF LeasesFit
<1>1. ASSUME NEW i \in Instances, ClaimNextMailboxEvent(i) PROVE LeasesFit'
  <2>1. PICK p \in pending : /\ running' = ClaimedRecord(p, i)
                             /\ attempts' = attempts \cup {ClaimedRecord(p, i)}
    BY <1>1 DEF ClaimNextMailboxEvent
  <2>2. ClaimedRecord(p, i).leaseExpiresAt = ClaimedRecord(p, i).startedAt + LeaseMs
    BY DEF ClaimedRecord
  <2> QED
    BY <2>1, <2>2 DEF LeasesFit
<1> QED
  BY <1>k, <1>1
  DEF Next, EnqueueMailboxEvent, RecoverStaleRunningEvent, CompleteMailboxEvent, FailMailboxEvent,
      AbandonAttempt, CleanupExpiredMailboxEvents, Tick, vars

\* A holder that passes the fence holds the record of the running slot.
LEMMA FenceIdentifies ==
  ASSUME TypeOK, LeasesFit, NEW a \in attempts, IsSameRunningAttempt(a)
  PROVE  a = running
<1>1. running # None /\ running \in RunningRecord /\ a \in RunningRecord
  BY DEF TypeOK, IsSameRunningAttempt
<1>2. /\ running.eventId = a.eventId /\ running.sequence = a.sequence
      /\ running.attemptCount = a.attemptCount /\ running.startedAt = a.startedAt
      /\ running.owner = a.owner /\ running.leaseExpiresAt = a.leaseExpiresAt
  BY <1>1 DEF LeasesFit, IsSameRunningAttempt
<1> QED
  BY <1>1, <1>2 DEF RunningRecord

\* isSameRunningAttempt keeps a superseded holder from settling an event: when an attempt is
\* given back and the running slot is emptied, the attempt was the one in the slot.
THEOREM OnlyTheHolderSettles == Spec => SettledByItsHolder
<1> DEFINE Settled == running # None /\ attempts' # attempts /\ running' = None
                        => running \in attempts \ attempts'
<1>1. Init => LeasesFit
  BY DEF Init, LeasesFit
<1>2. TypeOK /\ LeasesFit /\ [Next]_vars => [Settled]_vars
  <2> SUFFICES ASSUME TypeOK, LeasesFit, Next, running # None, attempts' # attempts, running' = None
               PROVE  running \in attempts \ attempts'
    OBVIOUS
  <2>1. ASSUME NEW a \in attempts, CompleteMailboxEvent(a) \/ FailMailboxEvent(a)
        PROVE  running \in attempts \ attempts'
    <3>1. IsSameRunningAttempt(a) /\ attempts' = attempts \ {a}
      BY <2>1 DEF CompleteMailboxEvent, FailMailboxEvent
    <3> QED
      BY <3>1, FenceIdentifies
  <2> QED
    BY <2>1
    DEF Next, EnqueueMailboxEvent, RecoverStaleRunningEvent, ClaimNextMailboxEvent, AbandonAttempt,
        CleanupExpiredMailboxEvents, Tick
<1> QED
  BY <1>1, <1>2, LeasesStep, TypeCorrect, PTL DEF Spec, SettledByItsHolder

-----------------------------------------------------------------------------
(* The object: its inductive invariant. *)

LoopPoints    == {"recover", "claim", "begin", "handler", "complete", "fail"}
HoldingPoints == {"begin", "handler", "complete", "fail"}

\* Each function waits where its code awaits, and at most one promise chain is not over.
PointsFit ==
  /\ pc["fetch"] \in {"idle", "enqueue"} \cup SchedulePoints
  /\ pc["alarm"] \in {"idle", "cleanup"} \cup SchedulePoints
  /\ \A d \in Drains : pc[d] \in {"idle"} \cup LoopPoints \cup SchedulePoints
  /\ \A d, c \in Drains : pc[d] # "idle" /\ pc[c] # "idle" => d = c
  /\ drainPromise <=> \E d \in Drains : pc[d] \in LoopPoints

\* alarm() and the drain it started take turns at the storage.  When alarm() reads the
\* pending events, and then the running one, the drain is past its recovery and cannot put
\* an event back in between.
TurnsFit(d) ==
  \/ /\ io = <<d, "alarm">>
     /\ pc["alarm"] = "cleanup" => pc[d] = "recover"
     /\ pc["alarm"] = "pending" => pc[d] \in {"claim", "pending"}
     /\ pc["alarm"] = "running" => pc[d] \notin {"recover", "fail"}
  \/ /\ io = <<"alarm", d>>
     /\ pc["alarm"] = "cleanup" => pc[d] \in {"claim", "pending"}
     /\ pc["alarm"] = "pending" => pc[d] \notin {"recover", "fail"}

\* Who waits for storage: nobody, one function, or alarm() and the drain it started.
Waits(p) == pc[p] \in StoragePoints

GateFits ==
  \/ io = <<>> /\ \A p \in Procs : ~Waits(p)
  \/ \E p \in Procs : io = <<p>> /\ \A q \in Procs : Waits(q) <=> q = p
  \/ \E d \in Drains : TurnsFit(d) /\ \A q \in Procs : Waits(q) <=> q \in {d, "alarm"}

\* A drain holds the running event from its claim to its end, and nobody else holds one.
HoldersFit ==
  /\ \A d \in Drains : item[d] # None <=> pc[d] \in HoldingPoints
  /\ \A d \in Drains : item[d] # None => item[d] = running /\ attempts = {running}
  /\ (\A d \in Drains : item[d] = None) => attempts = {}
  /\ instance \in Nat /\ instance <= faults + 1

\* One message is dispatched at a time, and it is accepted once fetch schedules the alarm.
MessagesFit ==
  /\ pc["fetch"] = "idle" => \A e \in EventIds : queue[e] # "dispatching"
  /\ \A e, f \in EventIds : queue[e] = "dispatching" /\ queue[f] = "dispatching" => e = f
  /\ pc["fetch"] \in SchedulePoints =>
       \A e \in EventIds : queue[e] = "dispatching" => index[e] # None

Work == pending # {} \/ running # None

\* What scheduleNextAlarm has seen of the work so far is still so when it goes on.
ViewsFit ==
  \A p \in Procs :
    /\ pc[p] = "running" => pending = {}
    /\ pc[p] \in {"gc", "set"} /\ Work => due[p] # None

\* Stored work has an alarm, or alarm() is about to set one, or a message brings it.
WorkIsWatched ==
  Work => \/ alarm # None
          \/ pc["alarm"] # "idle"
          \/ \E e \in EventIds : queue[e] # "acked"

\* The message of e may still be accepted; a handler may still be started for e.
MayArrive(e) == queue[e] = "queued" \/ (queue[e] = "dispatching" /\ pc["fetch"] = "enqueue")
MayRun(e) ==
  \/ index[e] # None /\ index[e].status = "pending"
  \/ /\ running # None /\ running.eventId = e
     /\ \A d \in Drains : pc[d] # "complete"

OneIf(b) == IF b THEN 1 ELSE 0

\* A fault is needed for each time that e may be handled beyond the first.
HandledOnce ==
  \A e \in EventIds : handled[e] + OneIf(MayArrive(e)) + OneIf(MayRun(e)) <= 1 + faults

ObjectInv ==
  /\ ObjectTypeOK
  /\ MailboxInv
  /\ PointsFit
  /\ GateFits
  /\ HoldersFit
  /\ MessagesFit
  /\ ViewsFit
  /\ WorkIsWatched
  /\ HandledOnce

-----------------------------------------------------------------------------
(* Short sequences. *)

LEMMA ShortSequences ==
  ASSUME NEW p, NEW q
  PROVE  /\ <<p>> # <<>> /\ <<p, q>> # <<>>
         /\ Head(<<p>>) = p /\ Head(<<p, q>>) = p
         /\ Tail(<<p>>) = <<>> /\ Tail(<<p, q>>) = <<q>>
         /\ <<>> \o <<>> = <<>> /\ <<>> \o <<p>> = <<p>> /\ <<p>> \o <<>> = <<p>>
         /\ <<p>> \o <<q>> = <<p, q>>
<1>1. <<p>> # <<>> /\ <<p, q>> # <<>>
  OBVIOUS
<1>2. Head(<<p>>) = p /\ Head(<<p, q>>) = p
  OBVIOUS
<1>3. Tail(<<p>>) = <<>>
  OBVIOUS
<1>4. Tail(<<p, q>>) = <<q>>
  OBVIOUS
<1>5. <<>> \o <<>> = <<>>
  OBVIOUS
<1>6. <<>> \o <<p>> = <<p>>
  OBVIOUS
<1>7. <<p>> \o <<>> = <<p>>
  OBVIOUS
<1>8. <<p>> \o <<q>> = <<p, q>>
  <2>1. <<p>> \in Seq({p, q}) /\ <<q>> \in Seq({p, q}) /\ <<p, q>> \in Seq({p, q})
    OBVIOUS
  <2>2. Len(<<p>>) = 1 /\ Len(<<q>>) = 1 /\ Len(<<p, q>>) = 2
    OBVIOUS
  <2>3. /\ <<p>> \o <<q>> \in Seq({p, q})
        /\ Len(<<p>> \o <<q>>) = 2
        /\ (<<p>> \o <<q>>)[1] = p /\ (<<p>> \o <<q>>)[2] = q
    BY <2>1, <2>2, ConcatProperties
  <2>4. <<p, q>>[1] = p /\ <<p, q>>[2] = q
    OBVIOUS
  <2>5. \A i \in 1 .. 2 : (<<p>> \o <<q>>)[i] = <<p, q>>[i]
    <3>1. \A i \in 1 .. 2 : i = 1 \/ i = 2
      OBVIOUS
    <3> HIDE <2>1, <2>2
    <3> QED
      BY <2>3, <2>4, <3>1
  <2> QED
    BY <2>1, <2>2, <2>3, <2>5, SeqEqual
<1> QED
  BY <1>1, <1>2, <1>3, <1>4, <1>5, <1>6, <1>7, <1>8

LEMMA EqualSequences ==
  ASSUME NEW p, NEW q, NEW r, NEW s
  PROVE  /\ <<p>> = <<q>> => p = q
         /\ <<p, r>> = <<q, s>> => p = q /\ r = s
         /\ <<p>> # <<q, r>>
  OBVIOUS

-----------------------------------------------------------------------------
(* Who waits for storage, and who goes on. *)

LEMMA PointFacts ==
  /\ \A point \in StoragePoints : point \notin {"idle", "handler"}
  /\ SchedulePoints \subseteq StoragePoints
  /\ \A point \in SchedulePoints : point \notin LoopPoints
  /\ "fetch" \in Procs /\ "alarm" \in Procs /\ Drains \subseteq Procs
  /\ "fetch" \notin Drains /\ "alarm" \notin Drains
  /\ \A p \in Procs : p = "fetch" \/ p = "alarm" \/ p \in Drains
BY DEF StoragePoints, SchedulePoints, LoopPoints, Procs, Drains

\* Whoever's operation finishes is alone, or alarm() and a drain take turns.
LEMMA WhoseTurn ==
  ASSUME GateFits, NEW p \in Procs, NEW point, At(p, point)
  PROVE  \/ io = <<p>> /\ \A q \in Procs : Waits(q) <=> q = p
         \/ /\ p \in Drains /\ io = <<p, "alarm">> /\ TurnsFit(p)
            /\ \A q \in Procs : Waits(q) <=> q \in {p, "alarm"}
         \/ /\ p = "alarm"
            /\ \E d \in Drains : /\ io = <<"alarm", d>> /\ TurnsFit(d)
                                 /\ \A q \in Procs : Waits(q) <=> q \in {d, "alarm"}
<1>1. io # <<>> /\ Head(io) = p
  BY DEF At
<1>2. ASSUME NEW q \in Procs, io = <<q>> PROVE q = p
  BY <1>1, <1>2, ShortSequences
<1>3. ASSUME NEW d \in Drains, TurnsFit(d)
      PROVE  (p = d /\ io = <<d, "alarm">>) \/ (p = "alarm" /\ io = <<"alarm", d>>)
  BY <1>1, <1>3, ShortSequences DEF TurnsFit
<1> QED
  BY <1>1, <1>2, <1>3 DEF GateFits

LEMMA WaitingIs == ASSUME NEW p, NEW point
                   PROVE  Waiting(p, point) = IF point \in StoragePoints THEN <<p>> ELSE <<>>
  BY DEF Waiting

\* p goes on to a point, and the turns of alarm() and the drain stay in order.
LEMMA GotoGate ==
  ASSUME pc \in [Procs -> {"idle", "handler"} \cup StoragePoints], GateFits,
         NEW p \in Procs, NEW point \in {"idle", "handler"} \cup StoragePoints,
         Goto(p, point), GateOpen \/ \E here : At(p, here),
         p \in Drains => /\ pc["alarm"] = "cleanup" => point \in {"claim", "pending"}
                         /\ pc["alarm"] = "pending" => point \notin {"recover", "fail"},
         p = "alarm" => /\ point # "cleanup" \/ GateOpen
                        /\ \A d \in Drains : TurnsFit(d) =>
                             /\ point = "pending" => pc[d] \in {"claim", "pending"}
                             /\ point = "running" => pc[d] \notin {"recover", "fail"}
  PROVE  GateFits'
<1>1. pc' = [pc EXCEPT ![p] = point] /\ io' = Others(p) \o Waiting(p, point)
  BY DEF Goto
<1>2. pc'[p] = point /\ \A q \in Procs : q # p => pc'[q] = pc[q]
  BY <1>1
<1>2a. /\ Waits(p)' <=> point \in StoragePoints
       /\ \A q \in Procs : q # p => (Waits(q)' <=> Waits(q))
  BY <1>2 DEF Waits
<1>3. CASE io = <<>> \/ io = <<p>>
  <2>1. \A q \in Procs : q # p => ~Waits(q)
    <3>1. CASE io = <<>>
      BY <3>1, ShortSequences DEF GateFits, TurnsFit
    <3>2. CASE io = <<p>>
      BY <3>2, ShortSequences, EqualSequences DEF GateFits, TurnsFit
    <3> QED
      BY <1>3, <3>1, <3>2
  <2>2. Others(p) = <<>>
    BY <1>3, ShortSequences DEF Others
  <2>3. io' = IF point \in StoragePoints THEN <<p>> ELSE <<>>
    BY <1>1, <2>2, ShortSequences, WaitingIs
  <2> QED
    BY <1>2a, <2>1, <2>3 DEF GateFits
<1>4. CASE p \in Drains /\ io = <<p, "alarm">> /\ \A q \in Procs : Waits(q) <=> q \in {p, "alarm"}
  <2>1. Others(p) = <<"alarm">>
    BY <1>4, ShortSequences DEF Others
  <2>2. CASE point \in StoragePoints
    <3>1. io' = <<"alarm", p>>
      BY <1>1, <2>1, <2>2, ShortSequences, WaitingIs
    <3>2. TurnsFit(p)'
      BY <1>2, <1>4, <3>1, PointFacts DEF TurnsFit
    <3> QED
      BY <1>2a, <1>4, <2>2, <3>2 DEF GateFits
  <2>3. CASE point \notin StoragePoints
    <3>1. io' = <<"alarm">>
      BY <1>1, <2>1, <2>3, ShortSequences, WaitingIs
    <3> QED
      BY <1>2a, <1>4, <2>3, <3>1, PointFacts DEF GateFits
  <2> QED
    BY <2>2, <2>3
<1>5. ASSUME NEW d \in Drains, p = "alarm", io = <<"alarm", d>>, TurnsFit(d),
             \A q \in Procs : Waits(q) <=> q \in {d, "alarm"}
      PROVE  GateFits'
  <2>1. Others(p) = <<d>>
    BY <1>5, ShortSequences DEF Others
  <2>2. CASE point \in StoragePoints
    <3>1. io' = <<d, "alarm">>
      BY <1>1, <1>5, <2>1, <2>2, ShortSequences, WaitingIs
    <3>2. point # "cleanup"
      BY <1>5, ShortSequences DEF GateOpen
    <3>3. TurnsFit(d)'
      BY <1>2, <1>5, <3>1, <3>2, PointFacts DEF TurnsFit
    <3> QED
      BY <1>2a, <1>5, <2>2, <3>3 DEF GateFits
  <2>3. CASE point \notin StoragePoints
    <3>1. io' = <<d>>
      BY <1>1, <2>1, <2>3, ShortSequences, WaitingIs
    <3> QED
      BY <1>2a, <1>5, <2>3, <3>1, PointFacts DEF GateFits
  <2> QED
    BY <2>2, <2>3
<1>6. CASE \E here : At(p, here)
  BY <1>3, <1>4, <1>5, <1>6, WhoseTurn
<1> QED
  BY <1>3, <1>6 DEF GateOpen

\* p goes on to a point of its own.
LEMMA GotoPoints ==
  ASSUME pc \in [Procs -> {"idle", "handler"} \cup StoragePoints], PointsFit,
         NEW p \in Procs, NEW point, Goto(p, point),
         p = "fetch" => point \in {"idle", "enqueue"} \cup SchedulePoints,
         p = "alarm" => point \in {"idle", "cleanup"} \cup SchedulePoints,
         p \in Drains => /\ point \in {"idle"} \cup LoopPoints \cup SchedulePoints
                         /\ pc[p] # "idle"
                         /\ drainPromise' <=> point \in LoopPoints,
         p \notin Drains => UNCHANGED drainPromise
  PROVE  PointsFit'
<1>1. pc'[p] = point /\ \A q \in Procs : q # p => pc'[q] = pc[q]
  BY DEF Goto
<1>2. CASE p \in Drains
  <2>1. \A c \in Drains : c # p => pc[c] = "idle"
    BY <1>2 DEF PointsFit
  <2>2. \A c \in Drains : c # p => pc'[c] = "idle"
    BY <1>1, <2>1, PointFacts
  <2>3. "idle" \notin LoopPoints
    BY DEF LoopPoints
  <2>4. \A d \in Drains : pc'[d] \in {"idle"} \cup LoopPoints \cup SchedulePoints
    BY <1>1, <1>2, <2>2
  <2>5. pc'["fetch"] = pc["fetch"] /\ pc'["alarm"] = pc["alarm"]
    BY <1>1, <1>2, PointFacts
  <2> QED
    BY <1>1, <1>2, <2>2, <2>3, <2>4, <2>5 DEF PointsFit
<1>3. CASE p \notin Drains
  <2>1. \A d \in Drains : pc'[d] = pc[d]
    BY <1>1, <1>3, PointFacts
  <2> QED
    BY <1>1, <1>3, <2>1, PointFacts DEF PointsFit
<1> QED
  BY <1>2, <1>3

\* p calls startDrain while every drain is idle or the one there is has its handler.
LEMMA StartGate ==
  ASSUME pc \in [Procs -> {"idle", "handler"} \cup StoragePoints], PointsFit, GateFits,
         NEW p, NEW point, StartDrain(p, point),
         \/ p = "fetch" /\ point = "idle" /\ At("fetch", "set")
         \/ p = "alarm" /\ point = "cleanup" /\ GateOpen
  PROVE  /\ PointsFit' /\ GateFits'
         /\ pc'[p] = point
         /\ \A q \in Procs : q # p => \/ pc'[q] = pc[q]
                                      \/ q \in Drains /\ pc[q] = "idle" /\ pc'[q] = "recover"
         /\ pc' \in [Procs -> {"idle", "handler"} \cup StoragePoints]
<1>0. p \in Procs /\ p \notin Drains /\ point \in {"idle", "handler"} \cup StoragePoints
  BY PointFacts DEF StoragePoints
<1>1. io = <<>> \/ io = <<p>>
  BY PointFacts, WhoseTurn DEF GateOpen
<1>2. \A q \in Procs : q # p => ~Waits(q)
  <2>1. CASE io = <<>>
    BY <2>1, ShortSequences DEF GateFits, TurnsFit
  <2>2. CASE io = <<p>>
    BY <2>2, ShortSequences, EqualSequences DEF GateFits, TurnsFit
  <2> QED
    BY <1>1, <2>1, <2>2
<1>3. CASE ~MayStartDrain
  <2>1. Goto(p, point) /\ UNCHANGED drainPromise
    BY <1>3 DEF StartDrain
  <2>2. GateFits'
    BY <1>0, <2>1, GotoGate, PointFacts
  <2>3. PointsFit'
    BY <1>0, <2>1, GotoPoints, PointFacts
  <2> QED
    BY <1>0, <2>1, <2>2, <2>3 DEF Goto
<1>4. CASE MayStartDrain
  <2>1. \A d \in Drains : pc[d] = "idle"
    <3>1. \A d \in Drains : ~Waits(d)
      BY <1>0, <1>2, PointFacts
    <3>2. \A d \in Drains : pc[d] \notin LoopPoints
      BY <1>4 DEF MayStartDrain, PointsFit
    <3> QED
      BY <3>1, <3>2, PointFacts DEF PointsFit, Waits
  <2>2. PICK d \in Drains :
          /\ drainPromise' = TRUE
          /\ pc' = [pc EXCEPT ![p] = point, ![d] = "recover"]
          /\ io' = Others(p) \o <<d>> \o Waiting(p, point)
    <3>1. \E x \in Drains : pc[x] = "idle"
      BY <2>1 DEF Drains
    <3>2. (CHOOSE x \in Drains : pc[x] = "idle") \in Drains
      BY <3>1
    <3> QED
      BY <1>4, <3>2 DEF StartDrain
  <2>3. /\ pc'[p] = point /\ pc'[d] = "recover"
        /\ \A q \in Procs : q # p /\ q # d => pc'[q] = pc[q]
        /\ pc' \in [Procs -> {"idle", "handler"} \cup StoragePoints]
    BY <1>0, <2>2, PointFacts DEF StoragePoints
  <2>4. Others(p) = <<>>
    BY <1>1, ShortSequences DEF Others
  <2>5. io' = IF point \in StoragePoints THEN <<d, p>> ELSE <<d>>
    BY <2>2, <2>4, ShortSequences, WaitingIs
  <2>6. PointsFit'
    <3>1. pc'["fetch"] \in {"idle", "enqueue"} \cup SchedulePoints
      BY <2>3, PointFacts DEF PointsFit
    <3>2. pc'["alarm"] \in {"idle", "cleanup"} \cup SchedulePoints
      BY <2>3, PointFacts DEF PointsFit
    <3>3. \A c \in Drains : c # d => pc'[c] = "idle"
      BY <1>0, <2>1, <2>3, PointFacts
    <3> QED
      BY <2>2, <2>3, <3>1, <3>2, <3>3 DEF PointsFit, LoopPoints
  <2>7. GateFits'
    <3>1. \A q \in Procs : Waits(q)' <=> (q = d \/ (q = p /\ point \in StoragePoints))
      BY <1>0, <1>2, <2>3 DEF Waits, StoragePoints
    <3>2. CASE p = "fetch"
      <4>1. point \notin StoragePoints
        BY <3>2 DEF StoragePoints, SchedulePoints
      <4> QED
        BY <2>5, <3>1, <4>1, PointFacts DEF GateFits
    <3>3. CASE p = "alarm"
      <4>1. point = "cleanup" /\ point \in StoragePoints
        BY <3>3 DEF StoragePoints
      <4>2. TurnsFit(d)'
        BY <2>3, <2>5, <3>3, <4>1 DEF TurnsFit
      <4> QED
        BY <3>1, <3>3, <4>1, <4>2 DEF GateFits
    <3> QED
      BY <3>2, <3>3
  <2> QED
    BY <2>1, <2>3, <2>6, <2>7
<1> QED
  BY <1>3, <1>4

-----------------------------------------------------------------------------
(* Every step of the object is a step of the mailbox. *)

\* A step that only moves a function on, and what can happen besides: a crash takes away
\* the attempt that was held.
LEMMA CrashAbandons ==
  ASSUME HoldersFit, Crash
  PROVE  UNCHANGED vars \/ \E a \in attempts : AbandonAttempt(a)
<1>1. /\ attempts' = {} /\ UNCHANGED <<nextSequence, pending, running, index, gc, now>>
  BY DEF Crash
<1>2. CASE attempts = {}
  BY <1>1, <1>2 DEF vars
<1>3. CASE attempts = {running}
  BY <1>1, <1>3 DEF AbandonAttempt
<1> QED
  BY <1>2, <1>3 DEF HoldersFit

LEMMA MailboxStep == ObjectInv /\ [ObjectNext]_allVars => [Next]_vars
<1> SUFFICES ASSUME ObjectInv, [ObjectNext]_allVars PROVE [Next]_vars
  OBVIOUS
<1>0. instance \in Instances /\ HoldersFit
  BY DEF ObjectInv, ObjectTypeOK
<1>1. ASSUME NEW p, ScheduleNextAlarm(p) PROVE UNCHANGED vars
  BY <1>1 DEF ScheduleNextAlarm, ListPending, GetRunning, ListGc, SetAlarm
<1>2. FetchStep => [Next]_vars
  BY <1>1 DEF FetchStep, FetchEnqueue, Next
<1>3. AlarmStep => [Next]_vars
  BY <1>1 DEF AlarmStep, AlarmCleanup, Next
<1>4. ASSUME NEW d \in Drains, DrainStep(d) \/ HandlerEnds(d) PROVE [Next]_vars
  <2>1. CASE DrainRecover(d)
    BY <1>0, <2>1 DEF DrainRecover, Next
  <2>2. CASE DrainClaim(d)
    BY <1>0, <2>2 DEF DrainClaim, Next
  <2>3. CASE DrainComplete(d)
    BY <2>3 DEF DrainComplete, CompleteMailboxEvent, Next
  <2>4. CASE DrainFail(d)
    BY <2>4 DEF DrainFail, FailMailboxEvent, Next
  <2>5. CASE DrainFinish(d) \/ HandlerBegins(d) \/ ScheduleNextAlarm(d) \/ HandlerEnds(d)
    BY <1>1, <2>5 DEF DrainFinish, HandlerBegins, HandlerEnds, HandlerReturns, HandlerThrows
  <2> QED
    BY <1>4, <2>1, <2>2, <2>3, <2>4, <2>5 DEF DrainStep
<1>5. FaultStep => [Next]_vars
  <2>1. ASSUME NEW d \in Drains, DrainStorageFails(d) PROVE [Next]_vars
    BY <2>1 DEF DrainStorageFails, AbandonAttempt, Next
  <2>2. Crash => [Next]_vars
    BY <1>0, CrashAbandons DEF Next
  <2> QED
    BY <2>1, <2>2
    DEF FaultStep, FetchStorageFails, CleanupFails, AlarmScheduleFails, HandledStorageFails,
        DetachedScheduleFails, Redeliver
<1>6. TimePasses => [Next]_vars
  BY DEF TimePasses, Next
<1>7. ASSUME NEW e \in EventIds, ReceiveFetch(e) PROVE UNCHANGED vars
  BY <1>7 DEF ReceiveFetch
<1>8. ReceiveAlarm => UNCHANGED vars
  BY DEF ReceiveAlarm
<1>9. UNCHANGED allVars => UNCHANGED vars
  BY DEF allVars
<1> QED
  BY <1>2, <1>3, <1>4, <1>5, <1>6, <1>7, <1>8, <1>9 DEF ObjectNext

LEMMA MailboxKept == ObjectInv /\ [ObjectNext]_allVars => MailboxInv'
  BY MailboxStep, StepInv DEF ObjectInv

-----------------------------------------------------------------------------
(* Every function goes from await to await in its own order. *)

\* What a step of each function does to the points: p goes on from here to point.
Moves(p, here, point) == At(p, here) /\ Goto(p, point)

LEMMA ScheduleMoves ==
  ASSUME NEW p \in Procs, ScheduleNextAlarm(p), p # "fetch" \/ ~At("fetch", "set")
  PROVE  /\ UNCHANGED drainPromise
         /\ \/ Moves(p, "pending", "gc") \/ Moves(p, "pending", "running")
            \/ Moves(p, "running", "gc") \/ Moves(p, "gc", "set")
            \/ Moves(p, "set", "idle") /\ p # "fetch"
  BY DEF ScheduleNextAlarm, ListPending, GetRunning, ListGc, SetAlarm, Moves

LEMMA ControlStep ==
  ObjectInv /\ [ObjectNext]_allVars =>
    /\ PointsFit' /\ GateFits'
    /\ pc' \in [Procs -> {"idle", "handler"} \cup StoragePoints]
<1> DEFINE PcType == pc \in [Procs -> {"idle", "handler"} \cup StoragePoints]
           Control == PointsFit' /\ GateFits' /\ PcType'
<1> SUFFICES ASSUME ObjectInv, [ObjectNext]_allVars PROVE Control
  OBVIOUS
<1>0. PcType /\ PointsFit /\ GateFits
  BY DEF ObjectInv, ObjectTypeOK
<1>p. ASSUME NEW p \in Procs, NEW point \in {"idle", "handler"} \cup StoragePoints, Goto(p, point)
      PROVE  PcType'
  BY <1>0, <1>p DEF Goto
\* A step of a drain that has begun.
<1>d. ASSUME NEW d \in Drains, NEW here \in LoopPoints \cup SchedulePoints,
             NEW point \in {"idle"} \cup LoopPoints \cup SchedulePoints,
             Moves(d, here, point) \/ (pc[d] = here /\ GateOpen /\ Goto(d, point)),
             drainPromise' <=> point \in LoopPoints,
             GateOpen \/ (here = "recover" => point \in {"claim", "pending"}),
             GateOpen \/ (here \in {"claim"} \cup SchedulePoints => point \notin {"recover", "fail"})
      PROVE  Control
  <2>1. pc[d] = here /\ pc[d] # "idle" /\ Goto(d, point) /\ (GateOpen \/ At(d, here))
    BY <1>d DEF Moves, At, LoopPoints, SchedulePoints
  <2>2. point \in {"idle", "handler"} \cup StoragePoints /\ d \in Procs
    BY <1>d, PointFacts DEF LoopPoints, StoragePoints
  <2>3. PointsFit'
    BY <1>0, <1>d, <2>1, <2>2, GotoPoints, PointFacts
  <2>4. CASE GateOpen
    <3>1. \A q \in Procs : ~Waits(q)
      BY <1>0, <2>4, ShortSequences DEF GateOpen, GateFits, TurnsFit
    <3>2. pc["alarm"] \notin {"cleanup", "pending"}
      BY <3>1, PointFacts DEF Waits, StoragePoints, SchedulePoints
    <3> QED
      BY <1>0, <1>p, <2>1, <2>2, <2>3, <2>4, <3>2, GotoGate, PointFacts
  <2>5. CASE At(d, here) /\ ~GateOpen
    <3>1. pc["alarm"] \in {"cleanup", "pending"} => io = <<d, "alarm">> /\ TurnsFit(d)
      BY <1>0, <2>2, <2>5, WhoseTurn, PointFacts DEF Waits, StoragePoints, SchedulePoints
    <3>2. /\ pc["alarm"] = "cleanup" => here = "recover"
          /\ pc["alarm"] = "pending" => here \in {"claim", "pending"}
      BY <2>1, <3>1, EqualSequences, PointFacts DEF TurnsFit
    <3>3. /\ pc["alarm"] = "cleanup" => point \in {"claim", "pending"}
          /\ pc["alarm"] = "pending" => point \notin {"recover", "fail"}
      BY <1>d, <2>5, <3>2 DEF SchedulePoints
    <3> QED
      BY <1>0, <1>p, <2>1, <2>2, <2>3, <3>3, GotoGate, PointFacts
  <2> QED
    BY <2>1, <2>4, <2>5
\* A step of alarm().
<1>a. ASSUME NEW here \in {"cleanup"} \cup SchedulePoints, NEW point \in {"idle"} \cup SchedulePoints,
             Moves("alarm", here, point), UNCHANGED drainPromise,
             point = "pending" => here = "cleanup",
             point = "running" => here = "pending"
      PROVE  Control
  <2>1. At("alarm", here) /\ Goto("alarm", point) /\ pc["alarm"] = here
    BY <1>a DEF Moves, At
  <2>2. point \in {"idle", "handler"} \cup StoragePoints
    BY <1>a, PointFacts
  <2>3. PointsFit'
    BY <1>0, <1>a, <2>1, GotoPoints, PointFacts
  <2>4. \A d \in Drains : TurnsFit(d) => io = <<"alarm", d>>
    BY <2>1, ShortSequences, PointFacts DEF At, TurnsFit
  <2>5. \A d \in Drains : TurnsFit(d) =>
          /\ point = "pending" => pc[d] \in {"claim", "pending"}
          /\ point = "running" => pc[d] \notin {"recover", "fail"}
    BY <1>a, <2>1, <2>4, EqualSequences, PointFacts DEF TurnsFit
  <2>6. point # "cleanup"
    BY <1>a DEF SchedulePoints
  <2> QED
    BY <1>0, <1>p, <2>1, <2>2, <2>3, <2>5, <2>6, GotoGate, PointFacts
\* A step of fetch.
<1>f. ASSUME NEW point \in {"idle", "enqueue"} \cup SchedulePoints, Goto("fetch", point),
             GateOpen \/ \E here : At("fetch", here), UNCHANGED drainPromise
      PROVE  Control
  <2>1. point \in {"idle", "handler"} \cup StoragePoints
    BY <1>f, PointFacts DEF StoragePoints
  <2>2. PointsFit'
    BY <1>0, <1>f, GotoPoints, PointFacts
  <2> QED
    BY <1>0, <1>f, <1>p, <2>1, <2>2, GotoGate, PointFacts
<1>s. ASSUME NEW p \in Procs, ScheduleNextAlarm(p) PROVE Control
  <2>1. CASE p = "fetch" /\ At("fetch", "set")
    <3>1. SetAlarm("fetch") /\ StartDrain("fetch", "idle")
      BY <1>s, <2>1 DEF ScheduleNextAlarm, ListPending, GetRunning, ListGc, SetAlarm, At
    <3> QED
      BY <1>0, <2>1, <3>1, StartGate
  <2>2. CASE ~(p = "fetch" /\ At("fetch", "set"))
    <3>1. /\ UNCHANGED drainPromise
          /\ \/ Moves(p, "pending", "gc") \/ Moves(p, "pending", "running")
             \/ Moves(p, "running", "gc") \/ Moves(p, "gc", "set")
             \/ Moves(p, "set", "idle") /\ p # "fetch"
      BY <1>s, <2>2, ScheduleMoves
    <3>2. CASE p = "fetch"
      BY <1>f, <3>1, <3>2 DEF Moves, SchedulePoints
    <3>3. CASE p = "alarm"
      BY <1>a, <3>1, <3>3 DEF SchedulePoints
    <3>4. CASE p \in Drains
      <4>1. pc[p] \in SchedulePoints /\ pc[p] \notin LoopPoints
        BY <3>1 DEF Moves, At, SchedulePoints, LoopPoints
      <4>2. \A c \in Drains : c # p => pc[c] = "idle"
        BY <1>0, <3>4, <4>1 DEF PointsFit, SchedulePoints
      <4>3. ~drainPromise'
        BY <1>0, <3>1, <4>1, <4>2 DEF PointsFit, LoopPoints
      <4> QED
        BY <1>d, <3>1, <3>4, <4>3 DEF SchedulePoints, LoopPoints
    <3> QED
      BY <3>2, <3>3, <3>4, PointFacts
  <2> QED
    BY <2>1, <2>2
<1>1. ASSUME NEW e \in EventIds, ReceiveFetch(e) PROVE Control
  BY <1>f, <1>1 DEF ReceiveFetch
<1>2. FetchStep => Control
  BY <1>f, <1>s, PointFacts DEF FetchStep, FetchEnqueue, SchedulePoints
<1>3. ReceiveAlarm => Control
  BY <1>0, StartGate DEF ReceiveAlarm
<1>4. AlarmStep => Control
  BY <1>a, <1>s, PointFacts DEF AlarmStep, AlarmCleanup, Moves, SchedulePoints
<1>promise. ASSUME NEW d \in Drains, pc[d] \in LoopPoints PROVE drainPromise
  BY <1>0, <1>promise DEF PointsFit
<1>5. ASSUME NEW d \in Drains, DrainStep(d) \/ HandlerEnds(d) PROVE Control
  <2>1. CASE DrainRecover(d)
    BY <1>d, <1>promise, <2>1 DEF DrainRecover, Moves, At, LoopPoints
  <2>2. CASE DrainClaim(d)
    BY <1>d, <1>promise, <2>2 DEF DrainClaim, Moves, At, LoopPoints
  <2>3. CASE DrainFinish(d)
    BY <1>d, <2>3 DEF DrainFinish, EndDrain, Moves, LoopPoints, SchedulePoints
  <2>4. CASE HandlerBegins(d)
    BY <1>d, <1>promise, <2>4 DEF HandlerBegins, Moves, At, LoopPoints, SchedulePoints
  <2>5. CASE HandlerEnds(d)
    BY <1>d, <1>promise, <2>5 DEF HandlerEnds, HandlerReturns, HandlerThrows, LoopPoints
  <2>6. CASE DrainComplete(d)
    BY <1>d, <1>promise, <2>6 DEF DrainComplete, Moves, At, LoopPoints, SchedulePoints
  <2>7. CASE DrainFail(d)
    BY <1>d, <2>7 DEF DrainFail, EndDrain, Moves, LoopPoints, SchedulePoints
  <2>8. CASE ScheduleNextAlarm(d)
    BY <1>s, <2>8, PointFacts
  <2> QED
    BY <1>5, <2>1, <2>2, <2>3, <2>4, <2>5, <2>6, <2>7, <2>8 DEF DrainStep
<1>6. FetchStorageFails => Control
  BY <1>f DEF FetchStorageFails
<1>7. CleanupFails => Control
  BY <1>a DEF CleanupFails, Moves, SchedulePoints
<1>8. AlarmScheduleFails => Control
  BY <1>a DEF AlarmScheduleFails, Moves, SchedulePoints
<1>9. ASSUME NEW d \in Drains, DrainStorageFails(d) PROVE Control
  BY <1>d, <1>9 DEF DrainStorageFails, EndDrain, Moves, LoopPoints, SchedulePoints
<1>10. ASSUME NEW d \in Drains, HandledStorageFails(d) PROVE Control
  BY <1>d, <1>promise, <1>10 DEF HandledStorageFails, Moves, At, LoopPoints, SchedulePoints
<1>11. ASSUME NEW d \in Drains, DetachedScheduleFails(d) PROVE Control
  <2>1. PICK point \in SchedulePoints : Moves(d, point, "idle")
    BY <1>11 DEF DetachedScheduleFails, Moves
  <2>2. pc[d] \in SchedulePoints /\ pc[d] \notin LoopPoints
    BY <2>1, PointFacts DEF Moves, At
  <2>3. \A c \in Drains : c # d => pc[c] = "idle"
    BY <1>0, <2>2 DEF PointsFit, SchedulePoints
  <2>4. ~drainPromise'
    BY <1>0, <1>11, <2>2, <2>3 DEF DetachedScheduleFails, PointsFit, LoopPoints
  <2> QED
    BY <1>d, <2>1, <2>4 DEF SchedulePoints, LoopPoints
<1>12. Crash => Control
  <2>1. ASSUME Crash
        PROVE  io' = <<>> /\ drainPromise' = FALSE /\ pc' = [p \in Procs |-> "idle"]
    BY <2>1 DEF Crash
  <2> QED
    BY <2>1, PointFacts DEF PointsFit, GateFits, Waits, LoopPoints
<1>13. ASSUME UNCHANGED <<pc, io, drainPromise>> PROVE Control
  BY <1>0, <1>13 DEF PointsFit, GateFits, TurnsFit, Waits
<1> QED
  BY <1>1, <1>2, <1>3, <1>4, <1>5, <1>6, <1>7, <1>8, <1>9, <1>10, <1>11, <1>12, <1>13
  DEF ObjectNext, FaultStep, Redeliver, TimePasses, allVars, objectVars
-----------------------------------------------------------------------------
(* Types.  The earliest key of the garbage collection index exists, because times are   *)
(* natural numbers.                                                                     *)

LEMMA LeastExists ==
  ASSUME NEW T \in SUBSET Nat, T # {}
  PROVE  \E t \in T : \A s \in T : t <= s
<1> DEFINE R == OpToRel(<, Nat)
<1>1. IsWellFoundedOn(R, Nat)
  BY NatLessThanWellFounded
<1>2. \A s, t \in Nat : <<s, t>> \in R <=> s < t
  BY DEF OpToRel
<1> HIDE DEF R
<1>3. PICK t \in T : \A s \in T : ~ (<<s, t>> \in R)
  BY <1>1, WFMin
<1>4. \A s \in T : ~ (s < t)
  BY <1>2, <1>3
<1>5. \A s \in T : s \in Nat /\ t \in Nat
  OBVIOUS
<1>6. \A s \in Nat : ~ (s < t) /\ t \in Nat => t <= s
  OBVIOUS
<1> QED
  BY <1>4, <1>5, <1>6

LEMMA CleanupTimeType ==
  ASSUME TypeOK
  PROVE  CleanupTime \in Nat \cup {None}
<1>1. now \in Nat
  BY DEF TypeOK
<1>2. CASE gc = {}
  BY <1>2 DEF CleanupTime
<1>3. CASE gc # {}
  <2> DEFINE times == {g.expiresAt : g \in gc}
             least == CHOOSE t \in times : \A g \in gc : t <= g.expiresAt
  <2>1. times \in SUBSET Nat /\ times # {}
    BY <1>3 DEF TypeOK, GcRecord
  <2>2. \E t \in times : \A s \in times : t <= s
    BY <2>1, LeastExists
  <2>3. \E t \in times : \A g \in gc : t <= g.expiresAt
    BY <2>2
  <2>4. least \in times
    BY <2>3
  <2>5. least \in Nat
    BY <2>1, <2>4
  <2>6. CleanupTime = Maximum(now, least)
    BY <1>3 DEF CleanupTime
  <2> HIDE DEF least
  <2> QED
    BY <1>1, <2>5, <2>6 DEF Maximum
<1> QED
  BY <1>2, <1>3

LEMMA RecoveryAtType ==
  ASSUME TypeOK, running # None
  PROVE  RecoveryAt \in Nat
<1>1. running.leaseExpiresAt \in Nat /\ running.startedAt \in Nat
  BY DEF TypeOK, RunningRecord
<1>2. StaleMs \in Nat
  BY MailboxConstants
<1>3. running.leaseExpiresAt # None
  BY <1>1, MailboxConstants
<1> QED
  BY <1>1, <1>2, <1>3, MailboxConstants DEF RecoveryAt, Minimum

\* What a step of scheduleNextAlarm computes is a time.
LEMMA DueTypes ==
  ASSUME TypeOK, due \in [Procs -> Nat \cup {None}], NEW p \in Procs
  PROVE  /\ ListPending(p) => due' \in [Procs -> Nat \cup {None}]
         /\ GetRunning(p) => due' \in [Procs -> Nat \cup {None}]
         /\ ListGc(p) => due' \in [Procs -> Nat \cup {None}]
<1>1. now + DelayMs \in Nat
  BY ObjectConstants DEF TypeOK
<1>2. ListPending(p) => due' \in [Procs -> Nat \cup {None}]
  BY <1>1 DEF ListPending
<1>3. GetRunning(p) => due' \in [Procs -> Nat \cup {None}]
  <2> DEFINE time == IF running = None THEN None ELSE Maximum(now + DelayMs, RecoveryAt)
  <2>1. time \in Nat \cup {None}
    BY <1>1, RecoveryAtType DEF Maximum
  <2>2. GetRunning(p) => due' = [due EXCEPT ![p] = time]
    BY DEF GetRunning
  <2> HIDE DEF time
  <2> QED
    BY <2>1, <2>2
<1>4. ListGc(p) => due' \in [Procs -> Nat \cup {None}]
  <2>1. Minimum(due[p], CleanupTime) \in Nat \cup {None}
    BY CleanupTimeType DEF Minimum
  <2> QED
    BY <2>1 DEF ListGc
<1> QED
  BY <1>2, <1>3, <1>4

\* A step is one of these, by what it may change.
LEMMA Frames ==
  ASSUME [ObjectNext]_allVars
  PROVE  /\ ~FaultStep => UNCHANGED <<instance, faults>>
         /\ FaultStep => Fault /\ (Crash \/ UNCHANGED instance)
         /\ (\A d \in Drains : ~HandlerReturns(d)) => UNCHANGED handled
         /\ ~TimePasses => UNCHANGED <<slow, now>>
<1>1. ASSUME NEW p, ScheduleNextAlarm(p) PROVE UNCHANGED <<instance, faults, handled, slow, now>>
  BY <1>1 DEF ScheduleNextAlarm, ListPending, GetRunning, ListGc, SetAlarm, vars
<1>2. FetchStep => UNCHANGED <<instance, faults, handled, slow, now>>
  BY <1>1 DEF FetchStep, FetchEnqueue, EnqueueMailboxEvent, vars
<1>3. AlarmStep => UNCHANGED <<instance, faults, handled, slow, now>>
  BY <1>1 DEF AlarmStep, AlarmCleanup, CleanupExpiredMailboxEvents, vars
<1>4. ASSUME NEW d \in Drains, DrainStep(d) \/ HandlerEnds(d)
      PROVE  UNCHANGED <<instance, faults, slow, now>> /\ (~HandlerReturns(d) => UNCHANGED handled)
  <2>1. CASE DrainRecover(d)
    BY <2>1 DEF DrainRecover, DrainUnchanged, RecoverStaleRunningEvent, vars
  <2>2. CASE DrainClaim(d)
    BY <2>2 DEF DrainClaim, DrainUnchanged, ClaimNextMailboxEvent
  <2>3. CASE DrainFinish(d) \/ HandlerBegins(d) \/ HandlerEnds(d)
    BY <2>3
    DEF DrainFinish, HandlerBegins, HandlerEnds, HandlerReturns, HandlerThrows, DrainUnchanged,
        vars
  <2>4. CASE DrainComplete(d)
    BY <2>4 DEF DrainComplete, DrainUnchanged, CompleteMailboxEvent
  <2>5. CASE DrainFail(d)
    BY <2>5 DEF DrainFail, DrainUnchanged, FailMailboxEvent
  <2> QED
    BY <1>1, <1>4, <2>1, <2>2, <2>3, <2>4, <2>5 DEF DrainStep
<1>5. FaultStep => /\ Fault /\ (Crash \/ UNCHANGED instance)
                   /\ UNCHANGED <<handled, slow, now>>
  <2>1. ASSUME NEW d \in Drains, DrainStorageFails(d)
        PROVE  Fault /\ UNCHANGED <<instance, handled, slow, now>>
    BY <2>1 DEF DrainStorageFails, AbandonAttempt, vars
  <2>2. Crash => Fault /\ UNCHANGED <<handled, slow, now>>
    BY DEF Crash
  <2> QED
    BY <2>1, <2>2
    DEF FaultStep, FetchStorageFails, CleanupFails, AlarmScheduleFails, HandledStorageFails,
        DetachedScheduleFails, Redeliver, vars
<1>6. TimePasses => UNCHANGED <<instance, faults, handled>>
  BY DEF TimePasses
<1>7. ASSUME NEW e \in EventIds, ReceiveFetch(e)
      PROVE  UNCHANGED <<instance, faults, handled, slow, now>>
  BY <1>7 DEF ReceiveFetch, vars
<1>8. ReceiveAlarm => UNCHANGED <<instance, faults, handled, slow, now>>
  BY DEF ReceiveAlarm, vars
<1>9. UNCHANGED allVars => UNCHANGED <<instance, faults, handled, slow, now>>
  BY DEF allVars, objectVars, vars
<1> QED
  BY <1>2, <1>3, <1>4, <1>5, <1>6, <1>7, <1>8, <1>9 DEF ObjectNext

LEMMA CountersStep ==
  ASSUME ObjectInv, [ObjectNext]_allVars
  PROVE  /\ instance' \in Instances /\ faults' \in 0 .. MaxFaults /\ slow' \in 0 .. MaxSlow
         /\ faults <= faults'
         /\ instance' \in Nat /\ instance' <= faults' + 1
<1>1. /\ instance \in Instances /\ faults \in 0 .. MaxFaults /\ slow \in 0 .. MaxSlow
      /\ instance \in Nat /\ instance <= faults + 1
  BY DEF ObjectInv, ObjectTypeOK, HoldersFit
<1>2. MaxFaults \in Nat /\ MaxSlow \in Nat /\ Instances = 1 .. MaxFaults + 1
  BY ObjectConstants
<1>3. slow' \in 0 .. MaxSlow
  <2>1. slow < MaxSlow => slow + 1 \in 0 .. MaxSlow
    BY <1>1, <1>2
  <2> QED
    BY <1>1, <2>1, Frames DEF TimePasses
<1>4. CASE FaultStep
  <2>1. faults < MaxFaults /\ faults' = faults + 1 /\ (instance' = instance + 1 \/ instance' = instance)
    BY <1>4, Frames DEF Fault, Crash
  <2>2. faults' \in 0 .. MaxFaults /\ faults' = faults + 1
    BY <1>1, <1>2, <2>1
  <2>3. instance' \in Nat /\ instance' <= faults' + 1
    BY <1>1, <1>2, <2>1, <2>2
  <2>4. instance' >= 1 /\ instance' <= MaxFaults + 1
    BY <1>1, <1>2, <2>1
  <2>5. instance' \in Instances
    BY <1>2, <2>3, <2>4
  <2> QED
    BY <1>1, <1>3, <2>2, <2>3, <2>5
<1>5. CASE ~FaultStep
  BY <1>1, <1>3, <1>5, Frames
<1> QED
  BY <1>4, <1>5

\* alarm() is called with an alarm again when it did not run to its end.
LEMMA RetryAlarmType ==
  ASSUME TypeOK, alarm \in Nat \cup {None}, RetryAlarm
  PROVE  alarm' \in Nat \cup {None}
  BY DEF RetryAlarm, TypeOK

LEMMA TypesStep == ObjectInv /\ [ObjectNext]_allVars => ObjectTypeOK'
<1> DEFINE DueType   == due \in [Procs -> Nat \cup {None}]
           AlarmType == alarm \in Nat \cup {None}
           QueueType == queue \in [EventIds -> {"queued", "dispatching", "acked"}]
           CountType == handled \in [EventIds -> Nat]
           FlagType  == drainPromise \in BOOLEAN
           ItemType  == item \in [Drains -> RunningRecord \cup {None}]
           Types     == DueType /\ AlarmType /\ QueueType /\ CountType /\ FlagType /\ ItemType
<1> SUFFICES ASSUME ObjectInv, [ObjectNext]_allVars PROVE ObjectTypeOK'
  OBVIOUS
<1>0. ObjectTypeOK /\ TypeOK
  BY DEF ObjectInv, ObjectTypeOK
<1>1. TypeOK'
  BY MailboxKept DEF MailboxInv
<1>2. pc' \in [Procs -> {"idle", "handler"} \cup StoragePoints] /\ GateFits'
  BY ControlStep
<1>3. io' \in Seq(Procs)
  <2>1. \A d \in Drains : <<d, "alarm">> \in Seq(Procs) /\ <<"alarm", d>> \in Seq(Procs)
    BY PointFacts
  <2>2. <<>> \in Seq(Procs) /\ \A q \in Procs : <<q>> \in Seq(Procs)
    OBVIOUS
  <2> QED
    BY <1>2, <2>1, <2>2 DEF GateFits, TurnsFit
<1>t. Types
  BY <1>0 DEF ObjectTypeOK
<1>u. UNCHANGED objectVars => Types'
  BY <1>t DEF objectVars
<1>4. ASSUME NEW p \in Procs, ScheduleNextAlarm(p) PROVE Types'
  <2>1. CASE SetAlarm(p)
    <3>1. drainPromise' \in BOOLEAN
      BY <1>t, <2>1 DEF SetAlarm, StartDrain
    <3>2. QueueType'
      BY <1>t, <2>1 DEF SetAlarm
    <3>3. DueType' /\ AlarmType' /\ UNCHANGED <<handled, item>>
      BY <1>t, <2>1 DEF SetAlarm
    <3> QED
      BY <1>t, <3>1, <3>2, <3>3
  <2>2. CASE ListPending(p) \/ GetRunning(p) \/ ListGc(p)
    <3>1. DueType'
      BY <1>0, <1>t, <2>2, DueTypes
    <3>2. UNCHANGED <<alarm, queue, handled, drainPromise, item>>
      BY <2>2 DEF ListPending, GetRunning, ListGc
    <3> QED
      BY <1>t, <3>1, <3>2
  <2> QED
    BY <1>4, <2>1, <2>2 DEF ScheduleNextAlarm
<1>5. ASSUME NEW e \in EventIds, ReceiveFetch(e) \/ FetchEnqueue(e) PROVE Types'
  BY <1>t, <1>5 DEF ReceiveFetch, FetchEnqueue
<1>6. ReceiveAlarm \/ AlarmCleanup => Types'
  BY <1>t DEF ReceiveAlarm, AlarmCleanup, StartDrain
<1>7. ASSUME NEW d \in Drains, DrainStep(d) \/ HandlerEnds(d) PROVE Types'
  <2>1. CASE DrainClaim(d)
    <3>1. running' \in RunningRecord \cup {None}
      BY <1>1 DEF TypeOK
    <3> QED
      BY <1>t, <2>1, <3>1 DEF DrainClaim, DrainUnchanged
  <2>2. CASE DrainRecover(d) \/ HandlerBegins(d) \/ HandlerThrows(d)
    BY <1>t, <2>2 DEF DrainRecover, HandlerBegins, HandlerThrows, DrainUnchanged
  <2>3. CASE DrainFinish(d) \/ DrainComplete(d) \/ DrainFail(d)
    BY <1>t, <2>3 DEF DrainFinish, DrainComplete, DrainFail, EndDrain, DrainUnchanged
  <2>4. CASE HandlerReturns(d)
    <3>1. \A e \in EventIds : handled[e] + 1 \in Nat
      BY <1>t
    <3>2. CountType'
      BY <1>t, <2>4, <3>1 DEF HandlerReturns
    <3> QED
      BY <1>t, <2>4, <3>2 DEF HandlerReturns, DrainUnchanged
  <2> QED
    BY <1>4, <1>7, <2>1, <2>2, <2>3, <2>4, PointFacts DEF DrainStep, HandlerEnds
<1>8. FaultStep => Types'
  <2>1. Crash => Types'
    <3> SUFFICES ASSUME Crash PROVE Types'
      OBVIOUS
    <3>1. DueType' /\ FlagType' /\ ItemType' /\ UNCHANGED handled
      BY <1>t DEF Crash
    <3>2. QueueType'
      BY <1>t DEF Crash, RetryMessage
    <3>3. AlarmType'
      BY <1>0, <1>t, RetryAlarmType DEF Crash
    <3> QED
      BY <1>t, <3>1, <3>2, <3>3
  <2>2. FetchStorageFails => Types'
    BY <1>t DEF FetchStorageFails, RetryMessage
  <2>3. AlarmScheduleFails => Types'
    <3> SUFFICES ASSUME AlarmScheduleFails PROVE Types'
      OBVIOUS
    <3>1. AlarmType'
      BY <1>0, <1>t, RetryAlarmType DEF AlarmScheduleFails
    <3> QED
      BY <1>t, <3>1 DEF AlarmScheduleFails
  <2>4. ASSUME NEW d \in Drains,
               DrainStorageFails(d) \/ HandledStorageFails(d) \/ DetachedScheduleFails(d)
        PROVE  Types'
    BY <1>t, <2>4 DEF DrainStorageFails, EndDrain, HandledStorageFails, DetachedScheduleFails
  <2>5. CleanupFails \/ (\E e \in EventIds : Redeliver(e)) => Types'
    BY <1>t DEF CleanupFails, Redeliver
  <2> QED
    BY <2>1, <2>2, <2>3, <2>4, <2>5 DEF FaultStep
<1>9. TimePasses => Types'
  BY <1>t DEF TimePasses
<1>10. Types'
  BY <1>u, <1>4, <1>5, <1>6, <1>7, <1>8, <1>9, PointFacts
  DEF ObjectNext, FetchStep, AlarmStep, allVars
<1> QED
  BY <1>1, <1>2, <1>3, <1>10, CountersStep DEF ObjectTypeOK

-----------------------------------------------------------------------------
(* The drain that is under way holds the running event, from its claim to its end. *)

LEMMA HoldingFacts ==
  /\ HoldingPoints \subseteq LoopPoints
  /\ \A point \in {"idle", "recover", "claim"} \cup SchedulePoints : point \notin HoldingPoints
  /\ \A point \in {"begin", "handler", "complete", "fail"} : point \in HoldingPoints
  /\ "idle" \notin LoopPoints
BY DEF HoldingPoints, LoopPoints, SchedulePoints

\* Nothing but the drain under way holds an event.
LEMMA OthersHoldNothing ==
  ASSUME PointsFit, HoldersFit, NEW d \in Drains, pc[d] # "idle"
  PROVE  /\ \A c \in Drains : c # d => pc[c] = "idle" /\ item[c] = None
         /\ pc[d] \notin HoldingPoints => attempts = {} /\ \A c \in Drains : item[c] = None
<1>1. \A c \in Drains : c # d => pc[c] = "idle"
  BY DEF PointsFit
<1>2. \A c \in Drains : c # d => item[c] = None
  BY <1>1, HoldingFacts DEF HoldersFit
<1>3. pc[d] \notin HoldingPoints => \A c \in Drains : item[c] = None
  BY <1>2 DEF HoldersFit
<1> QED
  BY <1>1, <1>2, <1>3 DEF HoldersFit

LEMMA GotoMoves ==
  ASSUME pc \in [Procs -> {"idle", "handler"} \cup StoragePoints],
         NEW p \in Procs, NEW point, Goto(p, point)
  PROVE  pc'[p] = point /\ \A q \in Procs : q # p => pc'[q] = pc[q]
BY DEF Goto

\* The holder of the running attempt passes the fence.
LEMMA HolderPasses ==
  ASSUME HoldersFit, NEW d \in Drains, pc[d] \in HoldingPoints, None \notin attempts
  PROVE  /\ item[d] # None /\ item[d] = running /\ attempts = {running}
         /\ IsSameRunningAttempt(item[d])
<1>1. item[d] # None /\ item[d] = running /\ attempts = {running}
  BY DEF HoldersFit
<1> QED
  BY <1>1 DEF IsSameRunningAttempt

LEMMA HoldersStep == ObjectInv /\ [ObjectNext]_allVars => HoldersFit'
<1> SUFFICES ASSUME ObjectInv, [ObjectNext]_allVars PROVE HoldersFit'
  OBVIOUS
<1>0. /\ PointsFit /\ GateFits /\ HoldersFit
      /\ pc \in [Procs -> {"idle", "handler"} \cup StoragePoints]
      /\ item \in [Drains -> RunningRecord \cup {None}]
      /\ None \notin attempts
  BY MailboxConstants DEF ObjectInv, ObjectTypeOK, TypeOK
<1>c. instance' \in Nat /\ instance' <= faults' + 1
  BY CountersStep
\* A step that leaves the events held alone.
<1>q. ASSUME UNCHANGED <<item, attempts>>,
             running' = running \/ \A d \in Drains : item[d] = None,
             \A d \in Drains : pc'[d] \in HoldingPoints <=> pc[d] \in HoldingPoints
      PROVE  HoldersFit'
  BY <1>0, <1>c, <1>q DEF HoldersFit
\* A step of fetch or alarm().
<1>p. ASSUME NEW p \in {"fetch", "alarm"}, NEW point, Goto(p, point),
             UNCHANGED <<item, attempts, running>>
      PROVE  HoldersFit'
  <2>1. \A d \in Drains : pc'[d] = pc[d]
    BY <1>0, <1>p, GotoMoves, PointFacts
  <2> QED
    BY <1>p, <1>q, <2>1
\* A step of the drain under way that holds on, or has nothing to hold.
<1>d. ASSUME NEW d \in Drains, NEW here, NEW point, pc[d] = here, here # "idle", Goto(d, point),
             point \in HoldingPoints <=> here \in HoldingPoints,
             UNCHANGED <<item, attempts>>,
             running' = running \/ here \notin HoldingPoints
      PROVE  HoldersFit'
  <2>1. \A c \in Drains : pc'[c] \in HoldingPoints <=> pc[c] \in HoldingPoints
    BY <1>0, <1>d, GotoMoves, PointFacts
  <2>2. running' = running \/ \A c \in Drains : item[c] = None
    BY <1>0, <1>d, OthersHoldNothing
  <2> QED
    BY <1>d, <1>q, <2>1, <2>2
\* A step of the drain under way that lets go of the event, or never had one.
<1>r. ASSUME NEW d \in Drains, NEW point, pc[d] # "idle", Goto(d, point), point \notin HoldingPoints,
             item' = [item EXCEPT ![d] = None],
             \/ pc[d] \in HoldingPoints /\ attempts' = attempts \ {item[d]}
             \/ pc[d] \notin HoldingPoints /\ attempts' = attempts
      PROVE  HoldersFit'
  <2>1. \A c \in Drains : pc'[c] \notin HoldingPoints
    <3>1. \A c \in Drains : c # d => pc'[c] = "idle"
      BY <1>0, <1>r, GotoMoves, PointFacts, OthersHoldNothing
    <3> QED
      BY <1>0, <1>r, <3>1, GotoMoves, PointFacts, HoldingFacts
  <2>2. \A c \in Drains : item'[c] = None
    BY <1>0, <1>r, OthersHoldNothing
  <2>3. attempts' = {}
    BY <1>0, <1>r, HolderPasses, OthersHoldNothing
  <2> QED
    BY <1>c, <2>1, <2>2, <2>3 DEF HoldersFit
<1>s. ASSUME NEW p \in Procs, ScheduleNextAlarm(p) PROVE HoldersFit'
  <2>1. UNCHANGED <<item, attempts, running>>
    BY <1>s DEF ScheduleNextAlarm, ListPending, GetRunning, ListGc, SetAlarm, vars
  <2>2. CASE p = "fetch" /\ At("fetch", "set")
    <3>1. SetAlarm("fetch") /\ StartDrain("fetch", "idle")
      BY <1>s, <2>2 DEF ScheduleNextAlarm, ListPending, GetRunning, ListGc, SetAlarm, At
    <3>2. \A d \in Drains : pc'[d] = pc[d] \/ (pc[d] = "idle" /\ pc'[d] = "recover")
      BY <1>0, <2>2, <3>1, StartGate, PointFacts
    <3> QED
      BY <1>q, <2>1, <3>2, HoldingFacts
  <2>3. CASE ~(p = "fetch" /\ At("fetch", "set"))
    <3>1. \/ Moves(p, "pending", "gc") \/ Moves(p, "pending", "running")
          \/ Moves(p, "running", "gc") \/ Moves(p, "gc", "set")
          \/ Moves(p, "set", "idle")
      BY <1>s, <2>3, ScheduleMoves
    <3>2. CASE p \in Drains
      <4>1. \E here \in SchedulePoints, point \in {"idle"} \cup SchedulePoints : Moves(p, here, point)
        BY <3>1 DEF SchedulePoints
      <4> QED
        BY <1>d, <2>1, <3>2, <4>1, HoldingFacts DEF Moves, At, SchedulePoints
    <3>3. CASE p \notin Drains
      BY <1>p, <2>1, <3>1, <3>3, PointFacts DEF Moves
    <3> QED
      BY <3>2, <3>3
  <2> QED
    BY <2>2, <2>3
<1>1. ASSUME NEW e \in EventIds, ReceiveFetch(e) \/ FetchEnqueue(e) PROVE HoldersFit'
  BY <1>p, <1>1 DEF ReceiveFetch, FetchEnqueue, EnqueueMailboxEvent, vars
<1>2. ReceiveAlarm => HoldersFit'
  <2> SUFFICES ASSUME ReceiveAlarm PROVE HoldersFit'
    OBVIOUS
  <2>1. \A d \in Drains : pc'[d] = pc[d] \/ (pc[d] = "idle" /\ pc'[d] = "recover")
    BY <1>0, StartGate, PointFacts DEF ReceiveAlarm
  <2>2. UNCHANGED <<item, attempts, running>>
    BY DEF ReceiveAlarm, vars
  <2> QED
    BY <1>q, <2>1, <2>2, HoldingFacts
<1>3. AlarmCleanup => HoldersFit'
  BY <1>p DEF AlarmCleanup, CleanupExpiredMailboxEvents, vars
<1>4. ASSUME NEW d \in Drains, DrainRecover(d) PROVE HoldersFit'
  BY <1>d, <1>4, HoldingFacts DEF DrainRecover, RecoverStaleRunningEvent, vars, At
<1>5. ASSUME NEW d \in Drains, DrainClaim(d) PROVE HoldersFit'
  <2>1. pc[d] = "claim" /\ Goto(d, "begin") /\ item' = [item EXCEPT ![d] = running']
    BY <1>5 DEF DrainClaim, At
  <2>2. attempts = {} /\ \A c \in Drains : (c # d => pc[c] = "idle") /\ item[c] = None
    BY <1>0, <2>1, OthersHoldNothing, HoldingFacts
  <2>3. running' # None /\ attempts' = attempts \cup {running'}
    <3>1. PICK p \in pending : /\ running' = ClaimedRecord(p, instance)
                               /\ attempts' = attempts \cup {ClaimedRecord(p, instance)}
      BY <1>5 DEF DrainClaim, ClaimNextMailboxEvent
    <3>2. attempts' \subseteq RunningRecord
      BY MailboxKept DEF MailboxInv, TypeOK
    <3> QED
      BY <3>1, <3>2, MailboxConstants
  <2>4. pc'[d] \in HoldingPoints /\ \A c \in Drains : c # d => pc'[c] \notin HoldingPoints
    BY <1>0, <2>1, <2>2, GotoMoves, PointFacts, HoldingFacts
  <2>5. item'[d] = running' /\ \A c \in Drains : c # d => item'[c] = None
    BY <1>0, <2>1, <2>2
  <2> QED
    BY <1>c, <2>2, <2>3, <2>4, <2>5 DEF HoldersFit
<1>6. ASSUME NEW d \in Drains, DrainFinish(d) PROVE HoldersFit'
  BY <1>r, <1>6, HoldingFacts DEF DrainFinish, EndDrain, At, SchedulePoints, vars
<1>7. ASSUME NEW d \in Drains, HandlerBegins(d) \/ HandlerEnds(d) PROVE HoldersFit'
  BY <1>d, <1>7, HoldingFacts
  DEF HandlerBegins, HandlerEnds, HandlerReturns, HandlerThrows, At, vars
<1>8. ASSUME NEW d \in Drains, DrainComplete(d) PROVE HoldersFit'
  BY <1>r, <1>8, HoldingFacts DEF DrainComplete, CompleteMailboxEvent, At
<1>9. ASSUME NEW d \in Drains, DrainFail(d) PROVE HoldersFit'
  BY <1>r, <1>9, HoldingFacts DEF DrainFail, FailMailboxEvent, EndDrain, At, SchedulePoints
<1>10. FetchStorageFails \/ CleanupFails \/ AlarmScheduleFails => HoldersFit'
  BY <1>p DEF FetchStorageFails, CleanupFails, AlarmScheduleFails, vars
<1>11. ASSUME NEW d \in Drains, DrainStorageFails(d) PROVE HoldersFit'
  <2>1. /\ pc[d] \in {"recover", "claim", "fail"} /\ Goto(d, "pending")
        /\ item' = [item EXCEPT ![d] = None]
        /\ pc[d] = "fail" => AbandonAttempt(item[d])
        /\ pc[d] # "fail" => UNCHANGED vars
    BY <1>11 DEF DrainStorageFails, EndDrain, At
  <2> QED
    BY <1>r, <2>1, HoldingFacts DEF AbandonAttempt, vars, SchedulePoints
<1>12. ASSUME NEW d \in Drains, HandledStorageFails(d) PROVE HoldersFit'
  BY <1>d, <1>12, HoldingFacts DEF HandledStorageFails, At, vars
<1>13. ASSUME NEW d \in Drains, DetachedScheduleFails(d) PROVE HoldersFit'
  <2>1. pc[d] \in SchedulePoints /\ Goto(d, "idle") /\ UNCHANGED <<item, attempts, running>>
    BY <1>13 DEF DetachedScheduleFails, At, vars
  <2> QED
    BY <1>d, <2>1, HoldingFacts DEF SchedulePoints
<1>14. Crash => HoldersFit'
  <2>1. ASSUME Crash
        PROVE  /\ attempts' = {} /\ item' = [d \in Drains |-> None]
               /\ pc' = [p \in Procs |-> "idle"]
    BY <2>1 DEF Crash
  <2> QED
    BY <1>c, <2>1, PointFacts, HoldingFacts DEF HoldersFit
<1>15. ASSUME UNCHANGED <<pc, item, attempts, running>> PROVE HoldersFit'
  BY <1>q, <1>15
<1> QED
  BY <1>s, <1>1, <1>2, <1>3, <1>4, <1>5, <1>6, <1>7, <1>8, <1>9, <1>10, <1>11, <1>12, <1>13, <1>14,
     <1>15, PointFacts
  DEF ObjectNext, FetchStep, AlarmStep, DrainStep, FaultStep, Redeliver, TimePasses, Tick, vars,
      allVars, objectVars

-----------------------------------------------------------------------------
(* One message is dispatched at a time, and it is accepted before it is acknowledged. *)

\* Nobody else's operation finishes while fetch waits for storage.
LEMMA FetchIsAlone ==
  ASSUME GateFits, NEW p \in Procs, NEW point, At(p, point), p # "fetch"
  PROVE  ~Waits("fetch")
<1>1. "fetch" \in Procs /\ \A d \in Drains : "fetch" \notin {d, "alarm"}
  BY PointFacts
<1> QED
  BY <1>1, WhoseTurn

LEMMA NobodyWaits ==
  ASSUME GateFits, GateOpen
  PROVE  \A p \in Procs : ~Waits(p)
BY ShortSequences DEF GateFits, GateOpen, TurnsFit

LEMMA MessagesStep == ObjectInv /\ [ObjectNext]_allVars => MessagesFit'
<1> SUFFICES ASSUME ObjectInv, [ObjectNext]_allVars PROVE MessagesFit'
  OBVIOUS
<1>0. /\ PointsFit /\ GateFits /\ MessagesFit
      /\ pc \in [Procs -> {"idle", "handler"} \cup StoragePoints]
      /\ queue \in [EventIds -> {"queued", "dispatching", "acked"}]
  BY DEF ObjectInv, ObjectTypeOK
<1>i. index \in [EventIds -> EventState \cup {None}]
  BY DEF ObjectInv, ObjectTypeOK, TypeOK
\* A step that leaves fetch and the messages alone.
<1>k. ASSUME UNCHANGED queue, pc'["fetch"] = pc["fetch"], UNCHANGED index \/ ~Waits("fetch")
      PROVE  MessagesFit'
  BY <1>0, <1>k, PointFacts DEF MessagesFit, Waits
\* A step of another function that waits for storage.
<1>o. ASSUME NEW p \in Procs, p # "fetch", NEW here, NEW point, At(p, here), Goto(p, point),
             UNCHANGED queue
      PROVE  MessagesFit'
  BY <1>0, <1>k, <1>o, FetchIsAlone, GotoMoves, PointFacts
\* A step after which no message is dispatched.
<1>n. ASSUME \A e \in EventIds : queue'[e] # "dispatching" PROVE MessagesFit'
  BY <1>n DEF MessagesFit
<1>s. ASSUME NEW p \in Procs, ScheduleNextAlarm(p) PROVE MessagesFit'
  <2>1. CASE p = "fetch" /\ At("fetch", "set")
    <3>1. SetAlarm("fetch")
      BY <1>s, <2>1 DEF ScheduleNextAlarm, ListPending, GetRunning, ListGc, SetAlarm, At
    <3>2. \A e \in EventIds : queue'[e] # "dispatching"
      BY <3>1 DEF SetAlarm
    <3> QED
      BY <1>n, <3>2
  <2>2. CASE ~(p = "fetch" /\ At("fetch", "set"))
    <3>1. \/ Moves(p, "pending", "gc") \/ Moves(p, "pending", "running")
          \/ Moves(p, "running", "gc") \/ Moves(p, "gc", "set")
          \/ Moves(p, "set", "idle") /\ p # "fetch"
      BY <1>s, <2>2, ScheduleMoves
    <3>2. UNCHANGED <<queue, index>>
      BY <1>s, <2>2, PointFacts
      DEF ScheduleNextAlarm, ListPending, GetRunning, ListGc, SetAlarm, vars
    <3>3. CASE p = "fetch"
      <4>1. pc["fetch"] \in SchedulePoints /\ pc'["fetch"] \in SchedulePoints
        BY <1>0, <3>1, <3>3, GotoMoves, PointFacts DEF Moves, At, SchedulePoints
      <4> QED
        BY <1>0, <3>2, <4>1, PointFacts DEF MessagesFit
    <3>4. CASE p # "fetch"
      BY <1>o, <3>1, <3>2, <3>4 DEF Moves
    <3> QED
      BY <3>3, <3>4
  <2> QED
    BY <2>1, <2>2
<1>1. ASSUME NEW e \in EventIds, ReceiveFetch(e) PROVE MessagesFit'
  <2>1. pc["fetch"] = "idle" /\ Goto("fetch", "enqueue") /\ queue' = [queue EXCEPT ![e] = "dispatching"]
    BY <1>1 DEF ReceiveFetch
  <2>2. pc'["fetch"] = "enqueue"
    BY <1>0, <2>1, GotoMoves, PointFacts
  <2>3. \A f \in EventIds : queue'[f] = "dispatching" => f = e
    BY <1>0, <2>1 DEF MessagesFit
  <2> QED
    BY <2>2, <2>3 DEF MessagesFit, SchedulePoints
<1>2. ASSUME NEW e \in EventIds, FetchEnqueue(e) PROVE MessagesFit'
  <2>1. queue[e] = "dispatching" /\ Goto("fetch", "pending") /\ UNCHANGED queue
    BY <1>2 DEF FetchEnqueue
  <2>2. pc'["fetch"] = "pending"
    BY <1>0, <2>1, GotoMoves, PointFacts
  <2>3. index'[e] # None
    <3>1. CASE EnqueueMailboxEvent(e)
      <4>1. nextSequence \in Nat
        BY DEF ObjectInv, ObjectTypeOK, TypeOK
      <4> QED
        BY <1>i, <3>1, <4>1, MailboxConstants DEF EnqueueMailboxEvent, EventState, Status
    <3>2. CASE index[e] # None /\ UNCHANGED vars
      BY <3>2 DEF vars
    <3> QED
      BY <1>2, <3>1, <3>2 DEF FetchEnqueue
  <2> QED
    BY <1>0, <2>1, <2>2, <2>3 DEF MessagesFit
<1>3. ReceiveAlarm => MessagesFit'
  BY <1>0, <1>k, StartGate, PointFacts DEF ReceiveAlarm, vars
<1>4. AlarmCleanup => MessagesFit'
  BY <1>o, PointFacts DEF AlarmCleanup
<1>5. ASSUME NEW d \in Drains, DrainStep(d) PROVE MessagesFit'
  <2>1. ASSUME NEW here, NEW point, At(d, here), Goto(d, point), UNCHANGED queue
        PROVE  MessagesFit'
    BY <1>o, <2>1, PointFacts
  <2>2. CASE DrainRecover(d) \/ DrainClaim(d) \/ HandlerBegins(d) \/ DrainComplete(d)
    BY <2>1, <2>2 DEF DrainRecover, DrainClaim, HandlerBegins, DrainComplete, DrainUnchanged
  <2>3. CASE DrainFinish(d) \/ DrainFail(d)
    BY <2>1, <2>3 DEF DrainFinish, DrainFail, EndDrain, DrainUnchanged
  <2> QED
    BY <1>5, <1>s, <2>2, <2>3, PointFacts DEF DrainStep
<1>6. ASSUME NEW d \in Drains, HandlerEnds(d) PROVE MessagesFit'
  <2>1. (\E point : Goto(d, point)) /\ UNCHANGED <<queue, index>>
    BY <1>6 DEF HandlerEnds, HandlerReturns, HandlerThrows, DrainUnchanged, vars
  <2> QED
    BY <1>0, <1>k, <2>1, GotoMoves, PointFacts
<1>7. FaultStep => MessagesFit'
  <2>1. RetryMessage => MessagesFit'
    BY <1>0, <1>n DEF RetryMessage
  <2>2. CleanupFails \/ AlarmScheduleFails => MessagesFit'
    BY <1>o, PointFacts DEF CleanupFails, AlarmScheduleFails
  <2>3. ASSUME NEW d \in Drains, DrainStorageFails(d) PROVE MessagesFit'
    BY <1>o, <2>3, PointFacts DEF DrainStorageFails, EndDrain
  <2>4. ASSUME NEW d \in Drains, HandledStorageFails(d) \/ DetachedScheduleFails(d) PROVE MessagesFit'
    BY <1>o, <2>4, PointFacts DEF HandledStorageFails, DetachedScheduleFails
  <2>5. ASSUME NEW e \in EventIds, Redeliver(e) PROVE MessagesFit'
    BY <1>0, <2>5 DEF Redeliver, MessagesFit, vars
  <2> QED
    BY <2>1, <2>2, <2>3, <2>4, <2>5 DEF FaultStep, FetchStorageFails, Crash
<1>8. ASSUME UNCHANGED <<queue, pc, index>> PROVE MessagesFit'
  BY <1>k, <1>8
<1> QED
  BY <1>s, <1>1, <1>2, <1>3, <1>4, <1>5, <1>6, <1>7, <1>8, PointFacts
  DEF ObjectNext, FetchStep, AlarmStep, TimePasses, Tick, vars, allVars, objectVars

-----------------------------------------------------------------------------
(* What scheduleNextAlarm has seen is still so when it goes on. *)

\* The points at which scheduleNextAlarm relies on what it has read.
SeenPoints == {"running", "gc", "set"}

LEMMA ViewsStep == ObjectInv /\ [ObjectNext]_allVars => ViewsFit'
<1> SUFFICES ASSUME ObjectInv, [ObjectNext]_allVars PROVE ViewsFit'
  OBVIOUS
<1>0. /\ PointsFit /\ GateFits /\ HoldersFit /\ ViewsFit
      /\ pc \in [Procs -> {"idle", "handler"} \cup StoragePoints]
      /\ due \in [Procs -> Nat \cup {None}]
      /\ TypeOK
  BY DEF ObjectInv, ObjectTypeOK
<1>c. DelayMs \in Nat /\ None \notin Nat
  BY ObjectConstants, MailboxConstants
\* A step that leaves the work alone, and moves no function to a point of this kind.
<1>k. ASSUME UNCHANGED <<pending, running>>,
             \A q \in Procs : (pc'[q] = pc[q] /\ due'[q] = due[q]) \/ pc'[q] \notin SeenPoints
      PROVE  ViewsFit'
  BY <1>0, <1>k DEF ViewsFit, Work, SeenPoints
\* A function goes on, and the work stays as it is.
<1>g. ASSUME NEW p \in Procs, NEW point, Goto(p, point), point \notin SeenPoints,
             UNCHANGED <<pending, running>>,
             due' = due \/ due' = [due EXCEPT ![p] = None]
      PROVE  ViewsFit'
  <2>1. \A q \in Procs : q # p => pc'[q] = pc[q] /\ due'[q] = due[q]
    BY <1>0, <1>g, GotoMoves
  <2>2. pc'[p] = point
    BY <1>0, <1>g, GotoMoves
  <2> QED
    BY <1>k, <1>g, <2>1, <2>2
\* A drain changes the work: alarm() may be waiting behind it.
<1>w. ASSUME NEW d \in Drains, NEW here, NEW point, At(d, here), Goto(d, point),
             point \notin SeenPoints, UNCHANGED due, Work' => Work,
             here \in {"recover", "fail"} \/ (pending = {} => pending' = {})
      PROVE  ViewsFit'
  <2>1. d \in Procs /\ d # "fetch" /\ d # "alarm" /\ pc[d] = here
    BY <1>w, PointFacts DEF At
  <2>2. pc'[d] = point /\ \A q \in Procs : q # d => pc'[q] = pc[q]
    BY <1>0, <1>w, <2>1, GotoMoves
  <2>3. \A q \in Procs : Waits(q) => q = d \/ (q = "alarm" /\ TurnsFit(d) /\ io = <<d, "alarm">>)
    BY <1>0, <1>w, <2>1, WhoseTurn
  <2>4. \A q \in Procs : pc[q] = "running" /\ q # d => here \notin {"recover", "fail"}
    <3>1. \A q \in Procs : pc[q] = "running" => Waits(q)
      BY DEF Waits, StoragePoints, SchedulePoints
    <3> QED
      BY <2>1, <2>3, <3>1, EqualSequences DEF TurnsFit
  <2>5. \A q \in Procs : pc'[q] = "running" => pending' = {}
    BY <1>0, <1>w, <2>2, <2>4 DEF ViewsFit, SeenPoints
  <2>6. \A q \in Procs : pc'[q] \in {"gc", "set"} /\ Work' => due'[q] # None
    BY <1>0, <1>w, <2>2 DEF ViewsFit, SeenPoints
  <2> QED
    BY <2>5, <2>6 DEF ViewsFit
\* scheduleNextAlarm goes on with what it has read.
<1>s. ASSUME NEW p \in Procs, ScheduleNextAlarm(p) PROVE ViewsFit'
  <2>v. UNCHANGED <<pending, running, gc, now>>
    BY <1>s DEF ScheduleNextAlarm, ListPending, GetRunning, ListGc, SetAlarm, vars
  <2>w. Work' <=> Work
    BY <2>v DEF Work
  \* the others stay where they are
  <2>o. ASSUME NEW point, Goto(p, point), \A q \in Procs : q # p => due'[q] = due[q],
               point = "running" => pending = {},
               point \in {"gc", "set"} /\ Work => due'[p] # None
        PROVE  ViewsFit'
    <3>1. pc'[p] = point /\ \A q \in Procs : q # p => pc'[q] = pc[q]
      BY <1>0, <2>o, GotoMoves
    <3>2. \A q \in Procs : pc'[q] = "running" => pending' = {}
      BY <1>0, <2>v, <2>o, <3>1 DEF ViewsFit
    <3>3. \A q \in Procs : pc'[q] \in {"gc", "set"} /\ Work' => due'[q] # None
      BY <1>0, <2>w, <2>o, <3>1 DEF ViewsFit
    <3> QED
      BY <3>2, <3>3 DEF ViewsFit
  <2>1. CASE ListPending(p) /\ pending # {}
    <3>1. Goto(p, "gc") /\ due' = [due EXCEPT ![p] = now + DelayMs]
      BY <2>1 DEF ListPending
    <3>2. now + DelayMs # None
      BY <1>0, <1>c DEF TypeOK
    <3> QED
      BY <1>0, <2>o, <3>1, <3>2
  <2>2. CASE ListPending(p) /\ pending = {}
    <3>1. Goto(p, "running") /\ due' = due
      BY <2>2 DEF ListPending
    <3> QED
      BY <2>o, <2>2, <3>1
  <2>3. CASE GetRunning(p)
    <3>1. pending = {} /\ Goto(p, "gc")
      BY <1>0, <2>3 DEF GetRunning, At, ViewsFit
    <3>2. CASE running = None
      BY <1>0, <2>3, <2>o, <3>1, <3>2 DEF GetRunning, Work
    <3>3. CASE running # None
      <4>1. due' = [due EXCEPT ![p] = Maximum(now + DelayMs, RecoveryAt)]
        BY <2>3, <3>3 DEF GetRunning
      <4>2. Maximum(now + DelayMs, RecoveryAt) \in Nat
        BY <1>0, <1>c, <3>3, RecoveryAtType DEF Maximum, TypeOK
      <4> QED
        BY <1>0, <1>c, <2>o, <3>1, <4>1, <4>2
    <3> QED
      BY <3>2, <3>3
  <2>4. CASE ListGc(p)
    <3>1. pc[p] = "gc" /\ Goto(p, "set") /\ due' = [due EXCEPT ![p] = Minimum(due[p], CleanupTime)]
      BY <2>4 DEF ListGc, At
    <3>2. Work => due[p] # None
      BY <1>0, <3>1 DEF ViewsFit
    <3>3. due[p] # None => Minimum(due[p], CleanupTime) # None
      BY DEF Minimum
    <3> QED
      BY <1>0, <2>o, <3>1, <3>2, <3>3
  <2>5. CASE SetAlarm(p)
    <3>1. due' = [due EXCEPT ![p] = None]
      BY <2>5 DEF SetAlarm
    <3>2. CASE p = "fetch"
      <4>1. At("fetch", "set") /\ StartDrain("fetch", "idle")
        BY <2>5, <3>2 DEF SetAlarm
      <4>2. pc'["fetch"] = "idle"
        BY <1>0, <4>1, StartGate
      <4>3. \A q \in Procs : q # "fetch" => pc'[q] = pc[q] \/ pc'[q] = "recover"
        BY <1>0, <4>1, StartGate
      <4>4. \A q \in Procs : (pc'[q] = pc[q] /\ due'[q] = due[q]) \/ pc'[q] \notin SeenPoints
        BY <1>0, <3>1, <3>2, <4>2, <4>3 DEF SeenPoints
      <4> QED
        BY <1>k, <2>v, <4>4
    <3>3. CASE p # "fetch"
      BY <1>g, <2>5, <2>v, <3>1, <3>3 DEF SetAlarm, SeenPoints
    <3> QED
      BY <3>2, <3>3
  <2> QED
    BY <1>s, <2>1, <2>2, <2>3, <2>4, <2>5 DEF ScheduleNextAlarm, ListPending
<1>1. ASSUME NEW e \in EventIds, ReceiveFetch(e) PROVE ViewsFit'
  BY <1>g, <1>1, PointFacts DEF ReceiveFetch, SeenPoints, vars
<1>2. ASSUME NEW e \in EventIds, FetchEnqueue(e) PROVE ViewsFit'
  <2>1. At("fetch", "enqueue") /\ Goto("fetch", "pending")
    BY <1>2 DEF FetchEnqueue
  <2>2. \A q \in Procs : q # "fetch" => pc[q] \notin SeenPoints
    <3>1. \A q \in Procs : q # "fetch" => ~Waits(q)
      BY <1>0, <2>1, WhoseTurn, PointFacts
    <3> QED
      BY <3>1 DEF Waits, SeenPoints, StoragePoints, SchedulePoints
  <2>3. \A q \in Procs : pc'[q] \notin SeenPoints
    BY <1>0, <2>1, <2>2, GotoMoves, PointFacts DEF SeenPoints
  <2> QED
    BY <2>3 DEF ViewsFit, SeenPoints
<1>3. ReceiveAlarm => ViewsFit'
  <2> SUFFICES ASSUME ReceiveAlarm PROVE ViewsFit'
    OBVIOUS
  <2>1. UNCHANGED <<pending, running, due>> /\ StartDrain("alarm", "cleanup") /\ GateOpen
    BY DEF ReceiveAlarm, vars
  <2>2. pc'["alarm"] = "cleanup" /\ \A q \in Procs : q # "alarm" => pc'[q] = pc[q] \/ pc'[q] = "recover"
    BY <1>0, <2>1, StartGate
  <2>3. \A q \in Procs : (pc'[q] = pc[q] /\ due'[q] = due[q]) \/ pc'[q] \notin SeenPoints
    BY <2>1, <2>2 DEF SeenPoints
  <2> QED
    BY <1>k, <2>1, <2>3
<1>4. AlarmCleanup => ViewsFit'
  BY <1>g, PointFacts DEF AlarmCleanup, CleanupExpiredMailboxEvents, vars, SeenPoints
<1>5. ASSUME NEW d \in Drains, DrainRecover(d) PROVE ViewsFit'
  BY <1>w, <1>5
  DEF DrainRecover, RecoverStaleRunningEvent, DrainUnchanged, vars, SeenPoints, Work
<1>6. ASSUME NEW d \in Drains, DrainClaim(d) PROVE ViewsFit'
  BY <1>w, <1>6 DEF DrainClaim, ClaimNextMailboxEvent, DrainUnchanged, SeenPoints, Work
<1>7. ASSUME NEW d \in Drains, DrainFinish(d) PROVE ViewsFit'
  BY <1>g, <1>7, PointFacts DEF DrainFinish, EndDrain, DrainUnchanged, vars, SeenPoints
<1>8. ASSUME NEW d \in Drains, HandlerBegins(d) \/ HandlerEnds(d) PROVE ViewsFit'
  BY <1>g, <1>8, PointFacts
  DEF HandlerBegins, HandlerEnds, HandlerReturns, HandlerThrows, DrainUnchanged, vars, SeenPoints
<1>9. ASSUME NEW d \in Drains, DrainComplete(d) PROVE ViewsFit'
  BY <1>w, <1>9 DEF DrainComplete, CompleteMailboxEvent, DrainUnchanged, SeenPoints, Work
<1>10. ASSUME NEW d \in Drains, DrainFail(d) PROVE ViewsFit'
  BY <1>w, <1>10
  DEF DrainFail, FailMailboxEvent, EndDrain, IsSameRunningAttempt, DrainUnchanged, SeenPoints, Work
<1>11. FetchStorageFails \/ CleanupFails \/ AlarmScheduleFails => ViewsFit'
  BY <1>g, PointFacts DEF FetchStorageFails, CleanupFails, AlarmScheduleFails, vars, SeenPoints
<1>12. ASSUME NEW d \in Drains,
              DrainStorageFails(d) \/ HandledStorageFails(d) \/ DetachedScheduleFails(d)
       PROVE  ViewsFit'
  <2>1. DrainStorageFails(d) => UNCHANGED <<pending, running, due>> /\ Goto(d, "pending")
    BY DEF DrainStorageFails, EndDrain, AbandonAttempt, vars
  <2> QED
    BY <1>g, <1>12, <2>1, PointFacts DEF HandledStorageFails, DetachedScheduleFails, vars, SeenPoints
<1>13. Crash => ViewsFit'
  <2>1. Crash => \A q \in Procs : pc'[q] = "idle"
    BY DEF Crash
  <2> QED
    BY <2>1 DEF ViewsFit
<1>14. ASSUME UNCHANGED <<pending, running, pc, due>> PROVE ViewsFit'
  BY <1>k, <1>14
<1> QED
  BY <1>s, <1>1, <1>2, <1>3, <1>4, <1>5, <1>6, <1>7, <1>8, <1>9, <1>10, <1>11, <1>12, <1>13, <1>14,
     PointFacts
  DEF ObjectNext, FetchStep, AlarmStep, DrainStep, FaultStep, Redeliver, TimePasses, Tick, vars,
      allVars, objectVars

-----------------------------------------------------------------------------
(* Stored work is watched. *)

\* alarm() is owed: it was not called yet, or it did not run to its end.
AlarmIsOwed == alarm # None \/ pc["alarm"] # "idle"

LEMMA WatchedStep == ObjectInv /\ [ObjectNext]_allVars => WorkIsWatched'
<1> SUFFICES ASSUME ObjectInv, [ObjectNext]_allVars PROVE WorkIsWatched'
  OBVIOUS
<1>0. /\ PointsFit /\ GateFits /\ ViewsFit /\ WorkIsWatched
      /\ pc \in [Procs -> {"idle", "handler"} \cup StoragePoints]
      /\ queue \in [EventIds -> {"queued", "dispatching", "acked"}]
      /\ now # None
  BY MailboxConstants DEF ObjectInv, ObjectTypeOK, TypeOK
\* Work stays watched, or another watch takes over.
<1>w. ASSUME Work' => Work,
             AlarmIsOwed => AlarmIsOwed',
             \A e \in EventIds : queue[e] # "acked" => queue'[e] # "acked"
      PROVE  WorkIsWatched'
  BY <1>0, <1>w DEF WorkIsWatched, AlarmIsOwed
<1>a. ASSUME AlarmIsOwed' PROVE WorkIsWatched'
  BY <1>a DEF WorkIsWatched, AlarmIsOwed
\* A step of fetch or a drain.
<1>p. ASSUME NEW p \in Procs, p # "alarm", NEW point, Goto(p, point), Work' => Work,
             UNCHANGED <<alarm, queue>>
      PROVE  WorkIsWatched'
  BY <1>0, <1>p, <1>w, GotoMoves, PointFacts DEF AlarmIsOwed
\* A step of alarm() that is not its last.
<1>l. ASSUME NEW point, Goto("alarm", point), point # "idle"
      PROVE  WorkIsWatched'
  BY <1>0, <1>a, <1>l, GotoMoves, PointFacts DEF AlarmIsOwed
<1>s. ASSUME NEW p \in Procs, ScheduleNextAlarm(p) PROVE WorkIsWatched'
  <2>1. UNCHANGED vars /\ (Work' <=> Work)
    BY <1>s DEF ScheduleNextAlarm, ListPending, GetRunning, ListGc, SetAlarm, Work, vars
  <2>2. CASE SetAlarm(p)
    <3>1. pc[p] = "set" /\ alarm' = due[p]
      BY <2>2 DEF SetAlarm, At
    <3> QED
      BY <1>0, <2>1, <3>1 DEF ViewsFit, WorkIsWatched
  <2>3. CASE ListPending(p) \/ GetRunning(p) \/ ListGc(p)
    <3>1. \E point \in SchedulePoints : Goto(p, point)
      BY <2>3 DEF ListPending, GetRunning, ListGc, SchedulePoints
    <3>2. UNCHANGED <<alarm, queue>>
      BY <2>3 DEF ListPending, GetRunning, ListGc
    <3> QED
      BY <1>l, <1>p, <2>1, <3>1, <3>2 DEF SchedulePoints
  <2> QED
    BY <1>s, <2>2, <2>3 DEF ScheduleNextAlarm
<1>1. ASSUME NEW e \in EventIds, ReceiveFetch(e) \/ FetchEnqueue(e) PROVE WorkIsWatched'
  <2>1. queue'[e] # "acked"
    BY <1>0, <1>1 DEF ReceiveFetch, FetchEnqueue
  <2> QED
    BY <2>1 DEF WorkIsWatched
<1>2. ReceiveAlarm => WorkIsWatched'
  <2> SUFFICES ASSUME ReceiveAlarm PROVE WorkIsWatched'
    OBVIOUS
  <2>1. pc'["alarm"] = "cleanup"
    BY <1>0, StartGate DEF ReceiveAlarm
  <2> QED
    BY <1>a, <2>1 DEF AlarmIsOwed
<1>3. AlarmCleanup \/ CleanupFails => WorkIsWatched'
  BY <1>l DEF AlarmCleanup, CleanupFails
<1>4. ASSUME NEW d \in Drains, DrainStep(d) \/ HandlerEnds(d) PROVE WorkIsWatched'
  <2>0. d \in Procs /\ d # "alarm"
    BY PointFacts
  <2>1. CASE DrainRecover(d)
    BY <1>p, <2>0, <2>1 DEF DrainRecover, RecoverStaleRunningEvent, DrainUnchanged, vars, Work
  <2>2. CASE DrainClaim(d)
    BY <1>p, <2>0, <2>2 DEF DrainClaim, ClaimNextMailboxEvent, DrainUnchanged, Work
  <2>3. CASE DrainFinish(d) \/ HandlerBegins(d) \/ HandlerEnds(d)
    BY <1>p, <2>0, <2>3
    DEF DrainFinish, EndDrain, HandlerBegins, HandlerEnds, HandlerReturns, HandlerThrows,
        DrainUnchanged, vars, Work
  <2>4. CASE DrainComplete(d)
    BY <1>p, <2>0, <2>4 DEF DrainComplete, CompleteMailboxEvent, DrainUnchanged, Work
  <2>5. CASE DrainFail(d)
    BY <1>p, <2>0, <2>5
    DEF DrainFail, EndDrain, FailMailboxEvent, IsSameRunningAttempt, DrainUnchanged, Work
  <2> QED
    BY <1>4, <1>s, <2>0, <2>1, <2>2, <2>3, <2>4, <2>5 DEF DrainStep
<1>5. FaultStep => WorkIsWatched'
  <2>m. RetryMessage => \A e \in EventIds : queue[e] # "acked" => queue'[e] # "acked"
    BY <1>0 DEF RetryMessage
  <2>r. RetryAlarm /\ AlarmIsOwed => alarm' # None
    BY <1>0 DEF RetryAlarm, AlarmIsOwed
  <2>1. FetchStorageFails => WorkIsWatched'
    <3> SUFFICES ASSUME FetchStorageFails PROVE WorkIsWatched'
      OBVIOUS
    <3>1. pc'["alarm"] = pc["alarm"]
      BY <1>0, GotoMoves, PointFacts DEF FetchStorageFails
    <3> QED
      BY <1>w, <2>m, <3>1 DEF FetchStorageFails, AlarmIsOwed, Work, vars
  <2>2. AlarmScheduleFails => WorkIsWatched'
    <3> SUFFICES ASSUME AlarmScheduleFails PROVE WorkIsWatched'
      OBVIOUS
    <3>1. AlarmIsOwed
      BY DEF AlarmScheduleFails, At, AlarmIsOwed, SchedulePoints
    <3> QED
      BY <1>a, <2>r, <3>1 DEF AlarmScheduleFails, AlarmIsOwed
  <2>3. Crash => WorkIsWatched'
    BY <1>w, <2>m, <2>r DEF Crash, AlarmIsOwed, Work
  <2>4. ASSUME NEW d \in Drains,
               DrainStorageFails(d) \/ HandledStorageFails(d) \/ DetachedScheduleFails(d)
        PROVE  WorkIsWatched'
    <3>1. UNCHANGED <<pending, running, alarm, queue>> /\ \E point : Goto(d, point)
      BY <2>4
      DEF DrainStorageFails, EndDrain, AbandonAttempt, HandledStorageFails, DetachedScheduleFails,
          vars
    <3> QED
      BY <1>p, <3>1, PointFacts DEF Work
  <2>5. ASSUME NEW e \in EventIds, Redeliver(e) PROVE WorkIsWatched'
    <3>1. queue'[e] # "acked"
      BY <1>0, <2>5 DEF Redeliver
    <3> QED
      BY <3>1 DEF WorkIsWatched
  <2> QED
    BY <1>3, <2>1, <2>2, <2>3, <2>4, <2>5 DEF FaultStep
<1>6. ASSUME UNCHANGED <<pending, running, alarm, pc, queue>> PROVE WorkIsWatched'
  BY <1>6, <1>w DEF Work, AlarmIsOwed
<1> QED
  BY <1>s, <1>1, <1>2, <1>3, <1>4, <1>5, <1>6, PointFacts
  DEF ObjectNext, FetchStep, AlarmStep, TimePasses, Tick, vars, allVars, objectVars

-----------------------------------------------------------------------------
(* A handler does its work for an event a second time only after a fault. *)

\* The drain under way is at no other point.
LEMMA NobodyCompletes ==
  ASSUME PointsFit, NEW d \in Drains, pc[d] \notin {"idle", "complete"}
  PROVE  \A c \in Drains : pc[c] # "complete"
BY DEF PointsFit

LEMMA OnceStep == ObjectInv /\ [ObjectNext]_allVars => HandledOnce'
<1> SUFFICES ASSUME ObjectInv, [ObjectNext]_allVars PROVE HandledOnce'
  OBVIOUS
<1>0. /\ PointsFit /\ GateFits /\ HoldersFit /\ MessagesFit /\ HandledOnce
      /\ pc \in [Procs -> {"idle", "handler"} \cup StoragePoints]
      /\ queue \in [EventIds -> {"queued", "dispatching", "acked"}]
      /\ item \in [Drains -> RunningRecord \cup {None}]
      /\ handled \in [EventIds -> Nat]
      /\ index \in [EventIds -> EventState \cup {None}]
      /\ None \notin attempts
  BY MailboxConstants DEF ObjectInv, ObjectTypeOK, TypeOK
<1>q. MailboxInv /\ IndexAgreesWithQueue /\ TypeOK
  BY DEF ObjectInv, MailboxInv
<1>n. faults \in Nat /\ faults' \in Nat /\ faults <= faults'
  BY CountersStep DEF ObjectInv, ObjectTypeOK
\* A step after which nothing more may arrive or run.
<1>k. ASSUME UNCHANGED handled,
             \A e \in EventIds : (MayArrive(e)' => MayArrive(e)) /\ (MayRun(e)' => MayRun(e))
      PROVE  HandledOnce'
  <2> SUFFICES ASSUME NEW e \in EventIds
               PROVE  handled'[e] + OneIf(MayArrive(e)') + OneIf(MayRun(e)') <= 1 + faults'
    BY DEF HandledOnce, OneIf
  <2>1. handled[e] + OneIf(MayArrive(e)) + OneIf(MayRun(e)) <= 1 + faults
    BY <1>0 DEF HandledOnce
  <2>2. (MayArrive(e)' => MayArrive(e)) /\ (MayRun(e)' => MayRun(e))
    BY <1>k
  <2>3. handled[e] \in Nat /\ handled'[e] = handled[e]
    BY <1>0, <1>k
  <2> QED
    BY <1>n, <2>1, <2>2, <2>3 DEF OneIf
\* A fault, after which one thing more may happen.
<1>f. ASSUME Fault, UNCHANGED handled,
             \A e \in EventIds : (MayArrive(e)' => MayArrive(e)) \/ (MayRun(e)' => MayRun(e))
      PROVE  HandledOnce'
  <2> SUFFICES ASSUME NEW e \in EventIds
               PROVE  handled'[e] + OneIf(MayArrive(e)') + OneIf(MayRun(e)') <= 1 + faults'
    BY DEF HandledOnce, OneIf
  <2>1. handled[e] + OneIf(MayArrive(e)) + OneIf(MayRun(e)) <= 1 + faults
    BY <1>0 DEF HandledOnce
  <2>2. (MayArrive(e)' => MayArrive(e)) \/ (MayRun(e)' => MayRun(e))
    BY <1>f
  <2>3. handled[e] \in Nat /\ handled'[e] = handled[e] /\ faults' = faults + 1
    BY <1>0, <1>f DEF Fault
  <2> QED
    BY <1>n, <2>1, <2>2, <2>3 DEF OneIf
\* What may arrive depends on fetch and the messages.
<1>a. ASSUME UNCHANGED queue, pc'["fetch"] = "enqueue" => pc["fetch"] = "enqueue"
      PROVE  \A e \in EventIds : MayArrive(e)' => MayArrive(e)
  BY <1>a DEF MayArrive
\* What may run depends on the records and on whether a handler is done.
<1>r. ASSUME UNCHANGED <<index, running>>,
             \A c \in Drains : pc[c] = "complete" => pc'[c] = "complete"
      PROVE  \A e \in EventIds : MayRun(e)' => MayRun(e)
  BY <1>r DEF MayRun
\* A step of fetch or alarm() that leaves the records and the messages alone.
<1>p. ASSUME NEW p \in {"fetch", "alarm"}, NEW point, Goto(p, point), point # "enqueue",
             UNCHANGED <<index, running>>
      PROVE  /\ \A e \in EventIds : MayRun(e)' => MayRun(e)
             /\ UNCHANGED queue => \A e \in EventIds : MayArrive(e)' => MayArrive(e)
  <2>1. pc'[p] = point /\ \A q \in Procs : q # p => pc'[q] = pc[q]
    BY <1>0, <1>p, GotoMoves, PointFacts
  <2>2. \A c \in Drains : pc'[c] = pc[c]
    BY <1>p, <2>1, PointFacts
  <2>3. pc'["fetch"] = "enqueue" => pc["fetch"] = "enqueue"
    BY <1>p, <2>1, PointFacts
  <2> QED
    BY <1>a, <1>p, <1>r, <2>2, <2>3
\* A step of a drain: nothing more may arrive.
<1>d. ASSUME NEW d \in Drains, NEW point, Goto(d, point), UNCHANGED queue
      PROVE  \A e \in EventIds : MayArrive(e)' => MayArrive(e)
  <2>1. pc'["fetch"] = pc["fetch"]
    BY <1>0, <1>d, GotoMoves, PointFacts
  <2> QED
    BY <1>a, <1>d, <2>1
\* A step of a drain whose handler has not done its work, that leaves the records alone.
<1>e. ASSUME NEW d \in Drains, NEW point, Goto(d, point), UNCHANGED <<index, running, queue>>,
             pc[d] # "complete"
      PROVE  \A e \in EventIds : (MayArrive(e)' => MayArrive(e)) /\ (MayRun(e)' => MayRun(e))
  <2>1. \A c \in Drains : pc[c] = "complete" => pc'[c] = "complete"
    BY <1>0, <1>e, GotoMoves, PointFacts
  <2> QED
    BY <1>d, <1>e, <1>r, <2>1
<1>s. ASSUME NEW p \in Procs, ScheduleNextAlarm(p) PROVE HandledOnce'
  <2>1. UNCHANGED <<index, running, handled>>
    BY <1>s DEF ScheduleNextAlarm, ListPending, GetRunning, ListGc, SetAlarm, vars
  <2>2. CASE p = "fetch" /\ At("fetch", "set")
    <3>1. SetAlarm("fetch") /\ StartDrain("fetch", "idle")
      BY <1>s, <2>2 DEF ScheduleNextAlarm, ListPending, GetRunning, ListGc, SetAlarm, At
    <3>2. \A c \in Drains : pc[c] = "complete" => pc'[c] = "complete"
      BY <1>0, <2>2, <3>1, StartGate, PointFacts
    <3>3. \A e \in EventIds : MayArrive(e)' => MayArrive(e)
      <4>1. \A e \in EventIds : queue'[e] = "queued" => queue[e] = "queued"
        BY <3>1 DEF SetAlarm
      <4>2. \A e \in EventIds : queue'[e] # "dispatching"
        BY <3>1 DEF SetAlarm
      <4> QED
        BY <4>1, <4>2 DEF MayArrive
    <3> QED
      BY <1>k, <1>r, <2>1, <3>2, <3>3
  <2>3. CASE ~(p = "fetch" /\ At("fetch", "set"))
    <3>1. \/ Moves(p, "pending", "gc") \/ Moves(p, "pending", "running")
          \/ Moves(p, "running", "gc") \/ Moves(p, "gc", "set")
          \/ Moves(p, "set", "idle") /\ p # "fetch"
      BY <1>s, <2>3, ScheduleMoves
    <3>2. UNCHANGED queue
      BY <1>s, <2>3, PointFacts
      DEF ScheduleNextAlarm, ListPending, GetRunning, ListGc, SetAlarm
    <3>3. \E here \in SchedulePoints, point \in {"idle"} \cup SchedulePoints : Moves(p, here, point)
      BY <3>1 DEF SchedulePoints
    <3>4. CASE p \in Drains
      BY <1>e, <1>k, <2>1, <3>2, <3>3, <3>4 DEF Moves, At, SchedulePoints
    <3>5. CASE p \notin Drains
      BY <1>p, <1>k, <2>1, <3>2, <3>3, <3>5, PointFacts DEF Moves, SchedulePoints
    <3> QED
      BY <3>4, <3>5
  <2> QED
    BY <2>2, <2>3
<1>1. ASSUME NEW e \in EventIds, ReceiveFetch(e) PROVE HandledOnce'
  <2>1. /\ queue[e] = "queued" /\ pc["fetch"] = "idle" /\ Goto("fetch", "enqueue")
        /\ queue' = [queue EXCEPT ![e] = "dispatching"]
        /\ UNCHANGED <<index, running, handled>>
    BY <1>1 DEF ReceiveFetch, vars
  <2>2. \A f \in EventIds : queue[f] # "dispatching"
    BY <1>0, <2>1 DEF MessagesFit
  <2>3. \A f \in EventIds : MayArrive(f)' => MayArrive(f)
    BY <1>0, <2>1, <2>2 DEF MayArrive
  <2>4. \A c \in Drains : pc'[c] = pc[c]
    BY <1>0, <2>1, GotoMoves, PointFacts
  <2> QED
    BY <1>k, <1>r, <2>1, <2>3, <2>4
<1>2. ASSUME NEW e \in EventIds, FetchEnqueue(e) PROVE HandledOnce'
  <2>1. /\ queue[e] = "dispatching" /\ pc["fetch"] = "enqueue" /\ Goto("fetch", "pending")
        /\ UNCHANGED <<queue, handled>>
    BY <1>2 DEF FetchEnqueue, At
  <2>2. pc'["fetch"] = "pending" /\ \A c \in Drains : pc'[c] = pc[c]
    BY <1>0, <2>1, GotoMoves, PointFacts
  <2>3. \A f \in EventIds : MayArrive(f)' => MayArrive(f)
    BY <2>1, <2>2 DEF MayArrive
  <2>4. MayArrive(e) /\ ~MayArrive(e)'
    BY <2>1, <2>2 DEF MayArrive
  <2>5. \A f \in EventIds : f # e => (MayRun(f)' => MayRun(f))
    <3>1. UNCHANGED running /\ \A f \in EventIds : f # e => index'[f] = index[f]
      BY <1>0, <1>2 DEF FetchEnqueue, EnqueueMailboxEvent, vars
    <3> QED
      BY <2>2, <3>1 DEF MayRun
  <2> SUFFICES ASSUME NEW f \in EventIds
               PROVE  handled'[f] + OneIf(MayArrive(f)') + OneIf(MayRun(f)') <= 1 + faults'
    BY DEF HandledOnce, OneIf
  <2>6. handled[f] + OneIf(MayArrive(f)) + OneIf(MayRun(f)) <= 1 + faults
    BY <1>0 DEF HandledOnce
  <2>7. handled[f] \in Nat /\ handled'[f] = handled[f]
    BY <1>0, <2>1
  <2> QED
    BY <1>n, <2>3, <2>4, <2>5, <2>6, <2>7 DEF OneIf
<1>3. ReceiveAlarm => HandledOnce'
  <2> SUFFICES ASSUME ReceiveAlarm PROVE HandledOnce'
    OBVIOUS
  <2>1. \A q \in Procs : q # "alarm" =>
          pc'[q] = pc[q] \/ (q \in Drains /\ pc[q] = "idle" /\ pc'[q] = "recover")
    BY <1>0, StartGate DEF ReceiveAlarm
  <2>2. UNCHANGED <<index, running, handled, queue>>
    BY DEF ReceiveAlarm, vars
  <2>3. pc'["fetch"] = pc["fetch"] /\ \A c \in Drains : pc[c] = "complete" => pc'[c] = "complete"
    BY <2>1, PointFacts
  <2> QED
    BY <1>a, <1>k, <1>r, <2>2, <2>3
<1>4. AlarmCleanup => HandledOnce'
  <2> SUFFICES ASSUME AlarmCleanup PROVE HandledOnce'
    OBVIOUS
  <2>1. Goto("alarm", "pending") /\ UNCHANGED <<queue, handled, running>>
    BY DEF AlarmCleanup, CleanupExpiredMailboxEvents, vars
  <2>2. \A q \in Procs : q # "alarm" => pc'[q] = pc[q]
    BY <1>0, <2>1, GotoMoves, PointFacts
  <2>3. \A e \in EventIds : index'[e] # None => index'[e] = index[e]
    BY DEF AlarmCleanup, CleanupExpiredMailboxEvents, vars
  <2>4. \A e \in EventIds : MayRun(e)' => MayRun(e)
    BY <2>1, <2>2, <2>3, PointFacts DEF MayRun
  <2> QED
    BY <1>a, <1>k, <2>1, <2>2, <2>4, PointFacts
\* The running event goes back to the queue, or it is finished.
<1>b. ASSUME running # None, running' = None, \A c \in Drains : pc[c] # "complete",
             \A e \in EventIds : e # running.eventId => index'[e] = index[e]
      PROVE  \A e \in EventIds : MayRun(e)' => MayRun(e)
  BY <1>b DEF MayRun
<1>5. ASSUME NEW d \in Drains, DrainRecover(d) PROVE HandledOnce'
  <2>1. pc[d] = "recover" /\ Goto(d, "claim") /\ UNCHANGED <<queue, handled>>
    BY <1>5 DEF DrainRecover, DrainUnchanged, At
  <2>2. CASE UNCHANGED vars
    BY <1>e, <1>k, <2>1, <2>2 DEF vars
  <2>3. CASE RecoverStaleRunningEvent(instance)
    <3>1. \A c \in Drains : pc[c] # "complete"
      BY <1>0, <2>1, NobodyCompletes
    <3>2. running # None /\ running' = None
      BY <2>3 DEF RecoverStaleRunningEvent
    <3>3. \A e \in EventIds : e # running.eventId => index'[e] = index[e]
      BY <1>0, <2>3 DEF RecoverStaleRunningEvent, UpdateMailboxEventState
    <3> QED
      BY <1>b, <1>d, <1>k, <2>1, <3>1, <3>2, <3>3
  <2> QED
    BY <1>5, <2>2, <2>3 DEF DrainRecover
<1>6. ASSUME NEW d \in Drains, DrainClaim(d) PROVE HandledOnce'
  <2>1. pc[d] = "claim" /\ Goto(d, "begin") /\ UNCHANGED <<queue, handled>>
    BY <1>6 DEF DrainClaim, DrainUnchanged, At
  <2>2. PICK p \in pending :
          /\ running' = ClaimedRecord(p, instance)
          /\ UpdateMailboxEventState(p.eventId, "running", p.sequence, p.attemptCount + 1)
    BY <1>6 DEF DrainClaim, ClaimNextMailboxEvent
  <2>3. p.eventId \in EventIds /\ index[p.eventId] # None /\ index[p.eventId].status = "pending"
    BY <1>q DEF TypeOK, PendingRecord, IndexAgreesWithQueue, PendingIsIndexed
  <2>4. MayRun(p.eventId)
    BY <2>3 DEF MayRun
  <2>5. \A e \in EventIds : e # p.eventId => index'[e] = index[e]
    BY <1>0, <2>2 DEF UpdateMailboxEventState
  <2>6. running'.eventId = p.eventId
    BY <2>2 DEF ClaimedRecord
  <2>7. \A e \in EventIds : MayRun(e)' => MayRun(e)
    BY <2>4, <2>5, <2>6 DEF MayRun
  <2> QED
    BY <1>d, <1>k, <2>1, <2>7
<1>7. ASSUME NEW d \in Drains, DrainFinish(d) \/ HandlerBegins(d) \/ HandlerThrows(d)
      PROVE  HandledOnce'
  <2>1. /\ pc[d] \in {"claim", "begin", "handler"} /\ \E point : Goto(d, point)
        /\ UNCHANGED <<index, running, queue, handled>>
    BY <1>7 DEF DrainFinish, EndDrain, HandlerBegins, HandlerThrows, DrainUnchanged, At, vars
  <2> QED
    BY <1>e, <1>k, <2>1
<1>8. ASSUME NEW d \in Drains, HandlerReturns(d) PROVE HandledOnce'
  <2>0. PICK e : e = item[d].eventId
    OBVIOUS
  <2>1. /\ pc[d] = "handler" /\ Goto(d, "complete")
        /\ handled' = [handled EXCEPT ![e] = @ + 1]
        /\ UNCHANGED <<index, running, queue>>
    BY <1>8, <2>0 DEF HandlerReturns, DrainUnchanged, vars
  <2>2. item[d] = running /\ running # None
    BY <1>0, <2>1, HolderPasses, HoldingFacts
  <2>3. e \in EventIds /\ index[e] # None /\ index[e].status = "running" /\ e = running.eventId
    BY <1>q, <2>0, <2>2 DEF TypeOK, RunningRecord, IndexAgreesWithQueue, RunningIsIndexed
  <2>4. \A c \in Drains : pc[c] # "complete"
    BY <1>0, <2>1, NobodyCompletes
  <2>5. MayRun(e)
    BY <2>2, <2>3, <2>4 DEF MayRun
  <2>6. pc'[d] = "complete"
    BY <1>0, <2>1, GotoMoves, PointFacts
  <2>7. ~MayRun(e)'
    BY <2>1, <2>3, <2>6 DEF MayRun
  <2>8. \A f \in EventIds : f # e => (MayRun(f)' => MayRun(f))
    BY <2>1, <2>3 DEF MayRun
  <2>9. \A f \in EventIds : MayArrive(f)' => MayArrive(f)
    BY <1>d, <2>1
  <2> SUFFICES ASSUME NEW f \in EventIds
               PROVE  handled'[f] + OneIf(MayArrive(f)') + OneIf(MayRun(f)') <= 1 + faults'
    BY DEF HandledOnce, OneIf
  <2>10. handled[f] + OneIf(MayArrive(f)) + OneIf(MayRun(f)) <= 1 + faults
    BY <1>0 DEF HandledOnce
  <2>11. handled[f] \in Nat /\ handled'[f] = IF f = e THEN handled[f] + 1 ELSE handled[f]
    BY <1>0, <2>1
  <2>12. (MayArrive(f)' => MayArrive(f)) /\ (f # e => (MayRun(f)' => MayRun(f)))
    BY <2>8, <2>9
  <2>13. CASE f = e
    BY <1>n, <2>5, <2>7, <2>10, <2>11, <2>12, <2>13 DEF OneIf
  <2>14. CASE f # e
    BY <1>n, <2>10, <2>11, <2>12, <2>14 DEF OneIf
  <2> QED
    BY <2>13, <2>14
<1>9. ASSUME NEW d \in Drains, DrainComplete(d) PROVE HandledOnce'
  <2>1. pc[d] = "complete" /\ Goto(d, "claim") /\ UNCHANGED <<queue, handled>>
    BY <1>9 DEF DrainComplete, DrainUnchanged, At
  <2>2. item[d] = running /\ running # None /\ IsSameRunningAttempt(item[d])
    BY <1>0, <2>1, HolderPasses, HoldingFacts
  <2>3. running.eventId \in EventIds
    BY <1>q, <2>2 DEF TypeOK, RunningRecord
  <2>4. /\ running' = None
        /\ UpdateMailboxEventState(running.eventId, "completed", running.sequence, running.attemptCount)
    BY <1>9, <2>2 DEF DrainComplete, CompleteMailboxEvent
  <2>5. /\ \A e \in EventIds : e # running.eventId => index'[e] = index[e]
        /\ index'[running.eventId].status = "completed"
    BY <1>0, <2>3, <2>4 DEF UpdateMailboxEventState
  <2>6. \A e \in EventIds : MayRun(e)' => MayRun(e)
    BY <2>4, <2>5 DEF MayRun
  <2> QED
    BY <1>d, <1>k, <2>1, <2>6
<1>10. ASSUME NEW d \in Drains, DrainFail(d) PROVE HandledOnce'
  <2>1. pc[d] = "fail" /\ Goto(d, "pending") /\ UNCHANGED <<queue, handled>>
    BY <1>10 DEF DrainFail, EndDrain, DrainUnchanged, At
  <2>2. item[d] = running /\ running # None /\ IsSameRunningAttempt(item[d])
    BY <1>0, <2>1, HolderPasses, HoldingFacts
  <2>3. \A c \in Drains : pc[c] # "complete"
    BY <1>0, <2>1, NobodyCompletes
  <2>4. running' = None /\ \A e \in EventIds : e # running.eventId => index'[e] = index[e]
    BY <1>0, <1>10, <2>2 DEF DrainFail, FailMailboxEvent, UpdateMailboxEventState
  <2> QED
    BY <1>b, <1>d, <1>k, <2>1, <2>2, <2>3, <2>4
<1>11. FaultStep => HandledOnce'
  <2>1. FetchStorageFails => HandledOnce'
    BY <1>f, <1>p, PointFacts DEF FetchStorageFails, vars
  <2>2. CleanupFails \/ AlarmScheduleFails => HandledOnce'
    BY <1>k, <1>p, PointFacts DEF CleanupFails, AlarmScheduleFails, vars
  <2>3. ASSUME NEW d \in Drains, DrainStorageFails(d) PROVE HandledOnce'
    <3>1. /\ pc[d] # "complete" /\ Goto(d, "pending")
          /\ UNCHANGED <<index, running, queue, handled>>
      BY <2>3 DEF DrainStorageFails, EndDrain, AbandonAttempt, At, vars
    <3> QED
      BY <1>e, <1>k, <3>1
  <2>4. ASSUME NEW d \in Drains, HandledStorageFails(d) PROVE HandledOnce'
    BY <1>d, <1>f, <2>4 DEF HandledStorageFails
  <2>5. ASSUME NEW d \in Drains, DetachedScheduleFails(d) PROVE HandledOnce'
    <3>1. /\ pc[d] # "complete" /\ Goto(d, "idle")
          /\ UNCHANGED <<index, running, queue, handled>>
      BY <2>5 DEF DetachedScheduleFails, At, SchedulePoints, vars
    <3> QED
      BY <1>e, <1>k, <3>1
  <2>6. ASSUME NEW e \in EventIds, Redeliver(e) PROVE HandledOnce'
    BY <1>f, <1>r, <2>6 DEF Redeliver, vars
  <2>7. Crash => HandledOnce'
    <3> SUFFICES ASSUME Crash PROVE HandledOnce'
      OBVIOUS
    <3>1. /\ Fault /\ UNCHANGED <<index, running, handled>> /\ RetryMessage
          /\ pc' = [p \in Procs |-> "idle"]
      BY DEF Crash
    <3>2. CASE Waits("fetch")
      <4>1. \A c \in Drains : ~Waits(c)
        <5>1. \A p \in Procs : (\A q \in Procs : Waits(q) <=> q = p) => p = "fetch"
          BY <3>2, PointFacts
        <5>2. \A d \in Drains : ~ \A q \in Procs : Waits(q) <=> q \in {d, "alarm"}
          BY <3>2, PointFacts
        <5> QED
          BY <1>0, <3>2, <5>1, <5>2, PointFacts DEF GateFits
      <4>2. \A c \in Drains : pc[c] # "complete"
        BY <4>1 DEF Waits, StoragePoints
      <4> QED
        BY <1>f, <1>r, <3>1, <4>2
    <3>3. CASE ~Waits("fetch")
      <4>1. pc["fetch"] = "idle"
        BY <1>0, <3>3, PointFacts DEF PointsFit, Waits, StoragePoints
      <4>2. \A e \in EventIds : queue[e] # "dispatching"
        BY <1>0, <4>1 DEF MessagesFit
      <4>3. \A e \in EventIds : MayArrive(e)' => MayArrive(e)
        BY <1>0, <3>1, <4>2 DEF RetryMessage, MayArrive
      <4> QED
        BY <1>f, <3>1, <4>3
    <3> QED
      BY <3>2, <3>3
  <2> QED
    BY <2>1, <2>2, <2>3, <2>4, <2>5, <2>6, <2>7 DEF FaultStep
<1>12. ASSUME UNCHANGED <<index, running, queue, pc, handled>> PROVE HandledOnce'
  BY <1>a, <1>k, <1>r, <1>12
<1> QED
  BY <1>s, <1>1, <1>2, <1>3, <1>4, <1>5, <1>6, <1>7, <1>8, <1>9, <1>10, <1>11, <1>12, PointFacts
  DEF ObjectNext, FetchStep, AlarmStep, DrainStep, HandlerEnds, TimePasses, Tick, vars, allVars,
      objectVars

-----------------------------------------------------------------------------
(* The theorems. *)

LEMMA ObjectInitInv == ObjectInit => ObjectInv
<1> SUFFICES ASSUME ObjectInit PROVE ObjectInv
  OBVIOUS
<1>0. /\ Init /\ instance = 1 /\ alarm = None /\ drainPromise = FALSE
      /\ pc = [p \in Procs |-> "idle"] /\ io = <<>>
      /\ item = [d \in Drains |-> None] /\ due = [p \in Procs |-> None]
      /\ queue = [e \in EventIds |-> "queued"] /\ handled = [e \in EventIds |-> 0]
      /\ faults = 0 /\ slow = 0
  BY DEF ObjectInit
<1>1. MailboxInv /\ TypeOK
  BY <1>0, InitInv DEF MailboxInv
<1>2. pending = {} /\ running = None /\ attempts = {} /\ index = [e \in EventIds |-> None]
  BY <1>0 DEF Init
<1>3. ObjectTypeOK
  <2>1. instance \in Instances /\ faults \in 0 .. MaxFaults /\ slow \in 0 .. MaxSlow
    <3>1. MaxFaults \in Nat /\ MaxSlow \in Nat
      BY ObjectConstants
    <3>2. 1 \in 1 .. MaxFaults + 1 /\ 0 \in 0 .. MaxFaults /\ 0 \in 0 .. MaxSlow
      BY <3>1
    <3> QED
      BY <1>0, <3>2, ObjectConstants
  <2>2. io \in Seq(Procs)
    BY <1>0
  <2> QED
    BY <1>0, <1>1, <2>1, <2>2 DEF ObjectTypeOK
<1>4. PointsFit /\ GateFits
  BY <1>0, PointFacts DEF PointsFit, GateFits, Waits, LoopPoints
<1>5. HoldersFit
  BY <1>0, <1>2, PointFacts, HoldingFacts DEF HoldersFit
<1>6. MessagesFit
  BY <1>0, PointFacts DEF MessagesFit, SchedulePoints
<1>7. ViewsFit /\ WorkIsWatched
  BY <1>0, <1>2 DEF ViewsFit, WorkIsWatched, Work
<1>8. HandledOnce
  <2>1. \A e \in EventIds : ~MayRun(e)
    BY <1>2 DEF MayRun
  <2> QED
    BY <1>0, <2>1 DEF HandledOnce, OneIf
<1> QED
  BY <1>1, <1>3, <1>4, <1>5, <1>6, <1>7, <1>8 DEF ObjectInv

LEMMA ObjectStep == ObjectInv /\ [ObjectNext]_allVars => ObjectInv'
  BY MailboxKept, ControlStep, TypesStep, HoldersStep, MessagesStep, ViewsStep, WatchedStep, OnceStep
  DEF ObjectInv

\* The inductive invariant holds in every reachable state of the object, for any number of
\* events, faults and slow ticks, and any lease, retention and delays.
THEOREM ObjectInvariant == ObjectSpec => []ObjectInv
  BY ObjectInitInv, ObjectStep, PTL DEF ObjectSpec

\* The stored records, the alarm and what the object keeps in memory have their types.
THEOREM ObjectTypes == ObjectSpec => []ObjectTypeOK
<1>1. ObjectInv => ObjectTypeOK
  BY DEF ObjectInv
<1> QED
  BY <1>1, ObjectInvariant, PTL

\* drainAgentMailbox runs one handler at a time, and the event it hands over is the one in
\* the running slot, whatever fetch() and alarm() do in the meantime and however long it takes.
THEOREM OneHandler == ObjectSpec => []OneHandlerAtATime
<1>1. ObjectInv => OneHandlerAtATime
  <2> SUFFICES ASSUME ObjectInv PROVE OneHandlerAtATime
    OBVIOUS
  <2> DEFINE busy == {d \in Drains : pc[d] \in HoldingPoints}
  <2>1. PointsFit /\ HoldersFit
    BY DEF ObjectInv
  <2>2. \A d, c \in busy : d = c
    BY <2>1, HoldingFacts DEF PointsFit
  <2>3. Cardinality(busy) <= 1
    <3>1. CASE busy = {}
      <4>1. Cardinality(busy) = 0
        BY <3>1, FS_EmptySet
      <4> QED
        BY <4>1
    <3>2. CASE busy # {}
      <4>1. PICK d \in busy : TRUE
        BY <3>2
      <4>2. busy = {d}
        BY <2>2, <4>1
      <4>3. Cardinality(busy) = 1
        BY <4>2, FS_Singleton
      <4> QED
        BY <4>3
    <3> QED
      BY <3>1, <3>2
  <2> QED
    BY <2>1, <2>3 DEF OneHandlerAtATime, HoldersFit, HoldingPoints
<1> QED
  BY <1>1, ObjectInvariant, PTL

\* Stored events are never left without an alarm, a function under way or a message that
\* brings the object back to them.
THEOREM WorkIsNeverStranded == ObjectSpec => []NoWorkIsStranded
<1>1. ObjectInv => NoWorkIsStranded
  BY PointFacts DEF ObjectInv, WorkIsWatched, Work, NoWorkIsStranded
<1> QED
  BY <1>1, ObjectInvariant, PTL

\* Without faults handleAgentEvent finishes its work for an event at most once, and each
\* fault accounts for at most one time more.
THEOREM HandledOnceEach == ObjectSpec => []HandledOnceWithoutFaults
<1>1. ObjectInv => HandledOnceWithoutFaults
  <2> SUFFICES ASSUME ObjectInv, NEW e \in EventIds PROVE handled[e] <= 1 + faults
    BY DEF HandledOnceWithoutFaults
  <2>1. handled[e] + OneIf(MayArrive(e)) + OneIf(MayRun(e)) <= 1 + faults
    BY DEF ObjectInv, HandledOnce
  <2>2. handled[e] \in Nat /\ faults \in Nat
    BY DEF ObjectInv, ObjectTypeOK
  <2>3. OneIf(MayArrive(e)) \in {0, 1} /\ OneIf(MayRun(e)) \in {0, 1}
    BY DEF OneIf
  <2> HIDE DEF OneIf
  <2> QED
    BY <2>1, <2>2, <2>3
<1> QED
  BY <1>1, ObjectInvariant, PTL

\* handleQueueMessage acknowledges a message only when the index knows its event.
THEOREM AcksAreHonest == ObjectSpec => AckedIsAccepted
<1> DEFINE Honest == \A e \in EventIds : queue[e] # "acked" /\ queue'[e] = "acked" => index[e] # None
<1>1. ObjectInv /\ [ObjectNext]_allVars => [Honest]_allVars
  <2> SUFFICES ASSUME ObjectInv, [ObjectNext]_allVars PROVE Honest
    OBVIOUS
  <2>0. queue \in [EventIds -> {"queued", "dispatching", "acked"}] /\ MessagesFit
    BY DEF ObjectInv, ObjectTypeOK
  <2>1. ASSUME NEW p, SetAlarm(p) PROVE Honest
    <3>1. p # "fetch" => UNCHANGED queue
      BY <2>1 DEF SetAlarm
    <3>2. CASE p = "fetch"
      <4>1. pc["fetch"] \in SchedulePoints
        BY <2>1, <3>2 DEF SetAlarm, At, SchedulePoints
      <4>2. queue' = [e \in EventIds |-> IF queue[e] = "dispatching" THEN "acked" ELSE queue[e]]
        BY <2>1, <3>2 DEF SetAlarm
      <4> QED
        BY <2>0, <4>1, <4>2 DEF MessagesFit
    <3> QED
      BY <3>1, <3>2
  <2>2. ASSUME NEW p, ScheduleNextAlarm(p) PROVE Honest
    BY <2>1, <2>2 DEF ScheduleNextAlarm, ListPending, GetRunning, ListGc
  <2>3. ASSUME NEW e \in EventIds, ReceiveFetch(e) \/ FetchEnqueue(e) \/ Redeliver(e) PROVE Honest
    BY <2>0, <2>3 DEF ReceiveFetch, FetchEnqueue, Redeliver
  <2>4. RetryMessage => Honest
    BY <2>0 DEF RetryMessage
  <2>5. ReceiveAlarm \/ AlarmCleanup \/ TimePasses \/ UNCHANGED allVars => UNCHANGED queue
    BY DEF ReceiveAlarm, AlarmCleanup, TimePasses, allVars, objectVars
  <2>6. ASSUME NEW d \in Drains, DrainStep(d) \/ HandlerEnds(d) PROVE Honest
    BY <2>2, <2>6
    DEF DrainStep, DrainRecover, DrainClaim, DrainFinish, HandlerBegins, DrainComplete, DrainFail,
        HandlerEnds, HandlerReturns, HandlerThrows, DrainUnchanged
  <2>7. FaultStep => Honest
    BY <2>3, <2>4
    DEF FaultStep, FetchStorageFails, CleanupFails, AlarmScheduleFails, Crash, DrainStorageFails,
        HandledStorageFails, DetachedScheduleFails
  <2> QED
    BY <2>2, <2>3, <2>5, <2>6, <2>7 DEF ObjectNext, FetchStep, AlarmStep
<1> QED
  BY <1>1, ObjectInvariant, PTL DEF ObjectSpec, AckedIsAccepted

\* The operators of the mailbox mean the same in the object and in its promise.
LEMMA SameUpdate ==
  ASSUME NEW e, NEW status, NEW sequence, NEW count
  PROVE  Mailbox!UpdateMailboxEventState(e, status, sequence, count)
           <=> UpdateMailboxEventState(e, status, sequence, count)
  BY DEF Mailbox!UpdateMailboxEventState, UpdateMailboxEventState, Mailbox!ExpiresAt, ExpiresAt,
         Mailbox!NextExpiresAt, NextExpiresAt, Mailbox!Terminal, Terminal

LEMMA SameHelpers ==
  /\ \A r : Mailbox!RetryRecord(r) = RetryRecord(r)
  /\ \A p, i : Mailbox!ClaimedRecord(p, i) = ClaimedRecord(p, i)
  /\ \A r : Mailbox!PutPending(r) <=> PutPending(r)
  /\ \A p : Mailbox!IsFirstPending(p) <=> IsFirstPending(p)
  /\ \A a : Mailbox!IsSameRunningAttempt(a) <=> IsSameRunningAttempt(a)
  /\ \A i : Mailbox!ShouldRecoverRunningEvent(i) <=> ShouldRecoverRunningEvent(i)
  /\ \A g : (Mailbox!HasExpired(g) <=> HasExpired(g)) /\ (Mailbox!KeyIsCurrent(g) <=> KeyIsCurrent(g))
  /\ \A b : Mailbox!IsCleanupBatch(b) <=> IsCleanupBatch(b)
<1>1. \A r : Mailbox!RetryRecord(r) = RetryRecord(r)
  BY DEF Mailbox!RetryRecord, RetryRecord
<1>2. \A p, i : Mailbox!ClaimedRecord(p, i) = ClaimedRecord(p, i)
  BY DEF Mailbox!ClaimedRecord, ClaimedRecord
<1>3. \A r : Mailbox!PutPending(r) <=> PutPending(r)
  BY DEF Mailbox!PutPending, PutPending
<1>4. \A p : Mailbox!IsFirstPending(p) <=> IsFirstPending(p)
  BY DEF Mailbox!IsFirstPending, IsFirstPending
<1>5. \A a : Mailbox!IsSameRunningAttempt(a) <=> IsSameRunningAttempt(a)
  BY DEF Mailbox!IsSameRunningAttempt, IsSameRunningAttempt
<1>6. \A i : Mailbox!ShouldRecoverRunningEvent(i) <=> ShouldRecoverRunningEvent(i)
  BY DEF Mailbox!ShouldRecoverRunningEvent, ShouldRecoverRunningEvent
<1>7. \A g : (Mailbox!HasExpired(g) <=> HasExpired(g)) /\ (Mailbox!KeyIsCurrent(g) <=> KeyIsCurrent(g))
  BY DEF Mailbox!HasExpired, HasExpired, Mailbox!KeyIsCurrent, KeyIsCurrent, Mailbox!Terminal, Terminal
<1>8. \A b : Mailbox!IsCleanupBatch(b) <=> IsCleanupBatch(b)
  <2>1. \A S : Mailbox!Cardinality(S) = Cardinality(S)
    BY DEF Mailbox!Cardinality, Cardinality
  <2> QED
    BY <2>1 DEF Mailbox!IsCleanupBatch, IsCleanupBatch
<1> QED
  BY <1>1, <1>2, <1>3, <1>4, <1>5, <1>6, <1>7, <1>8

LEMMA SameNext == [Next]_vars => [Mailbox!Next]_(Mailbox!vars)
<1> SUFFICES ASSUME [Next]_vars PROVE [Mailbox!Next]_(Mailbox!vars)
  OBVIOUS
<1>1. ASSUME NEW e \in EventIds, EnqueueMailboxEvent(e) PROVE Mailbox!EnqueueMailboxEvent(e)
  BY <1>1, SameHelpers DEF EnqueueMailboxEvent, Mailbox!EnqueueMailboxEvent
<1>2. ASSUME NEW i \in Instances, RecoverStaleRunningEvent(i)
      PROVE  Mailbox!RecoverStaleRunningEvent(i)
  BY <1>2, SameHelpers, SameUpdate DEF RecoverStaleRunningEvent, Mailbox!RecoverStaleRunningEvent
<1>3. ASSUME NEW i \in Instances, ClaimNextMailboxEvent(i) PROVE Mailbox!ClaimNextMailboxEvent(i)
  BY <1>3, SameHelpers, SameUpdate DEF ClaimNextMailboxEvent, Mailbox!ClaimNextMailboxEvent
<1>4. ASSUME NEW a \in attempts, CompleteMailboxEvent(a) PROVE Mailbox!CompleteMailboxEvent(a)
  BY <1>4, SameHelpers, SameUpdate DEF CompleteMailboxEvent, Mailbox!CompleteMailboxEvent
<1>5. ASSUME NEW a \in attempts, FailMailboxEvent(a) PROVE Mailbox!FailMailboxEvent(a)
  BY <1>5, SameHelpers, SameUpdate DEF FailMailboxEvent, Mailbox!FailMailboxEvent
<1>6. ASSUME NEW a \in attempts, AbandonAttempt(a) PROVE Mailbox!AbandonAttempt(a)
  BY <1>6 DEF AbandonAttempt, Mailbox!AbandonAttempt
<1>7. CleanupExpiredMailboxEvents => Mailbox!CleanupExpiredMailboxEvents
  BY SameHelpers DEF CleanupExpiredMailboxEvents, Mailbox!CleanupExpiredMailboxEvents
<1>8. Tick => Mailbox!Tick
  BY DEF Tick, Mailbox!Tick
<1>9. UNCHANGED vars => UNCHANGED Mailbox!vars
  BY DEF vars, Mailbox!vars
<1> QED
  BY <1>1, <1>2, <1>3, <1>4, <1>5, <1>6, <1>7, <1>8, <1>9 DEF Next, Mailbox!Next

\* The object uses its mailbox as AgentMailbox allows it: what the theorems of the mailbox
\* say for any callers holds of the records this object keeps.
THEOREM ObjectUsesMailbox == ObjectSpec => ImplementsMailbox
<1>1. ObjectInit => Mailbox!Init
  BY DEF ObjectInit, Init, Mailbox!Init
<1>2. ObjectInv /\ [ObjectNext]_allVars => [Mailbox!Next]_(Mailbox!vars)
  BY MailboxStep, SameNext
<1> QED
  BY <1>1, <1>2, ObjectInvariant, PTL DEF ObjectSpec, ImplementsMailbox, Mailbox!Spec

=============================================================================
