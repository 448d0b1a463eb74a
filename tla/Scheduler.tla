----------------------------- MODULE Scheduler ------------------------------
(***************************************************************************)
(* Schedules: the rows of D1's table `schedules`                           *)
(* (storage/repositories/schedules-repository.ts), the cron sweep that     *)
(* fires them (scheduler/schedule-sweeper.ts), the runs that report back   *)
(* (agents/agent-event-handler.ts) and the requests of users, from the     *)
(* admin API or from the tools of a running agent.                         *)
(*                                                                         *)
(* One step is one statement of D1 or one message sent: between two of     *)
(* them every other actor may act, so a row read by one statement may be   *)
(* stale when the next one writes.  Sweeps may overlap, as cron starts one *)
(* whether or not the last one is over.  Each schedule has a handler of    *)
(* its own: schedules of one agent are handled one after the other, which  *)
(* allows no step that is not allowed here.  The firing events reach the   *)
(* handler at least once (AgentDurableObject).  The clock counts periods   *)
(* of cron.                                                                *)
(***************************************************************************)
EXTENDS Integers, FiniteSets

CONSTANTS
  Schedules,     \* ids of the rows
  Sweepers,      \* invocations of cron that may overlap
  None,          \* no row, no time, no id
  Interval,      \* intervalSeconds of each schedule; 0 when it has none
  MaxAttempts,   \* maxAttempts of each schedule
  RetryDelay,    \* retryDelaySeconds
  BatchSize,     \* SCHEDULE_SWEEP_BATCH_SIZE
  MaxDispatches, \* SCHEDULE_SWEEP_MAX_DISPATCHES
  MaxTime,       \* bound of the model: the last tick
  MaxFaults,     \* bound of the model: failures of sweeps, runs and requests
  MaxRequests,   \* bound of the model: pauses, resumptions, cancellations, runs on request
  MaxRuns        \* bound of the model: runs that end; the others last for ever

ASSUME SchedulerConstants ==
  /\ None \notin Int
  /\ None \notin Schedules
  /\ IsFiniteSet(Schedules)
  /\ Interval \in [Schedules -> Nat]
  /\ MaxAttempts \in [Schedules -> Nat \ {0}]
  /\ {RetryDelay, BatchSize, MaxDispatches} \subseteq Nat \ {0}
  /\ {MaxTime, MaxFaults, MaxRequests, MaxRuns} \subseteq Nat

VARIABLES
  schedules, \* the row of each schedule, or None
  sweep,     \* the state of each invocation of sweepDueSchedules
  firing,    \* schedule.fire events that are not settled yet, for each schedule
  handler,   \* what the handler of each schedule's events is at
  manual,    \* what a request to run each schedule now is at
  heartbeat, \* status of the "cron" heartbeat, or None
  now,       \* the clock
  origin,    \* the due time each schedule was created with (history)
  lastFired, \* the latest scheduledTime a sweep fired each schedule for, or None (history)
  fires,     \* events sent for each schedule (history)
  cancelled, \* schedules that were cancelled once (history)
  succeeded, \* schedules of which a run succeeded (history)
  faults,    \* faults so far
  requests,  \* requests of users so far
  runs       \* runs that have ended so far

rowVars == <<schedules, origin, cancelled, succeeded>>
fireVars == <<firing, lastFired, fires>>
boundVars == <<now, faults, requests, runs>>
vars == <<rowVars, fireVars, boundVars, sweep, handler, manual, heartbeat>>

Status == {"active", "paused", "completed", "cancelled", "failed"}
Row == [status: Status, due: Nat, recurrence: Nat \cup {None}, attempt: Nat]
Rows == [Schedules -> Row \cup {None}]

ASSUME NoneIsNoRow == None \notin Row

Sweep == [pc: {"idle", "list", "send", "mark", "count", "beat"}, time: Nat, batch: Rows,
          current: Schedules \cup {None}, dispatched: 0 .. MaxDispatches,
          degraded: BOOLEAN]

Handler == [pc: {"idle", "run", "completed", "failed"}, row: Row \cup {None}, at: Nat]

\* Every variable has the values the code can give it; in particular a sweep
\* never dispatches more than SCHEDULE_SWEEP_MAX_DISPATCHES schedules.
SchedulerTypeOK ==
  /\ schedules \in Rows
  /\ sweep \in [Sweepers -> Sweep]
  /\ firing \in [Schedules -> Nat]
  /\ handler \in [Schedules -> Handler]
  /\ manual \in [Schedules -> {"idle", "mark", "send"}]
  /\ heartbeat \in {"ok", "degraded", None}
  /\ now \in 0 .. MaxTime
  /\ origin \in [Schedules -> Nat \cup {None}]
  /\ lastFired \in [Schedules -> Nat \cup {None}]
  /\ fires \in [Schedules -> Nat]
  /\ cancelled \in SUBSET Schedules
  /\ succeeded \in SUBSET Schedules
  /\ faults \in 0 .. MaxFaults
  /\ requests \in 0 .. MaxRequests
  /\ runs \in 0 .. MaxRuns

NoRows == [s \in Schedules |-> None]
IdleSweep == [pc |-> "idle", time |-> 0, batch |-> NoRows, current |-> None,
              dispatched |-> 0, degraded |-> FALSE]
IdleHandler == [pc |-> "idle", row |-> None, at |-> 0]

Init ==
  /\ schedules = NoRows
  /\ sweep = [w \in Sweepers |-> IdleSweep]
  /\ firing = [s \in Schedules |-> 0]
  /\ handler = [s \in Schedules |-> IdleHandler]
  /\ manual = [s \in Schedules |-> "idle"]
  /\ heartbeat = None
  /\ now = 0
  /\ origin = NoRows
  /\ lastFired = NoRows
  /\ fires = [s \in Schedules |-> 0]
  /\ cancelled = {}
  /\ succeeded = {}
  /\ faults = 0
  /\ requests = 0
  /\ runs = 0

HasRow(s) == schedules[s] # None
StatusIs(s, S) == HasRow(s) /\ schedules[s].status \in S
Recurs(s) == Interval[s] # 0

\* Something the platform guarantees not to happen too often: bounded.
Fault == faults < MaxFaults /\ faults' = faults + 1
Request == requests < MaxRequests /\ requests' = requests + 1

-----------------------------------------------------------------------------
(* The recurrence axis. *)

\* Mutant: a time on the axis that is not after `after` but equal to it is taken.
StaysAtPresent(s, previous, after) ==
  IF previous >= after THEN previous
  ELSE previous + ((after - previous) \div Interval[s]) * Interval[s]

\* Mutant: one occurrence is passed over.
SkipsOne(s, previous, after) ==
  previous + ((after - previous) \div Interval[s] + 2) * Interval[s]

\* The first time on the axis through previous that is later than after.
NextRecurringDueAt(s, previous, after) ==
  previous + ((after - previous) \div Interval[s] + 1) * Interval[s]

\* What a row's recurrence_due_at becomes when a sweep for time fires it.
NextDueAfterDispatch(s, row, time) ==
  IF ~Recurs(s) THEN None
  ELSE IF row.recurrence > time THEN row.recurrence
  ELSE NextRecurringDueAt(s, row.recurrence, time)

-----------------------------------------------------------------------------
(* The rows. *)

\* createSchedule: users may name any due time, also one that is over.
CreateSchedule(s, due) ==
  /\ ~HasRow(s)
  /\ schedules' = [schedules EXCEPT ![s] =
       [status |-> "active", due |-> due, recurrence |-> IF Recurs(s) THEN due ELSE None,
        attempt |-> 0]]
  /\ origin' = [origin EXCEPT ![s] = due]
  /\ UNCHANGED <<fireVars, boundVars, sweep, handler, manual, heartbeat, cancelled, succeeded>>

SetStatus(s, status) == schedules' = [schedules EXCEPT ![s].status = status]

PauseSchedule(s) ==
  /\ StatusIs(s, {"active"})
  /\ Request
  /\ SetStatus(s, "paused")
  /\ UNCHANGED <<fireVars, sweep, handler, manual, heartbeat, now, faults, runs>>
  /\ UNCHANGED <<origin, cancelled, succeeded>>

ResumeSchedule(s) ==
  /\ StatusIs(s, {"paused", "failed"})
  /\ Request
  /\ schedules' = [schedules EXCEPT ![s].status = "active", ![s].attempt = 0]
  /\ UNCHANGED <<fireVars, sweep, handler, manual, heartbeat, now, faults, runs>>
  /\ UNCHANGED <<origin, cancelled, succeeded>>

CancelSchedule(s) ==
  /\ StatusIs(s, Status \ {"cancelled"})
  /\ Request
  /\ SetStatus(s, "cancelled")
  /\ cancelled' = cancelled \cup {s}
  /\ UNCHANGED <<fireVars, sweep, handler, manual, heartbeat, now, faults, runs>>
  /\ UNCHANGED <<origin, succeeded>>

-----------------------------------------------------------------------------
(* Running a schedule now: the status is checked, the attempt is counted,    *)
(* and the event is sent, in three steps.                                    *)

RunNowChecks(s) ==
  /\ manual[s] = "idle"
  /\ StatusIs(s, Status \ {"cancelled"})
  /\ Request
  /\ manual' = [manual EXCEPT ![s] = "mark"]
  /\ UNCHANGED <<rowVars, fireVars, sweep, handler, heartbeat, now, faults, runs>>

\* markScheduleManualDispatch leaves a schedule alone that was cancelled since.
RunNowMarks(s) ==
  /\ manual[s] = "mark"
  /\ manual' = [manual EXCEPT ![s] = "send"]
  /\ schedules' = IF StatusIs(s, {"cancelled"}) THEN schedules
                  ELSE [schedules EXCEPT ![s].attempt = @ + 1]
  /\ UNCHANGED <<fireVars, boundVars, sweep, handler, heartbeat, origin, cancelled, succeeded>>

RunNowSends(s) ==
  /\ manual[s] = "send"
  /\ manual' = [manual EXCEPT ![s] = "idle"]
  /\ firing' = [firing EXCEPT ![s] = @ + 1]
  /\ fires' = [fires EXCEPT ![s] = @ + 1]
  /\ UNCHANGED <<rowVars, boundVars, sweep, handler, heartbeat, lastFired>>

RunNowFails(s) ==
  /\ manual[s] # "idle"
  /\ Fault
  /\ manual' = [manual EXCEPT ![s] = "idle"]
  /\ UNCHANGED <<rowVars, fireVars, sweep, handler, heartbeat, now, requests, runs>>

-----------------------------------------------------------------------------
(* The cron sweep. *)

\* Mutant: a schedule is listed whatever its status.
DueAnyway(s, time) == HasRow(s) /\ schedules[s].due <= time

IsDue(s, time) == StatusIs(s, {"active"}) /\ schedules[s].due <= time

\* Mutant: a schedule that is due right now is not due.
OverdueAt(time) == {s \in Schedules : IsDue(s, time) /\ schedules[s].due < time}

DueAt(time) == {s \in Schedules : IsDue(s, time)}

\* ORDER BY due_at ASC LIMIT limit; D1 may order equal times either way.
OldestDue(time, limit) ==
  {S \in SUBSET DueAt(time) :
     /\ Cardinality(S) <= limit
     /\ Cardinality(S) = limit \/ S = DueAt(time)
     /\ \A s \in S, t \in DueAt(time) \ S : schedules[s].due <= schedules[t].due}

PageLimit(w) ==
  LET left == MaxDispatches - sweep[w].dispatched
  IN  IF BatchSize <= left THEN BatchSize ELSE left

Listed(w) == {s \in Schedules : sweep[w].batch[s] # None}

\* s is the next of the rows that w has listed.
IsNext(w, s) ==
  /\ s \in Listed(w)
  /\ \A t \in Listed(w) : sweep[w].batch[s].due <= sweep[w].batch[t].due

Cron(w) ==
  /\ sweep[w].pc = "idle"
  /\ sweep' = [sweep EXCEPT ![w] = [IdleSweep EXCEPT !.pc = "list", !.time = now]]
  /\ UNCHANGED <<rowVars, fireVars, boundVars, handler, manual, heartbeat>>

ListDueSchedules(w) ==
  /\ sweep[w].pc = "list"
  /\ sweep[w].dispatched < MaxDispatches
  /\ \E S \in OldestDue(sweep[w].time, PageLimit(w)) \ {{}} :
       sweep' = [sweep EXCEPT
         ![w].pc = "send",
         ![w].batch = [s \in Schedules |-> IF s \in S THEN schedules[s] ELSE None]]
  /\ UNCHANGED <<rowVars, fireVars, boundVars, handler, manual, heartbeat>>

NothingLeftToList(w) ==
  /\ sweep[w].pc = "list"
  /\ sweep[w].dispatched >= MaxDispatches \/ DueAt(sweep[w].time) = {}
  /\ sweep' = [sweep EXCEPT ![w].pc = "count"]
  /\ UNCHANGED <<rowVars, fireVars, boundVars, handler, manual, heartbeat>>

\* The latest of the times a schedule was fired for.
Latest(last, time) == IF last = None \/ last < time THEN time ELSE last

\* enqueueScheduleFire
EnqueueScheduleFire(w, s) ==
  /\ sweep[w].pc = "send"
  /\ IsNext(w, s)
  /\ firing' = [firing EXCEPT ![s] = @ + 1]
  /\ fires' = [fires EXCEPT ![s] = @ + 1]
  /\ lastFired' = [lastFired EXCEPT ![s] = Latest(@, sweep[w].time)]
  /\ sweep' = [sweep EXCEPT ![w].pc = "mark", ![w].current = s]
  /\ UNCHANGED <<rowVars, boundVars, handler, manual, heartbeat>>

\* What the UPDATE of markScheduleDispatched leaves, made from the row as it was listed.
DispatchedRow(s, row, time) ==
  LET next == NextDueAfterDispatch(s, row, time)
  IN  [status |-> IF next # None THEN "active" ELSE "completed",
       due |-> IF next # None THEN next ELSE row.due,
       recurrence |-> IF next # None THEN next ELSE row.recurrence,
       attempt |-> row.attempt + 1]

MarkScheduleDispatched(w) ==
  LET s == sweep[w].current
  IN  /\ sweep[w].pc = "mark"
      /\ schedules' = [schedules EXCEPT ![s] =
           DispatchedRow(s, sweep[w].batch[s], sweep[w].time)]
      /\ sweep' = [sweep EXCEPT ![w].pc = IF Listed(w) = {s} THEN "list" ELSE "send",
                                ![w].batch[s] = None,
                                ![w].current = None,
                                ![w].dispatched = @ + 1]
      /\ UNCHANGED <<fireVars, boundVars, handler, manual, heartbeat>>
      /\ UNCHANGED <<origin, cancelled, succeeded>>

CountDueSchedules(w) ==
  /\ sweep[w].pc = "count"
  /\ sweep' = [sweep EXCEPT ![w].pc = "beat", ![w].degraded = (DueAt(sweep[w].time) # {})]
  /\ UNCHANGED <<rowVars, fireVars, boundVars, handler, manual, heartbeat>>

UpsertHeartbeat(w) ==
  /\ sweep[w].pc = "beat"
  /\ heartbeat' = IF sweep[w].degraded THEN "degraded" ELSE "ok"
  /\ sweep' = [sweep EXCEPT ![w] = IdleSweep]
  /\ UNCHANGED <<rowVars, fireVars, boundVars, handler, manual>>

\* D1 or the Queue rejects, or the Worker goes away: the sweep ends where it is.
SweepFails(w) ==
  /\ sweep[w].pc # "idle"
  /\ Fault
  /\ sweep' = [sweep EXCEPT ![w] = IdleSweep]
  /\ UNCHANGED <<rowVars, fireVars, handler, manual, heartbeat, now, requests, runs>>

-----------------------------------------------------------------------------
(* The run of a firing event, and its result. *)

HandleScheduleFire(s) ==
  /\ handler[s].pc = "idle"
  /\ firing[s] > 0
  /\ handler' = [handler EXCEPT ![s].pc = "run"]
  /\ UNCHANGED <<rowVars, fireVars, boundVars, sweep, manual, heartbeat>>

\* The run is over and recordScheduleRunResult reads the row.
RunEnds(s, outcome) ==
  /\ handler[s].pc = "run"
  /\ runs < MaxRuns
  /\ runs' = runs + 1
  /\ handler' = [handler EXCEPT ![s] = [pc |-> outcome, row |-> schedules[s], at |-> now]]
  /\ UNCHANGED <<rowVars, fireVars, now, faults, requests, sweep, manual, heartbeat>>

\* The event is settled and the handler free.
Settle(s) ==
  /\ handler' = [handler EXCEPT ![s] = IdleHandler]
  /\ firing' = [firing EXCEPT ![s] = @ - 1]

\* The result is written: the event is settled, unless the "schedule-fire"
\* heartbeat fails after it, and the mailbox runs the event once more.
Finish(s) ==
  \/ Settle(s) /\ UNCHANGED faults
  \/ Fault /\ handler' = [handler EXCEPT ![s] = IdleHandler] /\ UNCHANGED firing

StatusAfterSuccess(s, row) ==
  IF row.status # "failed" THEN row.status ELSE IF Recurs(s) THEN "active" ELSE "completed"

CompleteScheduleRun(s) ==
  /\ handler[s].pc = "completed"
  /\ schedules' = [schedules EXCEPT ![s].status = StatusAfterSuccess(s, handler[s].row),
                                    ![s].attempt = 0]
  /\ succeeded' = succeeded \cup {s}
  /\ Finish(s)
  /\ UNCHANGED <<now, requests, runs, sweep, manual, heartbeat, lastFired, fires>>
  /\ UNCHANGED <<origin, cancelled>>

CanRetry(s, row) == row.attempt < MaxAttempts[s]

FailScheduleRun(s) ==
  LET row == handler[s].row
  IN  /\ handler[s].pc = "failed"
      /\ schedules' = [schedules EXCEPT
           ![s].status = IF CanRetry(s, row) THEN "active" ELSE "failed",
           ![s].due = IF CanRetry(s, row) THEN handler[s].at + RetryDelay ELSE row.due]
      /\ Finish(s)
      /\ UNCHANGED <<now, requests, runs, sweep, manual, heartbeat, lastFired, fires>>
      /\ UNCHANGED <<origin, cancelled, succeeded>>

\* The handler fails before the event is settled: the mailbox retries the
\* event, or gives it up.
RunAbandoned(s) ==
  /\ handler[s].pc # "idle"
  /\ Fault
  /\ \/ Settle(s)
     \/ handler' = [handler EXCEPT ![s] = IdleHandler] /\ UNCHANGED firing
  /\ UNCHANGED <<rowVars, sweep, manual, heartbeat, now, requests, runs, lastFired, fires>>

Tick ==
  /\ now < MaxTime
  /\ now' = now + 1
  /\ UNCHANGED <<rowVars, fireVars, sweep, handler, manual, heartbeat, faults, requests, runs>>

-----------------------------------------------------------------------------
UserStep(s) ==
  \/ \E due \in 0 .. MaxTime : CreateSchedule(s, due)
  \/ PauseSchedule(s)
  \/ ResumeSchedule(s)
  \/ CancelSchedule(s)
  \/ RunNowChecks(s)
  \/ RunNowMarks(s)
  \/ RunNowSends(s)
  \/ RunNowFails(s)

SweepStep(w) ==
  \/ Cron(w)
  \/ ListDueSchedules(w)
  \/ NothingLeftToList(w)
  \/ \E s \in Schedules : EnqueueScheduleFire(w, s)
  \/ MarkScheduleDispatched(w)
  \/ CountDueSchedules(w)
  \/ UpsertHeartbeat(w)

RunStep(s) ==
  \/ HandleScheduleFire(s)
  \/ \E outcome \in {"completed", "failed"} : RunEnds(s, outcome)
  \/ CompleteScheduleRun(s)
  \/ FailScheduleRun(s)
  \/ RunAbandoned(s)

Next ==
  \/ \E s \in Schedules : UserStep(s) \/ RunStep(s)
  \/ \E w \in Sweepers : SweepStep(w) \/ SweepFails(w)
  \/ Tick

Spec == Init /\ [][Next]_vars

\* Cron goes on starting sweeps, a sweep that does not fail goes on, time passes.
FairSpec == Spec /\ WF_vars(Tick) /\ \A w \in Sweepers : WF_vars(SweepStep(w))

-----------------------------------------------------------------------------
(* Properties. *)

\* A recurrence stays on the axis through the first due time: late sweeps,
\* retries and stale rows do not make it drift.
OnAxis(s, row) ==
  row # None /\ Recurs(s)
    => \E k \in 0 .. row.recurrence : row.recurrence = origin[s] + k * Interval[s]

RecurrenceOnAxis == \A s \in Schedules : OnAxis(s, schedules[s])

\* Every occurrence before the one a recurring schedule waits for was fired
\* by a sweep, at that occurrence or later, whatever failed and overlapped;
\* and a schedule that happens once is not completed before it was fired.
Covered(s, row) ==
  /\ row # None /\ Recurs(s) /\ row.recurrence > origin[s]
       => lastFired[s] # None /\ row.recurrence <= lastFired[s] + Interval[s]
  /\ row # None /\ row.status = "completed" => fires[s] > 0

NoOccurrenceSkipped == \A s \in Schedules : Covered(s, schedules[s])

\* A sweep leaves no schedule due that it has just dispatched, however stale
\* the row was that it listed: unless another actor makes the schedule due
\* again, the sweep does not list it once more, and comes to an end.
DispatchTakesOut ==
  [][\A w \in Sweepers, s \in Schedules :
       MarkScheduleDispatched(w) /\ sweep[w].current = s /\ schedules'[s].status = "active"
         => schedules'[s].due > sweep[w].time]_vars

\* "Maximum attempts before marking the schedule failed": a schedule that happens
\* once, that no user touches and whose runs fail is fired maxAttempts times.
AttemptsAreLimited ==
  faults = 0 /\ requests = 0 =>
    \A s \in Schedules \ succeeded : ~Recurs(s) => fires[s] <= MaxAttempts[s]

\* A schedule is finished when it was cancelled ("Cancel a schedule so it will
\* not fire again."), or when it happens once, its run has succeeded and nobody
\* asked for another (it is marked completed): no sweep lists it any more.
Finished(s) ==
  \/ s \in cancelled
  \/ ~Recurs(s) /\ s \in succeeded /\ requests = 0

FinishedFiresNoMore ==
  [][\A w \in Sweepers, s \in Schedules :
       Finished(s) /\ sweep[w].batch[s] = None => sweep'[w].batch[s] = None]_vars

\* Nothing is under way for s: no sweep has listed it, no event waits or runs,
\* and no request to run it is half done.
Quiet(s) ==
  /\ firing[s] = 0
  /\ handler[s].pc = "idle"
  /\ manual[s] = "idle"
  /\ \A w \in Sweepers : sweep[w].batch[s] = None

\* A schedule cancelled while nothing is under way for it never fires again.
CancelHoldsWhenQuiet ==
  [][\A s \in Schedules :
       StatusIs(s, {"cancelled"}) /\ Quiet(s) => (StatusIs(s, {"cancelled"}) /\ Quiet(s))']_vars

\* Every active schedule is fired or taken out of action by a user, with more of them due
\* than one sweep may dispatch, whatever fails once and whoever else acts.
EveryScheduleFires ==
  \A s \in Schedules : StatusIs(s, {"active"}) ~> fires[s] > 0 \/ ~StatusIs(s, {"active"})

-----------------------------------------------------------------------------
(* The inductive invariant behind the safety properties: also the stale rows  *)
(* that sweeps hold are on the axis and covered, as they are written back.    *)

RowInv(s, row) ==
  /\ OnAxis(s, row)
  /\ Covered(s, row)
  /\ row # None /\ Recurs(s) => row.recurrence \in Nat

RowsInv ==
  \A s \in Schedules : RowInv(s, schedules[s]) /\ (HasRow(s) => origin[s] \in Nat)

BatchInv == \A w \in Sweepers, s \in Schedules : RowInv(s, sweep[w].batch[s])

\* Only schedules that exist are listed, fired or run.
NoRowNoWork == \A s \in Schedules : ~HasRow(s) => Quiet(s)

RunsInv ==
  \A s \in Schedules :
    /\ handler[s].pc # "idle" => firing[s] > 0
    /\ handler[s].pc \in {"completed", "failed"} => handler[s].row # None
    /\ firing[s] > 0 => fires[s] > 0

\* What a sweep is about to mark has been fired, and its batch fits the limit.
SweepInv(w) ==
  LET s == sweep[w].current
  IN  /\ sweep[w].pc \in {"send", "mark"}
           => sweep[w].dispatched + Cardinality(Listed(w)) <= MaxDispatches
      /\ sweep[w].pc = "mark"
           => /\ s \in Listed(w)
              /\ fires[s] > 0
              /\ lastFired[s] # None
              /\ lastFired[s] >= sweep[w].time

SweepsInv == \A w \in Sweepers : SweepInv(w)

SchedulerInv ==
  /\ SchedulerTypeOK
  /\ RowsInv
  /\ BatchInv
  /\ NoRowNoWork
  /\ RunsInv
  /\ SweepsInv

=============================================================================
