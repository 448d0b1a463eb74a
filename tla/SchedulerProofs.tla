-------------------------- MODULE SchedulerProofs ---------------------------
(* Proofs about Scheduler, for every value of its constants. *)
EXTENDS Scheduler, FiniteSetTheorems, TLAPS

\* Division of natural numbers rounds down.
LEMMA DivFacts ==
  ASSUME NEW a \in Nat, NEW i \in Nat \ {0}
  PROVE  /\ a \div i \in Nat
         /\ (a \div i) * i <= a
         /\ a < (a \div i + 1) * i
  BY SMT

\* A product is at least its factor.
LEMMA ProductFacts ==
  ASSUME NEW n \in Nat, NEW m \in Nat, NEW i \in Nat \ {0}
  PROVE  /\ n * i \in Nat
         /\ n <= n * i
         /\ (n + m) * i = n * i + m * i
         /\ (n + 1) * i = n * i + i
  BY SMT

\* The next occurrence is on the axis of the last one, later than the time of
\* the sweep, and no more than an interval later unless it was so before.
LEMMA NextDue ==
  ASSUME NEW s \in Schedules, Recurs(s),
         NEW row \in Row, row.recurrence \in Nat, NEW time \in Nat, NEW first \in Nat,
         \E k \in 0 .. row.recurrence : row.recurrence = first + k * Interval[s]
  PROVE  LET next == NextDueAfterDispatch(s, row, time)
         IN  /\ next \in Nat
             /\ next > time
             /\ next = row.recurrence \/ next <= time + Interval[s]
             /\ \E k \in 0 .. next : next = first + k * Interval[s]
<1> DEFINE last == row.recurrence
           i    == Interval[s]
<1>1. i \in Nat \ {0}
  BY SchedulerConstants DEF Recurs
<1>2. CASE last > time
  BY <1>2 DEF NextDueAfterDispatch
<1>3. CASE last <= time
  <2> DEFINE d == (time - last) \div i
  <2>1. /\ d \in Nat
        /\ d * i <= time - last
        /\ time - last < (d + 1) * i
    <3>1. time - last \in Nat
      BY <1>3
    <3> QED
      BY <1>1, <3>1, DivFacts
  <2>2. NextDueAfterDispatch(s, row, time) = last + (d + 1) * i
    BY <1>3 DEF NextDueAfterDispatch, NextRecurringDueAt
  <2> HIDE DEF d
  <2>3. (d + 1) * i = d * i + i /\ d * i \in Nat
    BY <1>1, <2>1, ProductFacts
  <2>4. PICK k \in 0 .. last : last = first + k * i
    OBVIOUS
  <2>5. last + (d + 1) * i = first + (k + (d + 1)) * i
    <3>1. (k + (d + 1)) * i = k * i + (d + 1) * i /\ k * i \in Nat /\ (d + 1) * i \in Nat
      BY <1>1, <2>1, ProductFacts
    <3> QED
      BY <2>4, <3>1
  <2>6. k + (d + 1) <= (k + (d + 1)) * i
    BY <1>1, <2>1, ProductFacts
  <2> QED
    BY <1>1, <1>3, <2>1, <2>2, <2>3, <2>5, <2>6
<1> QED
  BY <1>2, <1>3

\* The state in which cron starts a sweep.
LEMMA FreshSweep ==
  ASSUME NEW t \in Nat
  PROVE  [IdleSweep EXCEPT !.pc = "list", !.time = t] \in Sweep
<1>1. NoRows \in Rows
  BY DEF NoRows, Rows
<1>2. 0 \in 0 .. MaxDispatches
  BY SchedulerConstants
<1> QED
  BY <1>1, <1>2 DEF IdleSweep, Sweep

-----------------------------------------------------------------------------
\* A new row begins its axis at its own due time.
LEMMA CreateScheduleInv ==
  ASSUME SchedulerInv, NEW s \in Schedules, NEW due \in 0 .. MaxTime, CreateSchedule(s, due)
  PROVE  SchedulerInv'
<1> USE DEF SchedulerInv, rowVars, fireVars, boundVars
<1>1. SchedulerTypeOK'
  BY SchedulerConstants, NoneIsNoRow DEF SchedulerTypeOK, Rows, Row, Status, CreateSchedule
<1>2. RowsInv'
  <2>1. /\ schedules'[s] = [status |-> "active", due |-> due,
                           recurrence |-> IF Recurs(s) THEN due ELSE None, attempt |-> 0]
        /\ origin'[s] = due
        /\ \A t \in Schedules \ {s} : schedules'[t] = schedules[t] /\ origin'[t] = origin[t]
    BY DEF SchedulerTypeOK, Rows, CreateSchedule
  <2>2. RowInv(s, schedules[s])' /\ (HasRow(s) => origin[s] \in Nat)'
    <3>1. due = due + 0 * Interval[s] /\ due \in Nat /\ 0 \in 0 .. due
      BY SchedulerConstants
    <3> QED
      BY <2>1, <3>1 DEF RowInv, OnAxis, Covered, HasRow
  <2>3. ASSUME NEW t \in Schedules \ {s}
        PROVE  RowInv(t, schedules[t])' /\ (HasRow(t) => origin[t] \in Nat)'
    BY <2>1 DEF CreateSchedule, RowsInv, RowInv, OnAxis, Covered, HasRow
  <2> QED
    BY <2>2, <2>3 DEF RowsInv
<1>3. BatchInv'
  BY DEF SchedulerTypeOK, Rows, BatchInv, RowInv, OnAxis, Covered, CreateSchedule, HasRow,
      NoRowNoWork, Quiet
<1>4. NoRowNoWork'
  BY DEF NoRowNoWork, Quiet, HasRow, CreateSchedule
<1>5. RunsInv'
  BY DEF RunsInv, CreateSchedule
<1>6. SweepsInv'
  BY DEF SweepsInv, SweepInv, Listed, CreateSchedule
<1> QED
  BY <1>1, <1>2, <1>3, <1>4, <1>5, <1>6

\* A pause changes the status only.
LEMMA PauseScheduleInv ==
  ASSUME SchedulerInv, NEW s \in Schedules, PauseSchedule(s)
  PROVE  SchedulerInv'
<1> USE DEF SchedulerInv, rowVars, fireVars, boundVars
<1>0. /\ schedules' \in Rows
      /\ schedules'[s] \in Row
      /\ \A t \in Schedules \ {s} : schedules'[t] = schedules[t]
  <2>1. schedules[s] \in Row
    BY DEF SchedulerTypeOK, Rows, PauseSchedule, StatusIs, HasRow
  <2>2. schedules'[s] \in Row
    BY <2>1 DEF SchedulerTypeOK, Rows, Row, Status, PauseSchedule, SetStatus
  <2> QED
    BY <2>2 DEF SchedulerTypeOK, Rows, PauseSchedule, SetStatus
<1>1. SchedulerTypeOK'
  BY <1>0, SchedulerConstants DEF SchedulerTypeOK, PauseSchedule, Request
<1>2. RowsInv'
  BY DEF SchedulerTypeOK, Rows, RowsInv, RowInv, OnAxis, Covered, PauseSchedule, SetStatus,
      StatusIs, HasRow, Request
<1>3. BatchInv'
  BY DEF BatchInv, RowInv, OnAxis, Covered, PauseSchedule
<1>4. NoRowNoWork'
  BY <1>0, NoneIsNoRow DEF NoRowNoWork, Quiet, HasRow, PauseSchedule
<1>5. RunsInv'
  BY DEF RunsInv, PauseSchedule
<1>6. SweepsInv'
  BY DEF SweepsInv, SweepInv, Listed, PauseSchedule
<1> QED
  BY <1>1, <1>2, <1>3, <1>4, <1>5, <1>6

\* A resumption changes the status and the count of attempts only.
LEMMA ResumeScheduleInv ==
  ASSUME SchedulerInv, NEW s \in Schedules, ResumeSchedule(s)
  PROVE  SchedulerInv'
<1> USE DEF SchedulerInv, rowVars, fireVars, boundVars
<1>0. /\ schedules' \in Rows
      /\ schedules'[s] \in Row
      /\ \A t \in Schedules \ {s} : schedules'[t] = schedules[t]
  <2>1. schedules[s] \in Row
    BY DEF SchedulerTypeOK, Rows, ResumeSchedule, StatusIs, HasRow
  <2>2. schedules'[s] \in Row
    BY <2>1 DEF SchedulerTypeOK, Rows, Row, Status, ResumeSchedule
  <2> QED
    BY <2>2 DEF SchedulerTypeOK, Rows, ResumeSchedule
<1>1. SchedulerTypeOK'
  BY <1>0, SchedulerConstants DEF SchedulerTypeOK, ResumeSchedule, Request
<1>2. RowsInv'
  BY DEF SchedulerTypeOK, Rows, RowsInv, RowInv, OnAxis, Covered, ResumeSchedule, StatusIs,
      HasRow, Request
<1>3. BatchInv'
  BY DEF BatchInv, RowInv, OnAxis, Covered, ResumeSchedule
<1>4. NoRowNoWork'
  BY <1>0, NoneIsNoRow DEF NoRowNoWork, Quiet, HasRow, ResumeSchedule
<1>5. RunsInv'
  BY DEF RunsInv, ResumeSchedule
<1>6. SweepsInv'
  BY DEF SweepsInv, SweepInv, Listed, ResumeSchedule
<1> QED
  BY <1>1, <1>2, <1>3, <1>4, <1>5, <1>6

\* A cancellation changes the status only.
LEMMA CancelScheduleInv ==
  ASSUME SchedulerInv, NEW s \in Schedules, CancelSchedule(s)
  PROVE  SchedulerInv'
<1> USE DEF SchedulerInv, rowVars, fireVars, boundVars
<1>0. /\ schedules' \in Rows
      /\ schedules'[s] \in Row
      /\ \A t \in Schedules \ {s} : schedules'[t] = schedules[t]
  <2>1. schedules[s] \in Row
    BY DEF SchedulerTypeOK, Rows, CancelSchedule, StatusIs, HasRow
  <2>2. schedules'[s] \in Row
    BY <2>1 DEF SchedulerTypeOK, Rows, Row, Status, CancelSchedule, SetStatus
  <2> QED
    BY <2>2 DEF SchedulerTypeOK, Rows, CancelSchedule, SetStatus
<1>1. SchedulerTypeOK'
  BY <1>0, SchedulerConstants DEF SchedulerTypeOK, CancelSchedule, Request
<1>2. RowsInv'
  BY DEF SchedulerTypeOK, Rows, RowsInv, RowInv, OnAxis, Covered, CancelSchedule,
      SetStatus, StatusIs, HasRow, Request
<1>3. BatchInv'
  BY DEF BatchInv, RowInv, OnAxis, Covered, CancelSchedule
<1>4. NoRowNoWork'
  BY <1>0, NoneIsNoRow DEF NoRowNoWork, Quiet, HasRow, CancelSchedule
<1>5. RunsInv'
  BY DEF RunsInv, CancelSchedule
<1>6. SweepsInv'
  BY DEF SweepsInv, SweepInv, Listed, CancelSchedule
<1> QED
  BY <1>1, <1>2, <1>3, <1>4, <1>5, <1>6

\* A request to run a schedule now needs a row.
LEMMA RunNowChecksInv ==
  ASSUME SchedulerInv, NEW s \in Schedules, RunNowChecks(s)
  PROVE  SchedulerInv'
<1> USE DEF SchedulerInv, rowVars, fireVars, boundVars
<1>1. SchedulerTypeOK'
  BY SchedulerConstants, NoneIsNoRow DEF SchedulerTypeOK, Rows, Row, Status, RunNowChecks,
      StatusIs, Request
<1>2. RowsInv'
  BY DEF RowsInv, RowInv, OnAxis, Covered, HasRow, RunNowChecks
<1>3. BatchInv'
  BY DEF BatchInv, RowInv, OnAxis, Covered, RunNowChecks
<1>4. NoRowNoWork'
  BY DEF SchedulerTypeOK, NoRowNoWork, Quiet, RunNowChecks, StatusIs, HasRow, Request
<1>5. RunsInv'
  BY DEF RunsInv, RunNowChecks
<1>6. SweepsInv'
  BY DEF SweepsInv, SweepInv, Listed, RunNowChecks
<1> QED
  BY <1>1, <1>2, <1>3, <1>4, <1>5, <1>6

\* Counting the attempt of a manual run changes nothing else.
LEMMA RunNowMarksInv ==
  ASSUME SchedulerInv, NEW s \in Schedules, RunNowMarks(s)
  PROVE  SchedulerInv'
<1> USE DEF SchedulerInv, rowVars, fireVars, boundVars
<1>0. /\ schedules' \in Rows
      /\ schedules'[s] \in Row
      /\ \A t \in Schedules \ {s} : schedules'[t] = schedules[t]
  <2>1. schedules[s] \in Row
    BY DEF SchedulerTypeOK, Rows, RunNowMarks, NoRowNoWork, Quiet, HasRow
  <2>2. CASE StatusIs(s, {"cancelled"})
    BY <2>1, <2>2 DEF SchedulerTypeOK, RunNowMarks
  <2>3. CASE ~StatusIs(s, {"cancelled"})
    <3>1. schedules'[s] \in Row
      BY <2>1, <2>3 DEF SchedulerTypeOK, Rows, Row, RunNowMarks
    <3> QED
      BY <2>3, <3>1 DEF SchedulerTypeOK, Rows, RunNowMarks
  <2> QED
    BY <2>2, <2>3
<1>1. SchedulerTypeOK'
  BY <1>0 DEF SchedulerTypeOK, RunNowMarks
<1>2. RowsInv'
  BY SchedulerConstants, NoneIsNoRow DEF SchedulerTypeOK, Rows, Row, Status, Sweep,
      Handler, RunNowMarks, StatusIs, HasRow, RowsInv, RowInv, OnAxis, Covered, Recurs,
      RunsInv, NoRowNoWork, Quiet
<1>3. BatchInv'
  BY DEF BatchInv, RowInv, OnAxis, Covered, RunNowMarks
<1>4. NoRowNoWork'
  BY <1>0, NoneIsNoRow DEF SchedulerTypeOK, NoRowNoWork, Quiet, HasRow, RunNowMarks
<1>5. RunsInv'
  BY DEF RunsInv, RunNowMarks
<1>6. SweepsInv'
  BY DEF SweepsInv, SweepInv, Listed, RunNowMarks
<1> QED
  BY <1>1, <1>2, <1>3, <1>4, <1>5, <1>6

\* A manual run adds one event to those under way.
LEMMA RunNowSendsInv ==
  ASSUME SchedulerInv, NEW s \in Schedules, RunNowSends(s)
  PROVE  SchedulerInv'
<1> USE DEF SchedulerInv, rowVars, fireVars, boundVars
<1>1. SchedulerTypeOK'
  BY DEF SchedulerTypeOK, RunNowSends
<1>2. RowsInv'
  BY DEF SchedulerTypeOK, Rows, RowsInv, RowInv, OnAxis, Covered, RunNowSends, HasRow
<1>3. BatchInv'
  BY DEF SchedulerTypeOK, Sweep, BatchInv, RowInv, OnAxis, Covered, RunNowSends
<1>4. NoRowNoWork'
  BY DEF NoRowNoWork, Quiet, HasRow, RunNowSends
<1>5. RunsInv'
  BY DEF SchedulerTypeOK, RunsInv, RunNowSends
<1>6. SweepsInv'
  BY DEF SchedulerTypeOK, SweepsInv, SweepInv, Listed, RunNowSends
<1> QED
  BY <1>1, <1>2, <1>3, <1>4, <1>5, <1>6

\* A manual run that fails leaves what it has done so far.
LEMMA RunNowFailsInv ==
  ASSUME SchedulerInv, NEW s \in Schedules, RunNowFails(s)
  PROVE  SchedulerInv'
<1> USE DEF SchedulerInv, rowVars, fireVars, boundVars
<1>1. SchedulerTypeOK'
  BY SchedulerConstants, NoneIsNoRow DEF SchedulerTypeOK, Rows, Row, Status, RunNowFails,
      Fault
<1>2. RowsInv'
  BY DEF RowsInv, RowInv, OnAxis, Covered, HasRow, RunNowFails
<1>3. BatchInv'
  BY DEF BatchInv, RowInv, OnAxis, Covered, RunNowFails
<1>4. NoRowNoWork'
  BY DEF NoRowNoWork, Quiet, HasRow, RunNowFails
<1>5. RunsInv'
  BY DEF RunsInv, RunNowFails
<1>6. SweepsInv'
  BY DEF SweepsInv, SweepInv, Listed, RunNowFails
<1> QED
  BY <1>1, <1>2, <1>3, <1>4, <1>5, <1>6

\* A sweep begins with nothing listed and nothing dispatched.
LEMMA CronInv ==
  ASSUME SchedulerInv, NEW w \in Sweepers, Cron(w)
  PROVE  SchedulerInv'
<1> USE DEF SchedulerInv, rowVars, fireVars, boundVars
<1>1. SchedulerTypeOK'
  <2>1. now \in Nat
    BY SchedulerConstants DEF SchedulerTypeOK
  <2>2. [IdleSweep EXCEPT !.pc = "list", !.time = now] \in Sweep
    BY <2>1, FreshSweep
  <2> QED
    BY <2>2 DEF SchedulerTypeOK, Cron
<1>2. RowsInv'
  BY DEF RowsInv, RowInv, OnAxis, Covered, HasRow, Cron
<1>3. BatchInv'
  BY DEF SchedulerTypeOK, Sweep, BatchInv, RowInv, OnAxis, Covered, Cron, IdleSweep, NoRows
<1>4. NoRowNoWork'
  BY DEF SchedulerTypeOK, NoRowNoWork, Quiet, Cron, IdleSweep, NoRows, HasRow
<1>5. RunsInv'
  BY DEF RunsInv, Cron
<1>6. SweepsInv'
  BY DEF SweepsInv, SweepInv, Listed, Cron
<1> QED
  BY <1>1, <1>2, <1>3, <1>4, <1>5, <1>6

\* A sweep lists rows as they are, and no more than it may still dispatch.
LEMMA ListDueSchedulesInv ==
  ASSUME SchedulerInv, NEW w \in Sweepers, ListDueSchedules(w)
  PROVE  SchedulerInv'
<1> USE DEF SchedulerInv, rowVars, fireVars, boundVars
<1> DEFINE Page(S) == [t \in Schedules |-> IF t \in S THEN schedules[t] ELSE None]
<1>0. PICK S \in OldestDue(sweep[w].time, PageLimit(w)) :
        sweep' = [sweep EXCEPT ![w].pc = "send", ![w].batch = Page(S)]
  BY DEF ListDueSchedules
<1>1. SchedulerTypeOK'
  <2>1. sweep[w] \in Sweep /\ Page(S) \in Rows
    BY DEF SchedulerTypeOK, Rows
  <2>2. sweep'[w] = [sweep[w] EXCEPT !.pc = "send", !.batch = Page(S)]
    BY <1>0 DEF SchedulerTypeOK
  <2>3. sweep'[w] \in Sweep
    BY <2>1, <2>2 DEF Sweep
  <2> QED
    BY <1>0, <2>3 DEF SchedulerTypeOK, ListDueSchedules
<1>2. RowsInv'
  BY DEF RowsInv, RowInv, OnAxis, Covered, HasRow, ListDueSchedules
<1>3. BatchInv'
  BY DEF SchedulerTypeOK, Sweep, BatchInv, RowInv, OnAxis, Covered, ListDueSchedules,
      OldestDue, DueAt, IsDue, StatusIs
<1>4. NoRowNoWork'
  BY DEF SchedulerTypeOK, NoRowNoWork, Quiet, ListDueSchedules, OldestDue, DueAt, IsDue,
      StatusIs, HasRow
<1>5. RunsInv'
  BY DEF RunsInv, ListDueSchedules
<1>6. SweepsInv'
  <2>1. sweep[w] \in Sweep /\ sweep'[w] = [sweep[w] EXCEPT !.pc = "send", !.batch = Page(S)]
    BY <1>0 DEF SchedulerTypeOK
  <2>2. /\ S \subseteq Schedules
        /\ \A t \in S : schedules[t] # None
        /\ Cardinality(S) <= PageLimit(w)
    BY DEF OldestDue, DueAt, IsDue, StatusIs, HasRow
  <2>3. Listed(w)' = S
    BY <2>1, <2>2 DEF Listed, Sweep
  <2>4. Cardinality(S) \in Nat
    BY <2>2, SchedulerConstants, FS_Subset, FS_CardinalityType
  <2>5. sweep[w].dispatched + Cardinality(S) <= MaxDispatches
    BY <2>1, <2>2, <2>4, SchedulerConstants DEF PageLimit, Sweep
  <2>6. SweepInv(w)'
    BY <2>1, <2>3, <2>5 DEF SweepInv, Sweep
  <2>7. ASSUME NEW v \in Sweepers \ {w} PROVE SweepInv(v)'
    BY <1>0, <2>7 DEF SchedulerTypeOK, SweepsInv, SweepInv, Listed, ListDueSchedules
  <2> QED
    BY <2>6, <2>7 DEF SweepsInv
<1> QED
  BY <1>1, <1>2, <1>3, <1>4, <1>5, <1>6

\* A sweep that has nothing left to list changes no row.
LEMMA NothingLeftToListInv ==
  ASSUME SchedulerInv, NEW w \in Sweepers, NothingLeftToList(w)
  PROVE  SchedulerInv'
<1> USE DEF SchedulerInv, rowVars, fireVars, boundVars
<1>1. SchedulerTypeOK'
  <2>1. sweep[w] \in Sweep
    BY DEF SchedulerTypeOK
  <2>2. sweep'[w] \in Sweep
    BY <2>1 DEF SchedulerTypeOK, Sweep, NothingLeftToList
  <2> QED
    BY <2>2 DEF SchedulerTypeOK, NothingLeftToList
<1>2. RowsInv'
  BY DEF RowsInv, RowInv, OnAxis, Covered, HasRow, NothingLeftToList
<1>3. BatchInv'
  BY DEF BatchInv, RowInv, OnAxis, Covered, NothingLeftToList
<1>4. NoRowNoWork'
  BY DEF NoRowNoWork, Quiet, HasRow, NothingLeftToList
<1>5. RunsInv'
  BY DEF RunsInv, NothingLeftToList
<1>6. SweepsInv'
  BY DEF SweepsInv, SweepInv, Listed, NothingLeftToList
<1> QED
  BY <1>1, <1>2, <1>3, <1>4, <1>5, <1>6

\* Firing only raises lastFired, so every row stays covered, and the row to
\* be marked is covered at the time of the sweep.
LEMMA EnqueueScheduleFireInv ==
  ASSUME SchedulerInv, NEW w \in Sweepers, NEW s \in Schedules, EnqueueScheduleFire(w, s)
  PROVE  SchedulerInv'
<1> USE DEF SchedulerInv, rowVars, fireVars, boundVars
<1>0. /\ sweep[w] \in Sweep
      /\ sweep'[w] = [sweep[w] EXCEPT !.pc = "mark", !.current = s]
      /\ \A v \in Sweepers \ {w} : sweep'[v] = sweep[v]
  BY DEF SchedulerTypeOK, EnqueueScheduleFire
<1>g. /\ sweep'[w].pc = "mark" /\ sweep'[w].current = s
      /\ sweep'[w].batch = sweep[w].batch /\ sweep'[w].time = sweep[w].time
      /\ sweep'[w].dispatched = sweep[w].dispatched
  BY <1>0 DEF Sweep
<1>a. /\ lastFired' \in [Schedules -> Nat \cup {None}]
      /\ fires' \in [Schedules -> Nat]
      /\ fires'[s] > 0 /\ lastFired'[s] # None /\ lastFired'[s] >= sweep[w].time
      /\ \A t \in Schedules : fires'[t] >= fires[t]
      /\ \A t \in Schedules : lastFired[t] # None
             => lastFired'[t] # None /\ lastFired'[t] >= lastFired[t]
  BY <1>0, SchedulerConstants DEF SchedulerTypeOK, EnqueueScheduleFire, Latest, Sweep
<1>b. ASSUME NEW t \in Schedules, NEW row \in Row \cup {None}, RowInv(t, row),
             row # None => origin[t] \in Nat
      PROVE  /\ row # None /\ Recurs(t) /\ row.recurrence > origin[t]
                  => lastFired'[t] # None /\ row.recurrence <= lastFired'[t] + Interval[t]
             /\ row # None /\ row.status = "completed" => fires'[t] > 0
  BY <1>a, <1>b, SchedulerConstants DEF SchedulerTypeOK, RowInv, Covered
<1>c. origin' = origin /\ schedules' = schedules
  BY DEF EnqueueScheduleFire
<1>1. SchedulerTypeOK'
  <2>1. sweep'[w] \in Sweep
    BY <1>0 DEF Sweep
  <2> QED
    BY <1>a, <2>1 DEF SchedulerTypeOK, EnqueueScheduleFire
<1>2. RowsInv'
  BY <1>b, <1>c DEF SchedulerTypeOK, Rows, RowsInv, RowInv, OnAxis, Covered, HasRow
<1>3. BatchInv'
  <2>1. ASSUME NEW v \in Sweepers, NEW t \in Schedules
        PROVE  /\ sweep'[v].batch = sweep[v].batch
               /\ sweep[v].batch[t] \in Row \cup {None}
               /\ sweep[v].batch[t] # None => origin[t] \in Nat
    <3>1. sweep'[v].batch = sweep[v].batch
      BY <1>0, <1>g
    <3>2. sweep[v].batch[t] \in Row \cup {None}
      BY DEF SchedulerTypeOK, Sweep, Rows
    <3>3. sweep[v].batch[t] # None => origin[t] \in Nat
      BY DEF NoRowNoWork, Quiet, HasRow, RowsInv
    <3> QED
      BY <3>1, <3>2, <3>3
  <2>2. ASSUME NEW v \in Sweepers, NEW t \in Schedules PROVE RowInv(t, sweep[v].batch[t])'
    BY <1>b, <1>c, <2>1 DEF BatchInv, RowInv, OnAxis, Covered
  <2> QED
    BY <2>2 DEF BatchInv
<1>4. NoRowNoWork'
  BY DEF SchedulerTypeOK, NoRowNoWork, Quiet, EnqueueScheduleFire, IsNext, Listed, HasRow,
      Latest
<1>5. RunsInv'
  BY DEF SchedulerTypeOK, RunsInv, EnqueueScheduleFire, IsNext, Listed, Latest
<1>6. SweepsInv'
  <2>1. SweepInv(w)'
    <3>1. Listed(w)' = Listed(w) /\ s \in Listed(w) /\ sweep[w].pc = "send"
      BY <1>g DEF EnqueueScheduleFire, IsNext, Listed
    <3> QED
      BY <1>a, <1>g, <3>1 DEF SweepsInv, SweepInv
  <2>2. ASSUME NEW v \in Sweepers \ {w} PROVE SweepInv(v)'
    <3>1. sweep[v] \in Sweep /\ sweep'[v] = sweep[v] /\ Listed(v)' = Listed(v)
      BY <1>0 DEF SchedulerTypeOK, Listed
    <3>2. sweep[v].pc = "mark" => sweep[v].current \in Schedules
      BY DEF SweepsInv, SweepInv, Listed
    <3> QED
      BY <1>a, <3>1, <3>2 DEF SchedulerTypeOK, SweepsInv, SweepInv, Sweep
  <2> QED
    BY <2>1, <2>2 DEF SweepsInv
<1> QED
  BY <1>1, <1>2, <1>3, <1>4, <1>5, <1>6

\* The row that is written back, made from a row that may be stale, is on the
\* axis and covered.
LEMMA MarkScheduleDispatchedInv ==
  ASSUME SchedulerInv, NEW w \in Sweepers, MarkScheduleDispatched(w)
  PROVE  SchedulerInv'
<1> USE DEF SchedulerInv, rowVars, fireVars, boundVars
<1> DEFINE s    == sweep[w].current
           row  == sweep[w].batch[s]
           time == sweep[w].time
           next == NextDueAfterDispatch(s, row, time)
           new  == DispatchedRow(s, row, time)
<1>0. /\ sweep[w] \in Sweep /\ s \in Listed(w) /\ s \in Schedules
      /\ row \in Row /\ time \in Nat /\ RowInv(s, row)
      /\ fires[s] > 0 /\ lastFired[s] # None /\ lastFired[s] \in Nat /\ lastFired[s] >= time
      /\ sweep[w].dispatched + Cardinality(Listed(w)) <= MaxDispatches
  <2>1. sweep[w] \in Sweep /\ sweep[w].pc = "mark"
    BY DEF SchedulerTypeOK, MarkScheduleDispatched
  <2>2. s \in Listed(w) /\ s \in Schedules
    BY <2>1 DEF SweepsInv, SweepInv, Listed
  <2>3. row \in Row /\ time \in Nat /\ RowInv(s, row)
    BY <2>1, <2>2 DEF Sweep, Rows, Listed, BatchInv
  <2> QED
    BY <2>1, <2>2, <2>3 DEF SchedulerTypeOK, SweepsInv, SweepInv
<1>a. HasRow(s) /\ origin[s] \in Nat /\ schedules[s] # None
  BY <1>0 DEF NoRowNoWork, Quiet, Listed, RowsInv, HasRow
<1>b. /\ schedules' = [schedules EXCEPT ![s] = new]
      /\ sweep' = [sweep EXCEPT ![w].pc = IF Listed(w) = {s} THEN "list" ELSE "send",
                                ![w].batch[s] = None, ![w].current = None,
                                ![w].dispatched = @ + 1]
  BY DEF MarkScheduleDispatched
<1>c. ~Recurs(s) => next = None
  BY DEF NextDueAfterDispatch
<1>d. Recurs(s) => /\ next \in Nat
                   /\ next = row.recurrence \/ next <= time + Interval[s]
                   /\ \E k \in 0 .. next : next = origin[s] + k * Interval[s]
  <2>1. SUFFICES ASSUME Recurs(s)
                 PROVE  /\ next \in Nat
                        /\ next = row.recurrence \/ next <= time + Interval[s]
                        /\ \E k \in 0 .. next : next = origin[s] + k * Interval[s]
    OBVIOUS
  <2>2. row # None /\ row.recurrence \in Nat
    BY <1>0, <2>1, NoneIsNoRow DEF RowInv
  <2>3. \E k \in 0 .. row.recurrence : row.recurrence = origin[s] + k * Interval[s]
    BY <1>0, <2>1, <2>2 DEF RowInv, OnAxis
  <2> QED
    BY <1>0, <1>a, <2>1, <2>2, <2>3, NextDue
<1>e. new \in Row /\ schedules' \in Rows
  <2>1. new \in Row
    BY <1>0, <1>c, <1>d, SchedulerConstants DEF DispatchedRow, Row, Status
  <2> QED
    BY <1>b, <2>1 DEF SchedulerTypeOK, Rows
<1>f. RowInv(s, new)
  <2>1. CASE Recurs(s)
    <3>1. new.recurrence = next /\ new.status = "active"
      BY <1>d, <2>1, SchedulerConstants DEF DispatchedRow
    <3>2. next > origin[s] => next <= lastFired[s] + Interval[s]
      <4>1. Interval[s] \in Nat
        BY <1>0, SchedulerConstants
      <4>2. CASE next = row.recurrence
        BY <1>0, <2>1, <4>2, NoneIsNoRow DEF RowInv, Covered
      <4>3. CASE next <= time + Interval[s]
        BY <1>0, <1>d, <2>1, <4>1, <4>3
      <4> QED
        BY <1>d, <2>1, <4>2, <4>3
    <3> QED
      BY <1>0, <1>d, <2>1, <3>1, <3>2 DEF RowInv, OnAxis, Covered
  <2>2. CASE ~Recurs(s)
    BY <1>0, <2>2 DEF RowInv, OnAxis, Covered
  <2> QED
    BY <2>1, <2>2
<1>g. /\ schedules'[s] = new
      /\ \A t \in Schedules \ {s} : schedules'[t] = schedules[t]
  BY <1>0, <1>b DEF SchedulerTypeOK, Rows
<1>h. /\ sweep'[w] = [sweep[w] EXCEPT !.pc = IF Listed(w) = {s} THEN "list" ELSE "send",
                        !.batch[s] = None, !.current = None, !.dispatched = @ + 1]
      /\ \A v \in Sweepers \ {w} : sweep'[v] = sweep[v]
  BY <1>b DEF SchedulerTypeOK
<1>i. /\ sweep'[w].batch = [sweep[w].batch EXCEPT ![s] = None]
      /\ sweep'[w].dispatched = sweep[w].dispatched + 1
      /\ sweep'[w].pc = IF Listed(w) = {s} THEN "list" ELSE "send"
  BY <1>0, <1>h DEF Sweep
<1>j. IsFiniteSet(Listed(w)) /\ Cardinality(Listed(w)) \in Nat
      /\ Cardinality(Listed(w) \ {s}) = Cardinality(Listed(w)) - 1
      /\ Cardinality(Listed(w) \ {s}) \in Nat
  <2>1. IsFiniteSet(Listed(w))
    BY SchedulerConstants, FS_Subset DEF Listed
  <2> QED
    BY <1>0, <2>1, FS_CardinalityType, FS_RemoveElement
<1>1. SchedulerTypeOK'
  <2>1. sweep'[w] \in Sweep
    <3>1. [sweep[w].batch EXCEPT ![s] = None] \in Rows
      BY <1>0 DEF Sweep, Rows
    <3>2. sweep[w].dispatched + 1 \in 0 .. MaxDispatches
      BY <1>0, <1>j, SchedulerConstants DEF Sweep
    <3> QED
      BY <1>0, <1>h, <3>1, <3>2 DEF Sweep
  <2> QED
    BY <1>b, <1>e, <2>1 DEF SchedulerTypeOK, MarkScheduleDispatched
<1>2. RowsInv'
  BY <1>a, <1>f, <1>g
  DEF RowsInv, RowInv, OnAxis, Covered, HasRow, MarkScheduleDispatched
<1>3. BatchInv'
  <2>1. ASSUME NEW v \in Sweepers, NEW t \in Schedules
        PROVE  sweep'[v].batch[t] = sweep[v].batch[t] \/ sweep'[v].batch[t] = None
    <3>1. sweep[v] \in Sweep
      BY DEF SchedulerTypeOK
    <3>2. CASE v = w
      BY <1>0, <1>i, <3>2 DEF Sweep, Rows
    <3> QED
      BY <1>h, <3>2
  <2>2. /\ \A t \in Schedules : RowInv(t, None)'
        /\ \A v \in Sweepers, t \in Schedules :
             sweep'[v].batch[t] = sweep[v].batch[t] => RowInv(t, sweep[v].batch[t])'
    BY DEF BatchInv, RowInv, OnAxis, Covered, MarkScheduleDispatched
  <2>3. ASSUME NEW v \in Sweepers, NEW t \in Schedules PROVE RowInv(t, sweep[v].batch[t])'
    BY <2>1, <2>2 DEF RowInv, OnAxis, Covered
  <2> QED
    BY <2>3 DEF BatchInv
<1>4. NoRowNoWork'
  <2>1. ASSUME NEW v \in Sweepers, NEW t \in Schedules, sweep[v].batch[t] = None
        PROVE  sweep'[v].batch[t] = None
    <3>1. sweep[v] \in Sweep
      BY DEF SchedulerTypeOK
    <3>2. CASE v = w
      BY <1>0, <1>i, <2>1, <3>2 DEF Sweep, Rows
    <3> QED
      BY <1>h, <2>1, <3>2
  <2> QED
    BY <1>e, <1>g, <2>1, NoneIsNoRow DEF NoRowNoWork, Quiet, HasRow, MarkScheduleDispatched
<1>5. RunsInv'
  BY DEF RunsInv, MarkScheduleDispatched
<1>6. SweepsInv'
  <2>1. SweepInv(w)'
    <3>1. Listed(w)' = Listed(w) \ {s}
      BY <1>0, <1>i DEF Listed, Sweep, Rows
    <3> QED
      BY <1>0, <1>i, <1>j, <3>1, SchedulerConstants DEF SweepInv, Sweep
  <2>2. ASSUME NEW v \in Sweepers \ {w} PROVE SweepInv(v)'
    <3>1. sweep'[v] = sweep[v] /\ Listed(v)' = Listed(v)
      BY <1>h DEF Listed
    <3> QED
      BY <3>1 DEF SweepsInv, SweepInv, MarkScheduleDispatched
  <2> QED
    BY <2>1, <2>2 DEF SweepsInv
<1> QED
  BY <1>1, <1>2, <1>3, <1>4, <1>5, <1>6

\* Counting what is still due changes no row.
LEMMA CountDueSchedulesInv ==
  ASSUME SchedulerInv, NEW w \in Sweepers, CountDueSchedules(w)
  PROVE  SchedulerInv'
<1> USE DEF SchedulerInv, rowVars, fireVars, boundVars
<1>1. SchedulerTypeOK'
  <2>1. sweep[w] \in Sweep
    BY DEF SchedulerTypeOK
  <2>2. sweep'[w] \in Sweep
    BY <2>1 DEF SchedulerTypeOK, Sweep, CountDueSchedules
  <2> QED
    BY <2>2 DEF SchedulerTypeOK, CountDueSchedules
<1>2. RowsInv'
  BY DEF RowsInv, RowInv, OnAxis, Covered, HasRow, CountDueSchedules
<1>3. BatchInv'
  BY DEF SchedulerTypeOK, Sweep, BatchInv, RowInv, OnAxis, Covered, CountDueSchedules
<1>4. NoRowNoWork'
  BY DEF SchedulerTypeOK, NoRowNoWork, Quiet, CountDueSchedules, HasRow
<1>5. RunsInv'
  BY DEF RunsInv, CountDueSchedules
<1>6. SweepsInv'
  BY DEF SchedulerTypeOK, SweepsInv, SweepInv, Listed, CountDueSchedules
<1> QED
  BY <1>1, <1>2, <1>3, <1>4, <1>5, <1>6

\* The heartbeat ends the sweep.
LEMMA UpsertHeartbeatInv ==
  ASSUME SchedulerInv, NEW w \in Sweepers, UpsertHeartbeat(w)
  PROVE  SchedulerInv'
<1> USE DEF SchedulerInv, rowVars, fireVars, boundVars
<1>1. SchedulerTypeOK'
  BY SchedulerConstants, NoneIsNoRow DEF SchedulerTypeOK, Rows, Row, Sweep,
      UpsertHeartbeat, IdleSweep, NoRows
<1>2. RowsInv'
  BY DEF RowsInv, RowInv, OnAxis, Covered, HasRow, UpsertHeartbeat
<1>3. BatchInv'
  BY DEF SchedulerTypeOK, Sweep, BatchInv, RowInv, OnAxis, Covered, UpsertHeartbeat,
      IdleSweep, NoRows
<1>4. NoRowNoWork'
  BY DEF SchedulerTypeOK, NoRowNoWork, Quiet, UpsertHeartbeat, IdleSweep, NoRows, HasRow
<1>5. RunsInv'
  BY DEF RunsInv, UpsertHeartbeat
<1>6. SweepsInv'
  BY DEF SchedulerTypeOK, SweepsInv, SweepInv, Listed, UpsertHeartbeat, IdleSweep, NoRows
<1> QED
  BY <1>1, <1>2, <1>3, <1>4, <1>5, <1>6

\* A sweep that fails drops its batch.
LEMMA SweepFailsInv ==
  ASSUME SchedulerInv, NEW w \in Sweepers, SweepFails(w)
  PROVE  SchedulerInv'
<1> USE DEF SchedulerInv, rowVars, fireVars, boundVars
<1>1. SchedulerTypeOK'
  BY SchedulerConstants, NoneIsNoRow DEF SchedulerTypeOK, Rows, Row, Sweep, SweepFails,
      IdleSweep, NoRows, Fault
<1>2. RowsInv'
  BY DEF RowsInv, RowInv, OnAxis, Covered, HasRow, SweepFails
<1>3. BatchInv'
  BY DEF SchedulerTypeOK, Sweep, BatchInv, RowInv, OnAxis, Covered, SweepFails, IdleSweep,
      NoRows, Fault
<1>4. NoRowNoWork'
  BY DEF SchedulerTypeOK, NoRowNoWork, Quiet, SweepFails, IdleSweep, NoRows, HasRow, Fault
<1>5. RunsInv'
  BY DEF RunsInv, SweepFails
<1>6. SweepsInv'
  BY DEF SchedulerTypeOK, SweepsInv, SweepInv, Listed, SweepFails, IdleSweep, NoRows, Fault
<1> QED
  BY <1>1, <1>2, <1>3, <1>4, <1>5, <1>6

\* A run begins for an event under way.
LEMMA HandleScheduleFireInv ==
  ASSUME SchedulerInv, NEW s \in Schedules, HandleScheduleFire(s)
  PROVE  SchedulerInv'
<1> USE DEF SchedulerInv, rowVars, fireVars, boundVars
<1>1. SchedulerTypeOK'
  BY SchedulerConstants, NoneIsNoRow DEF SchedulerTypeOK, Rows, Row, Sweep, Handler,
      HandleScheduleFire
<1>2. RowsInv'
  BY DEF RowsInv, RowInv, OnAxis, Covered, HasRow, HandleScheduleFire
<1>3. BatchInv'
  BY DEF BatchInv, RowInv, OnAxis, Covered, HandleScheduleFire
<1>4. NoRowNoWork'
  BY DEF NoRowNoWork, Quiet, HasRow, HandleScheduleFire
<1>5. RunsInv'
  BY DEF RunsInv, HandleScheduleFire
<1>6. SweepsInv'
  BY DEF SweepsInv, SweepInv, Listed, HandleScheduleFire
<1> QED
  BY <1>1, <1>2, <1>3, <1>4, <1>5, <1>6

\* The row that a run reads exists.
LEMMA RunEndsInv ==
  ASSUME SchedulerInv, NEW s \in Schedules, NEW outcome \in {"completed", "failed"},
         RunEnds(s, outcome)
  PROVE  SchedulerInv'
<1> USE DEF SchedulerInv, rowVars, fireVars, boundVars
<1>1. SchedulerTypeOK'
  BY SchedulerConstants, NoneIsNoRow DEF SchedulerTypeOK, Rows, Row, Sweep, Handler,
      RunEnds
<1>2. RowsInv'
  BY DEF RowsInv, RowInv, OnAxis, Covered, HasRow, RunEnds
<1>3. BatchInv'
  BY DEF BatchInv, RowInv, OnAxis, Covered, RunEnds
<1>4. NoRowNoWork'
  BY DEF NoRowNoWork, Quiet, HasRow, RunEnds
<1>5. RunsInv'
  BY DEF SchedulerTypeOK, RunsInv, NoRowNoWork, Quiet, RunEnds, HasRow
<1>6. SweepsInv'
  BY DEF SweepsInv, SweepInv, Listed, RunEnds
<1> QED
  BY <1>1, <1>2, <1>3, <1>4, <1>5, <1>6

\* A success leaves the recurrence alone.
LEMMA CompleteScheduleRunInv ==
  ASSUME SchedulerInv, NEW s \in Schedules, CompleteScheduleRun(s)
  PROVE  SchedulerInv'
<1> USE DEF SchedulerInv, rowVars, fireVars, boundVars
<1>0. /\ schedules' \in Rows
      /\ schedules'[s] \in Row
      /\ \A t \in Schedules \ {s} : schedules'[t] = schedules[t]
  <2>1. schedules[s] \in Row
    BY DEF SchedulerTypeOK, Rows, CompleteScheduleRun, NoRowNoWork, Quiet, HasRow
  <2>2. handler[s].row \in Row
    BY DEF SchedulerTypeOK, Handler, CompleteScheduleRun, RunsInv
  <2>3. StatusAfterSuccess(s, handler[s].row) \in Status
    BY <2>2 DEF StatusAfterSuccess, Row, Status
  <2>4. schedules'[s] \in Row
    BY <2>1, <2>3 DEF SchedulerTypeOK, Rows, Row, CompleteScheduleRun
  <2> QED
    BY <2>4 DEF SchedulerTypeOK, Rows, CompleteScheduleRun
<1>1. SchedulerTypeOK'
  <2>1. IdleHandler \in Handler
    BY DEF IdleHandler, Handler
  <2>2. firing[s] \in Nat /\ firing[s] > 0
    BY DEF SchedulerTypeOK, RunsInv, CompleteScheduleRun
  <2> QED
    BY <1>0, <2>1, <2>2, SchedulerConstants
    DEF SchedulerTypeOK, CompleteScheduleRun, Finish, Settle, Fault
<1>2. RowsInv'
  BY SchedulerConstants, NoneIsNoRow DEF SchedulerTypeOK, Rows, Row, Status, Sweep,
      Handler, CompleteScheduleRun, StatusAfterSuccess, Finish, Settle, IdleHandler, HasRow,
      RowsInv, RowInv, OnAxis, Covered, Recurs, RunsInv, NoRowNoWork, Quiet
<1>3. BatchInv'
  BY DEF BatchInv, RowInv, OnAxis, Covered, CompleteScheduleRun
<1>4. NoRowNoWork'
  BY <1>0, NoneIsNoRow
  DEF SchedulerTypeOK, NoRowNoWork, Quiet, HasRow, CompleteScheduleRun, Finish, Settle
<1>5. RunsInv'
  BY DEF SchedulerTypeOK, RunsInv, CompleteScheduleRun, StatusAfterSuccess, Finish, Settle,
      IdleHandler
<1>6. SweepsInv'
  BY DEF SweepsInv, SweepInv, Listed, CompleteScheduleRun
<1> QED
  BY <1>1, <1>2, <1>3, <1>4, <1>5, <1>6

\* A failure moves the due time, never the recurrence.
LEMMA FailScheduleRunInv ==
  ASSUME SchedulerInv, NEW s \in Schedules, FailScheduleRun(s)
  PROVE  SchedulerInv'
<1> USE DEF SchedulerInv, rowVars, fireVars, boundVars
<1>0. /\ schedules' \in Rows
      /\ schedules'[s] \in Row
      /\ \A t \in Schedules \ {s} : schedules'[t] = schedules[t]
  <2>1. schedules[s] \in Row
    BY DEF SchedulerTypeOK, Rows, FailScheduleRun, NoRowNoWork, Quiet, HasRow
  <2>2. handler[s].row \in Row /\ handler[s].at + RetryDelay \in Nat
    BY SchedulerConstants DEF SchedulerTypeOK, Handler, FailScheduleRun, RunsInv
  <2>3. schedules'[s] \in Row
    BY <2>1, <2>2 DEF SchedulerTypeOK, Rows, Row, Status, FailScheduleRun
  <2> QED
    BY <2>3 DEF SchedulerTypeOK, Rows, FailScheduleRun
<1>1. SchedulerTypeOK'
  <2>1. IdleHandler \in Handler
    BY DEF IdleHandler, Handler
  <2>2. firing[s] \in Nat /\ firing[s] > 0
    BY DEF SchedulerTypeOK, RunsInv, FailScheduleRun
  <2> QED
    BY <1>0, <2>1, <2>2, SchedulerConstants
    DEF SchedulerTypeOK, FailScheduleRun, Finish, Settle, Fault
<1>2. RowsInv'
  BY SchedulerConstants, NoneIsNoRow DEF SchedulerTypeOK, Rows, Row, Status, Sweep,
      Handler, FailScheduleRun, CanRetry, Finish, Settle, IdleHandler, HasRow, RowsInv, RowInv,
      OnAxis, Covered, Recurs, RunsInv, NoRowNoWork, Quiet
<1>3. BatchInv'
  BY DEF BatchInv, RowInv, OnAxis, Covered, FailScheduleRun
<1>4. NoRowNoWork'
  BY <1>0, NoneIsNoRow
  DEF SchedulerTypeOK, NoRowNoWork, Quiet, HasRow, FailScheduleRun, Finish, Settle
<1>5. RunsInv'
  BY DEF SchedulerTypeOK, RunsInv, FailScheduleRun, CanRetry, Finish, Settle, IdleHandler
<1>6. SweepsInv'
  BY DEF SweepsInv, SweepInv, Listed, FailScheduleRun
<1> QED
  BY <1>1, <1>2, <1>3, <1>4, <1>5, <1>6

\* A run that is given up changes no row.
LEMMA RunAbandonedInv ==
  ASSUME SchedulerInv, NEW s \in Schedules, RunAbandoned(s)
  PROVE  SchedulerInv'
<1> USE DEF SchedulerInv, rowVars, fireVars, boundVars
<1>1. SchedulerTypeOK'
  <2>1. IdleHandler \in Handler
    BY DEF IdleHandler, Handler
  <2>2. firing[s] \in Nat /\ firing[s] > 0
    BY DEF SchedulerTypeOK, RunsInv, RunAbandoned
  <2> QED
    BY <2>1, <2>2, SchedulerConstants DEF SchedulerTypeOK, RunAbandoned, Settle, Fault
<1>2. RowsInv'
  BY DEF RowsInv, RowInv, OnAxis, Covered, HasRow, RunAbandoned
<1>3. BatchInv'
  BY DEF BatchInv, RowInv, OnAxis, Covered, RunAbandoned
<1>4. NoRowNoWork'
  BY DEF SchedulerTypeOK, NoRowNoWork, Quiet, RunAbandoned, Settle, IdleHandler, HasRow,
      Fault
<1>5. RunsInv'
  BY DEF SchedulerTypeOK, RunsInv, RunAbandoned, Settle, IdleHandler, Fault
<1>6. SweepsInv'
  BY DEF SweepsInv, SweepInv, Listed, RunAbandoned
<1> QED
  BY <1>1, <1>2, <1>3, <1>4, <1>5, <1>6

\* Time passes.
LEMMA TickInv ==
  ASSUME SchedulerInv, Tick
  PROVE  SchedulerInv'
<1> USE DEF SchedulerInv, rowVars, fireVars, boundVars
<1>1. SchedulerTypeOK'
  BY SchedulerConstants, NoneIsNoRow DEF SchedulerTypeOK, Rows, Row, Status, Tick
<1>2. RowsInv'
  BY DEF RowsInv, RowInv, OnAxis, Covered, HasRow, Tick
<1>3. BatchInv'
  BY DEF BatchInv, RowInv, OnAxis, Covered, Tick
<1>4. NoRowNoWork'
  BY DEF NoRowNoWork, Quiet, HasRow, Tick
<1>5. RunsInv'
  BY DEF RunsInv, Tick
<1>6. SweepsInv'
  BY DEF SweepsInv, SweepInv, Listed, Tick
<1> QED
  BY <1>1, <1>2, <1>3, <1>4, <1>5, <1>6

-----------------------------------------------------------------------------
\* The invariant holds at the start.
LEMMA InitInv == Init => SchedulerInv
<1> SUFFICES ASSUME Init PROVE SchedulerInv
  OBVIOUS
<1>1. NoRows \in Rows /\ IdleHandler \in Handler
  BY DEF NoRows, Rows, IdleHandler, Handler
<1>2. IdleSweep \in Sweep
  BY <1>1, SchedulerConstants DEF IdleSweep, Sweep
<1>3. SchedulerTypeOK
  BY <1>1, <1>2, SchedulerConstants DEF Init, SchedulerTypeOK, NoRows
<1>4. RowsInv /\ BatchInv /\ NoRowNoWork
  BY DEF Init, RowsInv, BatchInv, NoRowNoWork, Quiet, RowInv, OnAxis, Covered, HasRow,
         NoRows, IdleSweep, IdleHandler
<1>5. RunsInv /\ SweepsInv
  BY DEF Init, RunsInv, SweepsInv, SweepInv, IdleSweep, IdleHandler
<1> QED
  BY <1>3, <1>4, <1>5 DEF SchedulerInv

\* Every step keeps the invariant.
LEMMA NextInv == SchedulerInv /\ [Next]_vars => SchedulerInv'
<1> SUFFICES ASSUME SchedulerInv, [Next]_vars PROVE SchedulerInv'
  OBVIOUS
<1>1. CASE UNCHANGED vars
  <2>1. SchedulerTypeOK'
    BY <1>1 DEF vars, rowVars, fireVars, boundVars, SchedulerInv, SchedulerTypeOK
  <2>2. RowsInv' /\ BatchInv'
    BY <1>1
    DEF vars, rowVars, fireVars, boundVars, SchedulerInv, RowsInv, BatchInv, Quiet, RowInv,
        OnAxis, Covered, HasRow
  <2>3. NoRowNoWork' /\ RunsInv'
    BY <1>1
    DEF vars, rowVars, fireVars, boundVars, SchedulerInv, NoRowNoWork, RunsInv, Quiet, HasRow
  <2>4. SweepsInv'
    BY <1>1
    DEF vars, rowVars, fireVars, boundVars, SchedulerInv, SweepsInv, SweepInv, Listed
  <2> QED
    BY <2>1, <2>2, <2>3, <2>4 DEF SchedulerInv
<1>2. ASSUME NEW s \in Schedules, UserStep(s) PROVE SchedulerInv'
  BY <1>2, CreateScheduleInv, PauseScheduleInv, ResumeScheduleInv, CancelScheduleInv,
     RunNowChecksInv, RunNowMarksInv, RunNowSendsInv, RunNowFailsInv
  DEF UserStep
<1>3. ASSUME NEW s \in Schedules, RunStep(s) PROVE SchedulerInv'
  BY <1>3, HandleScheduleFireInv, RunEndsInv, CompleteScheduleRunInv, FailScheduleRunInv,
     RunAbandonedInv
  DEF RunStep
<1>4. ASSUME NEW w \in Sweepers, SweepStep(w) PROVE SchedulerInv'
  BY <1>4, CronInv, ListDueSchedulesInv, NothingLeftToListInv, EnqueueScheduleFireInv,
     MarkScheduleDispatchedInv, CountDueSchedulesInv, UpsertHeartbeatInv
  DEF SweepStep
<1>5. ASSUME NEW w \in Sweepers, SweepFails(w) PROVE SchedulerInv'
  BY <1>5, SweepFailsInv
<1> QED
  BY <1>1, <1>2, <1>3, <1>4, <1>5, TickInv DEF Next

\* Every reachable state satisfies the inductive invariant.
THEOREM SchedulerInvariant == Spec => []SchedulerInv
  BY InitInv, NextInv, PTL DEF Spec

\* Every variable keeps its type, and a sweep its limit.
THEOREM SchedulerTypes == Spec => []SchedulerTypeOK
<1>1. SchedulerInv => SchedulerTypeOK
  BY DEF SchedulerInv
<1> QED
  BY <1>1, SchedulerInvariant, PTL

\* Recurrences never drift from the axis of the first due time, whatever
\* sweeps overlap, runs fail and users do.
THEOREM NoDrift == Spec => []RecurrenceOnAxis
<1>1. SchedulerInv => RecurrenceOnAxis
  BY DEF SchedulerInv, RowsInv, RowInv, RecurrenceOnAxis
<1> QED
  BY <1>1, SchedulerInvariant, PTL

\* No occurrence is passed over before a sweep has fired it, however sweeps
\* crash and overlap.
THEOREM AtLeastOnce == Spec => []NoOccurrenceSkipped
<1>1. SchedulerInv => NoOccurrenceSkipped
  BY DEF SchedulerInv, RowsInv, RowInv, NoOccurrenceSkipped
<1> QED
  BY <1>1, SchedulerInvariant, PTL

\* What a sweep dispatches is no longer due for it, however stale the row was.
THEOREM SweepsMoveOn == Spec => DispatchTakesOut
<1>1. ASSUME SchedulerInv, NEW w \in Sweepers, NEW s \in Schedules,
             MarkScheduleDispatched(w), sweep[w].current = s, schedules'[s].status = "active"
      PROVE  schedules'[s].due > sweep[w].time
  <2> DEFINE row == sweep[w].batch[s]
  <2>1. sweep[w] \in Sweep /\ sweep[w].pc = "mark" /\ s \in Listed(w)
    BY <1>1 DEF SchedulerInv, SchedulerTypeOK, MarkScheduleDispatched, SweepsInv, SweepInv
  <2>2. row \in Row /\ RowInv(s, row) /\ sweep[w].time \in Nat
    BY <1>1, <2>1 DEF Sweep, Rows, Listed, SchedulerInv, BatchInv
  <2>3. origin[s] \in Nat
    BY <1>1, <2>1 DEF SchedulerInv, NoRowNoWork, Quiet, Listed, RowsInv, HasRow
  <2>4. schedules'[s] = DispatchedRow(s, row, sweep[w].time)
    BY <1>1 DEF MarkScheduleDispatched, SchedulerInv, SchedulerTypeOK, Rows
  <2>5. NextDueAfterDispatch(s, row, sweep[w].time) # None
    BY <1>1, <2>4 DEF DispatchedRow
  <2>6. Recurs(s)
    BY <2>5 DEF NextDueAfterDispatch
  <2>7. /\ row.recurrence \in Nat
        /\ \E k \in 0 .. row.recurrence : row.recurrence = origin[s] + k * Interval[s]
    BY <2>2, <2>6, NoneIsNoRow DEF RowInv, OnAxis
  <2>8. NextDueAfterDispatch(s, row, sweep[w].time) > sweep[w].time
    BY <2>2, <2>3, <2>6, <2>7, NextDue
  <2> QED
    BY <2>4, <2>5, <2>8 DEF DispatchedRow
<1>2. SchedulerInv /\ [Next]_vars
        => [\A w \in Sweepers, s \in Schedules :
              MarkScheduleDispatched(w) /\ sweep[w].current = s
              /\ schedules'[s].status = "active"
                => schedules'[s].due > sweep[w].time]_vars
  BY <1>1
<1> QED
  BY <1>2, SchedulerInvariant, PTL DEF Spec, DispatchTakesOut

\* Nothing that happens disturbs a cancelled schedule nothing is under way for.
LEMMA CancelledStaysQuiet ==
  ASSUME SchedulerInv, Next, NEW t \in Schedules, StatusIs(t, {"cancelled"}), Quiet(t)
  PROVE  (StatusIs(t, {"cancelled"}) /\ Quiet(t))'
<1> DEFINE Untouched == /\ schedules'[t] = schedules[t]
                        /\ firing'[t] = firing[t]
                        /\ handler'[t] = handler[t]
                        /\ manual'[t] = manual[t]
                        /\ \A w \in Sweepers : sweep'[w].batch[t] = None
<1> SUFFICES Untouched
  BY DEF StatusIs, HasRow, Quiet
<1> USE DEF rowVars, fireVars, boundVars
<1>1. /\ schedules[t] # None /\ schedules[t].status = "cancelled"
      /\ firing[t] = 0 /\ handler[t].pc = "idle" /\ manual[t] = "idle"
      /\ \A w \in Sweepers : sweep[w].batch[t] = None
      /\ schedules \in Rows /\ sweep \in [Sweepers -> Sweep]
      /\ firing \in [Schedules -> Nat] /\ handler \in [Schedules -> Handler]
      /\ manual \in [Schedules -> {"idle", "mark", "send"}]
  BY DEF StatusIs, HasRow, Quiet, SchedulerInv, SchedulerTypeOK
<1>2. ASSUME NEW s \in Schedules, UserStep(s) PROVE Untouched
  <2>1. ASSUME NEW due \in 0 .. MaxTime, CreateSchedule(s, due) PROVE Untouched
    BY <1>1, <2>1 DEF Rows, CreateSchedule, HasRow, StatusIs
  <2>2. CASE PauseSchedule(s)
    BY <1>1, <2>2 DEF Rows, PauseSchedule, SetStatus, StatusIs
  <2>3. CASE ResumeSchedule(s)
    BY <1>1, <2>3 DEF Rows, ResumeSchedule, StatusIs
  <2>4. CASE CancelSchedule(s)
    BY <1>1, <2>4 DEF Rows, CancelSchedule, SetStatus, StatusIs
  <2>5. CASE RunNowChecks(s)
    BY <1>1, <2>5 DEF Rows, RunNowChecks, StatusIs
  <2>6. CASE RunNowMarks(s)
    BY <1>1, <2>6 DEF Rows, RunNowMarks
  <2>7. CASE RunNowSends(s)
    BY <1>1, <2>7 DEF Rows, RunNowSends
  <2>8. CASE RunNowFails(s)
    BY <1>1, <2>8 DEF Rows, RunNowFails
  <2> QED
    BY <1>2, <2>1, <2>2, <2>3, <2>4, <2>5, <2>6, <2>7, <2>8 DEF UserStep
<1>3. ASSUME NEW s \in Schedules, RunStep(s) PROVE Untouched
  <2>1. CASE HandleScheduleFire(s)
    BY <1>1, <2>1 DEF Rows, HandleScheduleFire
  <2>2. ASSUME NEW outcome \in {"completed", "failed"}, RunEnds(s, outcome) PROVE Untouched
    BY <1>1, <2>2 DEF Rows, RunEnds
  <2>3. CASE CompleteScheduleRun(s)
    BY <1>1, <2>3 DEF Rows, CompleteScheduleRun, Finish, Settle
  <2>4. CASE FailScheduleRun(s)
    BY <1>1, <2>4 DEF Rows, FailScheduleRun, Finish, Settle
  <2>5. CASE RunAbandoned(s)
    BY <1>1, <2>5 DEF Rows, RunAbandoned, Settle
  <2> QED
    BY <1>3, <2>1, <2>2, <2>3, <2>4, <2>5 DEF RunStep
<1>4. ASSUME NEW w \in Sweepers, SweepStep(w) \/ SweepFails(w) PROVE Untouched
  <2>1. CASE Cron(w)
    BY <1>1, <2>1 DEF Sweep, Rows, Cron, IdleSweep, NoRows
  <2>2. CASE ListDueSchedules(w)
    <3>1. \A S \in OldestDue(sweep[w].time, PageLimit(w)) : t \notin S
      BY <1>1 DEF OldestDue, DueAt, IsDue, StatusIs
    <3> QED
      BY <1>1, <2>2, <3>1 DEF Sweep, ListDueSchedules
  <2>3. CASE NothingLeftToList(w)
    BY <1>1, <2>3 DEF Sweep, Rows, NothingLeftToList
  <2>4. ASSUME NEW s \in Schedules, EnqueueScheduleFire(w, s) PROVE Untouched
    BY <1>1, <2>4 DEF Sweep, Rows, EnqueueScheduleFire, IsNext, Listed
  <2>5. CASE MarkScheduleDispatched(w)
    <3>1. sweep[w].current # t
      BY <1>1, <2>5 DEF MarkScheduleDispatched, SchedulerInv, SweepsInv, SweepInv, Listed
    <3>2. sweep'[w].batch[t] = None
      BY <1>1, <2>5 DEF MarkScheduleDispatched, Sweep, Rows
    <3> QED
      BY <1>1, <2>5, <3>1, <3>2 DEF MarkScheduleDispatched, Rows
  <2>6. CASE CountDueSchedules(w)
    BY <1>1, <2>6 DEF Sweep, Rows, CountDueSchedules
  <2>7. CASE UpsertHeartbeat(w)
    BY <1>1, <2>7 DEF Sweep, Rows, UpsertHeartbeat, IdleSweep, NoRows
  <2>8. CASE SweepFails(w)
    BY <1>1, <2>8 DEF SweepFails, IdleSweep, NoRows
  <2> QED
    BY <1>4, <2>1, <2>2, <2>3, <2>4, <2>5, <2>6, <2>7, <2>8 DEF SweepStep
<1>5. CASE Tick
  BY <1>1, <1>5 DEF Tick
<1> QED
  BY <1>2, <1>3, <1>4, <1>5 DEF Next

\* A schedule cancelled while nothing is under way for it never fires again.
THEOREM CancelledForGood == Spec => CancelHoldsWhenQuiet
<1>1. ASSUME SchedulerInv, [Next]_vars, NEW t \in Schedules,
             StatusIs(t, {"cancelled"}), Quiet(t)
      PROVE  (StatusIs(t, {"cancelled"}) /\ Quiet(t))'
  <2>1. CASE UNCHANGED vars
    BY <1>1, <2>1 DEF vars, rowVars, fireVars, StatusIs, HasRow, Quiet
  <2> QED
    BY <1>1, <2>1, CancelledStaysQuiet
<1>2. SchedulerInv /\ [Next]_vars
        => [\A s \in Schedules : StatusIs(s, {"cancelled"}) /\ Quiet(s)
              => (StatusIs(s, {"cancelled"}) /\ Quiet(s))']_vars
  BY <1>1
<1> QED
  BY <1>2, SchedulerInvariant, PTL DEF Spec, CancelHoldsWhenQuiet

=============================================================================
