---------------------------- MODULE AgentRunProofs ----------------------------
(* Proofs about AgentRun, for every value of its constants. *)
EXTENDS AgentRun, FiniteSetTheorems, TLAPS

\* Points where the loop's variables and the tables are still as the try found them.
Early == {"idle", "store", "create", "received", "check", "command", "command_step", "context"}

\* How the handler's variables fit the await it is at.
PointsFit ==
  /\ pc = "idle" <=> event # "handling"
  /\ call # None <=> pc \in CallPoints
  /\ pc \in Early => loop = NewLoop /\ rows = <<>> /\ ends = "open"
  /\ pc \notin {"idle", "store", "create", "threw"} => n >= 1
  /\ pc \in {"next", "model_step"} => ends = "open"
  /\ call # None => (call.final <=> ends # "open")
  /\ call # None /\ call.final => call.decision = "allowed"
  /\ pc \in {"failed_step", "send_failed"} => ends \in {"failed", "caught"}
  /\ pc = "send_failed" => ends = "caught"
  /\ pc \in {"final", "close", "returned"} => ends # "open"
  /\ pc = "done_step" => ends = "completed"

\* How the call fits the steps of its execution.
CallFits ==
  /\ pc = "evaluate" => call.decision = "allowed" /\ call.result = "failed"
  /\ pc \in {"row", "pend", "settle", "audit"} /\ call.decision # "allowed" =>
       call.result = call.decision
  /\ pc \in {"row", "pend", "settle", "audit"} /\ call.decision = "allowed" =>
       call.result \in {"success", "failed"}
  /\ pc = "pend" => call.decision = "needs_confirmation"
  /\ pc = "execute" => call.decision = "allowed"

\* What is known of the tool call rows: all but the last one are through, and the last
\* one fits the await.
Through(row) == row.status # "running" /\ row.audited

RowsFit ==
  /\ \A i \in DOMAIN rows :
       rows[i].status \in {"needs_confirmation", "permission_denied"} => ~rows[i].ran
  /\ pc \in {"pend", "execute", "settle", "audit"} =>
       LET row == rows[Len(rows)] IN
       /\ rows # <<>>
       /\ pc = "execute" => row.status = "running"
       /\ call.decision # "allowed" => ~row.ran /\ row.status = call.decision
       /\ pc = "audit" => row.status # "running"
       /\ pc = "settle" /\ call.decision = "permission_denied" /\ clean => row.audited
  /\ clean => \A i \in DOMAIN rows :
       i < Len(rows) \/ pc \notin {"pend", "execute", "settle", "audit"} => Through(rows[i])

\* Calls of the model that were executed, and the tool results the model waits for.
Executed == {i \in DOMAIN rows : ~rows[i].final}

LimitKept ==
  /\ Cardinality(Executed) <= MaxToolCalls
  /\ pc \in {"next", "model_step"} \/ (call # None /\ ~call.final) =>
       Cardinality(Executed) <= loop.used
  /\ pc \in {"evaluate", "row"} /\ ~call.final => Cardinality(Executed) < loop.used

ResultsOwed ==
  /\ Len(loop.calls) <= MaxBatch
  /\ pc = "next" => loop.owed = Len(loop.calls)
  /\ call # None /\ ~call.final => loop.owed = Len(loop.calls) + 1

\* What the sender has got by the time a step may close the run.
AnswerFits ==
  /\ pc \in {"store", "create"} => answer = "owed"
  /\ loop.sent /\ pc # "returned" => answer # "owed"
  /\ pc \in {"settle", "audit", "completed_step"} /\ SendsMessage => answer # "owed"
  /\ pc \in {"audit", "completed_step"} /\ call.final => answer # "owed"
  /\ call # None /\ call.final => call.tool = "message"
  /\ pc \in {"done_step", "close"} => answer # "owed"
  /\ pc = "returned" => runs[n].status = EndStatus

\* A run that failed stays so.
FailureStays ==
  /\ n >= 1 /\ ends # "open" /\ runs[n].status = "failed" /\ pc # "threw" =>
       ends \in {"failed", "caught", "command_failed"}
  /\ n >= 1 /\ ends = "open" /\ pc \notin {"idle", "store", "create", "threw"} =>
       runs[n].status = "running"

\* The steps of the current run that say how it ended.
OutcomeFits ==
  /\ clean /\ pc # "idle" => ends # "caught" /\ pc \notin {"threw", "send_failed"}
  /\ pc \notin {"idle", "store", "create", "threw"} =>
       CASE ends \in {"open", "command", "command_failed"} -> runs[n].outcomes = <<>>
         [] ends = "completed" ->
              runs[n].outcomes = IF pc \in {"close", "returned"} THEN <<"completed">> ELSE <<>>
         [] ends = "failed" ->
              runs[n].outcomes = IF pc = "failed_step" THEN <<>> ELSE <<"failed">>
         [] OTHER ->
              pc \notin {"failed_step", "send_failed"} =>
                /\ runs[n].outcomes # <<>>
                /\ runs[n].outcomes[Len(runs[n].outcomes)] # "completed"

\* The final messages of the try, unless an await rejected or a command had the word.
FinalOutstanding ==
  \/ ends = "open" \/ pc \in {"failed_step", "final"}
  \/ pc \in {"evaluate", "row"}
  \/ ends = "completed" /\ loop.sent

FinalsFit ==
  /\ pc = "final" \/ (call # None /\ call.final) => ~(ends = "completed" /\ loop.sent)
  /\ ends \in {"open", "completed", "failed"} /\ pc # "threw" =>
       FinalRows = IF FinalOutstanding THEN {} ELSE {Len(rows)}

\* Final messages that reached the sender: one more than there were faults only once
\* the last one is out.
MessageIsOut ==
  \/ event = "done"
  \/ pc \in {"done_step", "close", "returned"}
  \/ pc \in {"settle", "audit", "completed_step"} /\ call.final

SentFits ==
  /\ sent <= faults + 1
  /\ ~MessageIsOut => sent <= faults

RunInv ==
  /\ TypeOK
  /\ PointsFit
  /\ CallFits
  /\ RowsFit
  /\ LimitKept
  /\ ResultsOwed
  /\ AnswerFits
  /\ FailureStays
  /\ OutcomeFits
  /\ FinalsFit
  /\ SentFits

\* Types of the loop's variables.
LoopVars == [calls : Seq(Tools), used : 0 .. MaxToolCalls, steps : 0 .. MaxModelSteps,
             sent : BOOLEAN, owed : 0 .. MaxBatch]

\* The handler's variables have their types.
LEMMA LocalTypes ==
  ASSUME RunInv
  PROVE  /\ loop \in LoopVars /\ Len(loop.calls) \in Nat
         /\ pc \in CallPoints => call # None /\ call \in ToolCall
         /\ call = None \/ call \in ToolCall
  BY DEF RunInv, TypeOK, PointsFit, LoopVars

-----------------------------------------------------------------------------
\* Awaits that reject.

\* What an await leaves in the tables, whether it rejects or not.
TablesFit ==
  /\ runs' \in Seq(RunRow)
  /\ rows' \in Seq(CallRow)
  /\ n' = IF pc = "create" /\ runs' # runs THEN n + 1 ELSE n
  /\ \A i \in DOMAIN rows' :
       rows'[i].status \in {"needs_confirmation", "permission_denied"} => ~rows'[i].ran
  /\ Cardinality(Executed') <= MaxToolCalls

\* A rejection at the await of p.
Rejected(p) ==
  /\ faults < MaxFaults
  /\ faults' = faults + 1
  /\ clean' = FALSE
  /\ answer' = "owed"
  /\ pc' = OnThrow(p)
  /\ ends' = IF pc' = "failed_step" THEN "caught" ELSE ends
  /\ call' = None
  /\ loop' = NewLoop

\* What an await notes, whether it rejects or not.
Noted ==
  /\ cut' = IF pc' = "threw" THEN cut \cup {Len(runs')} ELSE cut
  /\ UNCHANGED <<event, attempts, sent>>

\* The points of awaits.
AwaitPoints == Points \ {"idle", "execute", "returned", "threw"}

\* What an await notes keeps the types.
LEMMA NotedTypes ==
  ASSUME RunInv, TablesFit, Noted
  PROVE  /\ cut' \subseteq 0 .. n'
         /\ sent' = sent /\ sent \in Nat
         /\ event' = event /\ event \in {"pending", "handling", "done", "dead"}
         /\ attempts' = attempts /\ attempts \in 0 .. MaxAttempts
         /\ n \in Nat /\ n' \in Nat
<1>1. n \in Nat /\ n' \in Nat /\ n <= n'
  BY DEF RunInv, TypeOK, TablesFit, n
<1>2. cut \subseteq 0 .. n /\ n' = Len(runs') /\ n = Len(runs)
  BY DEF RunInv, TypeOK, n
<1>3. cut \subseteq 0 .. n' /\ n' \in 0 .. n'
  BY <1>1, <1>2
<1>4. cut' = cut \/ cut' = cut \cup {n'}
  BY <1>2 DEF Noted
<1> QED
  BY <1>1, <1>3, <1>4 DEF Noted, RunInv, TypeOK

\* An await that rejects keeps the invariant, whatever it left in the tables.
LEMMA RejectInv ==
  ASSUME RunInv, pc \in AwaitPoints, TablesFit, Rejected(pc), Noted
  PROVE  RunInv'
<1> USE DEF RunInv
<1>1. /\ pc' \in {"threw", "send_failed", "failed_step"}
      /\ pc' = "threw" \/ ends' = "caught"
      /\ call' = None /\ loop' = NewLoop /\ clean' = FALSE /\ answer' = "owed"
      /\ pc' # "threw" => n >= 1 /\ n' >= 1
      /\ pc' = "send_failed" => ends = "caught" /\ pc \notin {"failed_step", "close"}
  <2>1. OnThrow(pc) \in {"threw", "send_failed", "failed_step"}
    BY DEF OnThrow
  <2>2. OnThrow(pc) = "failed_step" \/ OnThrow(pc) = "threw" \/ ends = "caught"
    BY DEF OnThrow
  <2>3. OnThrow(pc) # "threw" => n >= 1 /\ n' >= 1
    BY DEF OnThrow, PointsFit, AwaitPoints, SetupPoints, TablesFit
  <2>4. OnThrow(pc) = "send_failed" => ends = "caught" /\ pc \notin {"failed_step", "close"}
    BY DEF OnThrow
  <2> QED
    BY <2>1, <2>2, <2>3, <2>4 DEF Rejected
<1>2. TypeOK'
  <2>1. pc' \in Points /\ call' \in ToolCall \cup {None}
    BY <1>1 DEF Points
  <2>2. NewLoop \in [calls : Seq(Tools), used : 0 .. MaxToolCalls, steps : 0 .. MaxModelSteps,
                     sent : BOOLEAN, owed : 0 .. MaxBatch]
    BY RunConstants DEF NewLoop
  <2>3. /\ ends' \in {"open", "command", "command_failed", "completed", "failed", "caught"}
        /\ faults' \in 0 .. MaxFaults
    BY RunConstants DEF Rejected, TypeOK
  <2> QED
    BY <1>1, <2>1, <2>2, <2>3, NotedTypes DEF TypeOK, TablesFit, n
<1>3. PointsFit'
  BY <1>1, NotedTypes DEF PointsFit, CallPoints, Early, AwaitPoints, Points
<1>4. CallFits'
  BY <1>1 DEF CallFits
<1>5. RowsFit'
  BY <1>1 DEF RowsFit, TablesFit
<1>6. LimitKept'
  BY <1>1 DEF LimitKept, TablesFit
<1>7. ResultsOwed'
  BY <1>1, RunConstants DEF ResultsOwed, NewLoop
<1>8. AnswerFits' /\ FailureStays' /\ OutcomeFits' /\ FinalsFit'
  BY <1>1 DEF AnswerFits, FailureStays, OutcomeFits, FinalsFit, NewLoop
<1>9. SentFits'
  BY <1>1, NotedTypes DEF SentFits, TypeOK, Rejected
<1> QED
  BY <1>2, <1>3, <1>4, <1>5, <1>6, <1>7, <1>8, <1>9

-----------------------------------------------------------------------------
\* Statements.

\* Executed calls are finitely many and at most as many as there are rows.
LEMMA ExecutedIsFinite ==
  ASSUME TypeOK PROVE IsFiniteSet(Executed) /\ Cardinality(Executed) \in Nat
<1>1. Executed \subseteq 1 .. Len(rows) /\ Len(rows) \in Nat
  BY DEF TypeOK, Executed
<1>2. IsFiniteSet(1 .. Len(rows))
  BY <1>1, FS_Interval
<1>3. IsFiniteSet(Executed)
  BY <1>1, <1>2, FS_Subset
<1> QED
  BY <1>3, FS_CardinalityType

\* The calls of a model's answer are a sequence of tools.
LEMMA BatchType ==
  ASSUME NEW batch \in Batches PROVE batch \in Seq(Tools) /\ Len(batch) \in 0 .. MaxBatch
<1>1. PICK k \in 0 .. MaxBatch : batch \in [1 .. k -> Tools]
  BY DEF Batches
<1>2. k \in Nat
  BY RunConstants
<1> QED
  BY <1>1, <1>2

\* The first element of a sequence.
LEMMA AppendToEmpty == \A x : Append(<<>>, x) = <<x>>
  OBVIOUS

\* An await that changes no table leaves them as they fit.
LEMMA NoEffectFits ==
  ASSUME RunInv, UNCHANGED tables
  PROVE  TablesFit /\ Executed' = Executed /\ FinalRows' = FinalRows /\ n' = n
  BY DEF RunInv, TablesFit, TypeOK, RowsFit, LimitKept, tables, Executed, FinalRows, n

\* A run's row gets other values.
LEMMA SetRunFits ==
  ASSUME RunInv, n >= 1, pc # "create", NEW r \in RunRow,
         SetRun(r) \/ UNCHANGED tables
  PROVE  /\ TablesFit
         /\ SetRun(r) => /\ runs'[n] = r
                         /\ \A i \in DOMAIN runs \ {n} : runs'[i] = runs[i]
                         /\ DOMAIN runs' = DOMAIN runs
                         /\ n' = n
                         /\ Executed' = Executed
                         /\ FinalRows' = FinalRows
<1>1. CASE UNCHANGED tables
  <2>1. SetRun(r) => runs' = runs /\ runs' = [runs EXCEPT ![n] = r]
    BY <1>1 DEF SetRun, tables
  <2>2. n \in DOMAIN runs
    BY DEF n, RunInv, TypeOK
  <2>3. SetRun(r) => runs'[n] = r
    BY <2>1, <2>2
  <2> QED
    BY <1>1, <2>1, <2>3, NoEffectFits DEF tables, SetRun
<1>2. CASE SetRun(r)
  <2>1. n \in DOMAIN runs /\ runs \in Seq(RunRow)
    BY DEF n, RunInv, TypeOK
  <2>2. /\ runs' \in Seq(RunRow)
        /\ n' = n
        /\ DOMAIN runs' = DOMAIN runs
        /\ runs'[n] = r
        /\ \A i \in DOMAIN runs \ {n} : runs'[i] = runs[i]
    BY <1>2, <2>1 DEF SetRun, n
  <2>3. rows' = rows
    BY <1>2 DEF SetRun
  <2>4. Executed' = Executed /\ FinalRows' = FinalRows
    BY <2>3 DEF Executed, FinalRows
  <2> QED
    BY <2>2, <2>3, <2>4 DEF TablesFit, RunInv, TypeOK, RowsFit, LimitKept
<1> QED
  BY <1>1, <1>2

\* The row of the call gets other values.
LEMMA SetRowFits ==
  ASSUME RunInv, rows # <<>>, NEW r \in CallRow,
         SetRow(r) \/ UNCHANGED tables,
         r.final = rows[Len(rows)].final,
         r.status \in {"needs_confirmation", "permission_denied"} => ~r.ran
  PROVE  /\ TablesFit
         /\ Executed' = Executed /\ FinalRows' = FinalRows
         /\ SetRow(r) => /\ rows'[Len(rows)] = r
                         /\ \A i \in DOMAIN rows \ {Len(rows)} : rows'[i] = rows[i]
                         /\ Len(rows') = Len(rows)
<1>1. rows \in Seq(CallRow) /\ Len(rows) \in DOMAIN rows
  BY DEF RunInv, TypeOK
<1>2. CASE UNCHANGED tables
  <2>1. SetRow(r) => rows' = rows /\ rows' = [rows EXCEPT ![Len(rows)] = r]
    BY <1>2 DEF SetRow, tables
  <2>2. SetRow(r) => rows'[Len(rows)] = r
    BY <1>1, <2>1
  <2> QED
    BY <1>2, <2>1, <2>2, NoEffectFits
<1>3. CASE SetRow(r)
  <2>1. /\ rows' \in Seq(CallRow)
        /\ Len(rows') = Len(rows)
        /\ DOMAIN rows' = DOMAIN rows
        /\ rows'[Len(rows)] = r
        /\ \A i \in DOMAIN rows \ {Len(rows)} : rows'[i] = rows[i]
    BY <1>1, <1>3 DEF SetRow
  <2>2. \A i \in DOMAIN rows' :
          rows'[i].status \in {"needs_confirmation", "permission_denied"} => ~rows'[i].ran
    BY <2>1 DEF RunInv, RowsFit
  <2>3. \A i \in DOMAIN rows : rows'[i].final = rows[i].final
    BY <2>1
  <2>4. Executed' = Executed /\ FinalRows' = FinalRows
    BY <2>1, <2>3 DEF Executed, FinalRows
  <2>5. runs' = runs
    BY <1>3 DEF SetRow
  <2> QED
    BY <2>1, <2>2, <2>4, <2>5 DEF TablesFit, RunInv, TypeOK, LimitKept, n
<1> QED
  BY <1>2, <1>3

\* A call gets a row.
LEMMA AddRowFits ==
  ASSUME RunInv, pc = "row", NEW r \in CallRow, r.final = call.final,
         runs' = runs, rows' = Append(rows, r),
         r.status \in {"needs_confirmation", "permission_denied"} => ~r.ran
  PROVE  /\ TablesFit
         /\ Len(rows') = Len(rows) + 1
         /\ rows'[Len(rows) + 1] = r
         /\ \A i \in DOMAIN rows : rows'[i] = rows[i]
         /\ Cardinality(Executed') <= IF call.final THEN Cardinality(Executed) ELSE loop.used
         /\ FinalRows' = IF call.final THEN FinalRows \cup {Len(rows')} ELSE FinalRows
<1>1. rows \in Seq(CallRow)
  BY DEF RunInv, TypeOK
<1>2. /\ rows' \in Seq(CallRow)
      /\ Len(rows') = Len(rows) + 1
      /\ rows'[Len(rows) + 1] = r
      /\ \A i \in DOMAIN rows : rows'[i] = rows[i]
      /\ DOMAIN rows' = DOMAIN rows \cup {Len(rows) + 1}
      /\ Len(rows) + 1 \notin DOMAIN rows
  BY <1>1
<1>3. \A i \in DOMAIN rows' :
        rows'[i].status \in {"needs_confirmation", "permission_denied"} => ~rows'[i].ran
  BY <1>2 DEF RunInv, RowsFit
<1>4. Executed' = IF call.final THEN Executed ELSE Executed \cup {Len(rows) + 1}
  BY <1>2 DEF Executed
<1>5. Len(rows) + 1 \notin Executed
  BY <1>2 DEF Executed
<1>6. Cardinality(Executed \cup {Len(rows) + 1}) = Cardinality(Executed) + 1
  BY <1>5, ExecutedIsFinite, FS_AddElement DEF RunInv
<1>7. Cardinality(Executed') <= IF call.final THEN Cardinality(Executed) ELSE loop.used
  BY <1>4, <1>6, ExecutedIsFinite DEF RunInv, LimitKept, TypeOK
<1>8. Cardinality(Executed') <= MaxToolCalls
  <2>1. loop.used \in 0 .. MaxToolCalls /\ MaxToolCalls \in Nat
    BY RunConstants DEF RunInv, TypeOK
  <2>2. CASE call.final
    BY <1>4, <2>2 DEF RunInv, LimitKept
  <2>3. CASE ~call.final
    BY <1>4, <1>6, <2>1, <2>3, ExecutedIsFinite DEF RunInv, LimitKept
  <2> QED
    BY <2>2, <2>3
<1>9. FinalRows' = IF call.final THEN FinalRows \cup {Len(rows')} ELSE FinalRows
  BY <1>2 DEF FinalRows
<1> QED
  BY <1>2, <1>3, <1>7, <1>8, <1>9 DEF TablesFit, RunInv, TypeOK, n

-----------------------------------------------------------------------------
\* Awaits that go on.

\* The invariant is kept by storing the message.
LEMMA StoreMessageInv == ASSUME RunInv, StoreMessage PROVE RunInv'
<1> USE DEF RunInv
<1>1. pc = "store" /\ pc \in AwaitPoints /\ Noted /\ n \in Nat /\ faults \in Nat
  BY RunConstants
     DEF StoreMessage, Await, Step, Noted, AwaitPoints, Points, SetupPoints, CallPoints, TypeOK, n
<1>2. TablesFit
  BY <1>1, NoEffectFits DEF StoreMessage, Await, Step, NoEffect
<1>3. CASE faults' # faults
  BY <1>1, <1>2, <1>3, RejectInv DEF StoreMessage, Await, Step, Rejected
<1>4. CASE faults' = faults
  <2>1. /\ faults' = faults /\ clean' = clean
        /\ answer' = answer
        /\ runs' = runs /\ rows' = rows
        /\ pc' = "create"
        /\ call' = call /\ loop' = loop /\ ends' = ends
    BY <1>1, <1>4 DEF StoreMessage, NoEffect, tables, locals, Goto, EndAs, Await, Step
  <2>2. TypeOK'
    BY <1>1, <1>2, <2>1, NotedTypes, RunConstants
       DEF TablesFit, Noted, TypeOK, LoopVars, Points, CallPoints, SetupPoints, ToolCall,
           Results, Decisions, Tools, NewLoop, n
  <2>3. PointsFit'
    BY <1>1, <1>2, <2>1, NotedTypes, RunConstants
       DEF TablesFit, Noted, PointsFit, CallPoints, Early, NewLoop
  <2>4. CallFits'
    BY <1>1, <1>2, <2>1, NotedTypes, RunConstants
       DEF TablesFit, Noted, CallFits, PointsFit, CallPoints
  <2>5. RowsFit'
    BY <1>1, <1>2, <2>1, NotedTypes, RunConstants
       DEF TablesFit, Noted, RowsFit, PointsFit, Through, CallFits
  <2>6. LimitKept'
    BY <1>1, <1>2, <2>1, NotedTypes, RunConstants
       DEF TablesFit, Noted, LimitKept, PointsFit, Executed, NewLoop, Early
  <2>7. ResultsOwed'
    BY <1>1, <1>2, <2>1, NotedTypes, RunConstants
       DEF TablesFit, Noted, ResultsOwed, PointsFit, CallPoints, NewLoop, Early
  <2>8. AnswerFits'
    BY <1>1, <1>2, <2>1, NotedTypes, RunConstants
       DEF TablesFit, Noted, AnswerFits, SendsMessage, EndStatus, PointsFit, CallPoints, Early,
           NewLoop
  <2>9. FailureStays'
    BY <1>1, <1>2, <2>1, NotedTypes, RunConstants
       DEF TablesFit, Noted, FailureStays, PointsFit, Early, TypeOK
  <2>10. OutcomeFits'
    BY <1>1, <1>2, <2>1, NotedTypes, RunConstants
       DEF TablesFit, Noted, OutcomeFits, PointsFit, Early, CallPoints, TypeOK, n
  <2>11. FinalsFit'
    BY <1>1, <1>2, <2>1, NotedTypes, RunConstants
       DEF TablesFit, Noted, FinalsFit, FinalOutstanding, FinalRows, PointsFit, Early, CallPoints,
           TypeOK, NewLoop
  <2>12. SentFits'
    BY <1>1, <1>2, <2>1, NotedTypes, RunConstants
       DEF TablesFit, Noted, SentFits, MessageIsOut, PointsFit, Early, CallPoints, TypeOK
  <2> QED
    BY <2>2, <2>3, <2>4, <2>5, <2>6, <2>7, <2>8, <2>9, <2>10, <2>11, <2>12
<1> QED
  BY <1>3, <1>4

\* The invariant is kept by creating the run.
LEMMA CreateRunInv == ASSUME RunInv, CreateRun PROVE RunInv'
<1> USE DEF RunInv
<1>1. pc = "create" /\ pc \in AwaitPoints /\ Noted /\ n \in Nat /\ faults \in Nat
  BY RunConstants
     DEF CreateRun, Await, Step, Noted, AwaitPoints, Points, SetupPoints, CallPoints, TypeOK, n
<1> DEFINE r == [status |-> "running", outcomes |-> <<>>]
<1>5. r \in RunRow /\ r.status = "running" /\ r.outcomes = <<>>
  BY DEF RunRow
<1> HIDE DEF r
<1>6. (runs' = Append(runs, r) /\ rows' = rows) \/ UNCHANGED tables
  BY DEF CreateRun, Await, Step, r
<1>7. ASSUME runs' = Append(runs, r), rows' = rows
      PROVE  TablesFit /\ n' = n + 1 /\ runs'[n'] = r /\ \A i \in 1 .. n : runs'[i] = runs[i]
  <2>1. runs \in Seq(RunRow) /\ rows \in Seq(CallRow)
    BY DEF TypeOK
  <2>2. /\ runs' \in Seq(RunRow) /\ n' = n + 1 /\ runs'[n'] = r
        /\ \A i \in 1 .. n : runs'[i] = runs[i]
    BY <1>5, <1>7, <2>1 DEF n
  <2> QED
    BY <1>1, <1>7, <2>1, <2>2 DEF TablesFit, RowsFit, LimitKept, Executed, n
<1>2. TablesFit
  BY <1>6, <1>7, NoEffectFits
<1>3. CASE faults' # faults
  BY <1>1, <1>2, <1>3, RejectInv DEF CreateRun, Await, Step, Rejected
<1>4. CASE faults' = faults
  <2>0. runs' = Append(runs, r) /\ rows' = rows
    BY <1>1, <1>4 DEF CreateRun, Await, Step, r
  <2>00. n' = n + 1 /\ runs'[n'] = r /\ \A i \in 1 .. n : runs'[i] = runs[i]
    BY <1>7, <2>0
  <2>1. /\ faults' = faults /\ clean' = clean
        /\ answer' = answer
        /\ rows' = rows /\ n' = n + 1 /\ \A i \in 1 .. n : runs'[i] = runs[i]
        /\ runs'[n'].status = "running" /\ runs'[n'].outcomes = <<>>
        /\ pc' = "received"
        /\ call' = call /\ loop' = loop /\ ends' = ends
    <3>1. faults' = faults /\ clean' = clean
      BY <1>1, <1>4, <1>5, <2>0, <2>00 DEF CreateRun, tables, locals, Goto, EndAs, Await, Step
    <3>2. rows' = rows /\ n' = n + 1 /\ \A i \in 1 .. n : runs'[i] = runs[i]
      BY <1>1, <1>4, <1>5, <2>0, <2>00 DEF CreateRun, tables, locals, Goto, EndAs, Await, Step
    <3>3. runs'[n'].status = "running" /\ runs'[n'].outcomes = <<>>
      BY <1>1, <1>4, <1>5, <2>0, <2>00 DEF CreateRun, tables, locals, Goto, EndAs, Await, Step
    <3>4. pc' = "received"
      BY <1>1, <1>4, <1>5, <2>0, <2>00 DEF CreateRun, tables, locals, Goto, EndAs, Await, Step
    <3>5. call' = call /\ loop' = loop /\ ends' = ends
      BY <1>1, <1>4, <1>5, <2>0, <2>00 DEF CreateRun, tables, locals, Goto, EndAs, Await, Step
    <3>6. answer' = answer
      BY <1>1, <1>4 DEF CreateRun, Await, Step
    <3> QED
      BY <3>1, <3>2, <3>3, <3>4, <3>5, <3>6
  <2>2. TypeOK'
    BY <1>1, <1>2, <2>1, NotedTypes, RunConstants
       DEF TablesFit, Noted, TypeOK, LoopVars, Points, CallPoints, SetupPoints, ToolCall,
           Results, Decisions, Tools, NewLoop, n
  <2>3. PointsFit'
    BY <1>1, <1>2, <2>1, NotedTypes, RunConstants
       DEF TablesFit, Noted, PointsFit, CallPoints, Early, NewLoop
  <2>4. CallFits'
    BY <1>1, <1>2, <2>1, NotedTypes, RunConstants
       DEF TablesFit, Noted, CallFits, PointsFit, CallPoints
  <2>5. RowsFit'
    BY <1>1, <1>2, <2>1, NotedTypes, RunConstants
       DEF TablesFit, Noted, RowsFit, PointsFit, Through, CallFits
  <2>6. LimitKept'
    BY <1>1, <1>2, <2>1, NotedTypes, RunConstants
       DEF TablesFit, Noted, LimitKept, PointsFit, Executed, NewLoop, Early
  <2>7. ResultsOwed'
    BY <1>1, <1>2, <2>1, NotedTypes, RunConstants
       DEF TablesFit, Noted, ResultsOwed, PointsFit, CallPoints, NewLoop, Early
  <2>8. AnswerFits'
    BY <1>1, <1>2, <2>1, NotedTypes, RunConstants
       DEF TablesFit, Noted, AnswerFits, SendsMessage, EndStatus, PointsFit, CallPoints, Early,
           NewLoop
  <2>9. FailureStays'
    BY <1>1, <1>2, <2>1, NotedTypes, RunConstants
       DEF TablesFit, Noted, FailureStays, PointsFit, Early, TypeOK
  <2>10. OutcomeFits'
    BY <1>1, <1>2, <2>1, NotedTypes, RunConstants
       DEF TablesFit, Noted, OutcomeFits, PointsFit, Early, CallPoints, TypeOK, n
  <2>11. FinalsFit'
    BY <1>1, <1>2, <2>1, NotedTypes, RunConstants
       DEF TablesFit, Noted, FinalsFit, FinalOutstanding, FinalRows, PointsFit, Early, CallPoints,
           TypeOK, NewLoop
  <2>12. SentFits'
    BY <1>1, <1>2, <2>1, NotedTypes, RunConstants
       DEF TablesFit, Noted, SentFits, MessageIsOut, PointsFit, Early, CallPoints, TypeOK
  <2> QED
    BY <2>2, <2>3, <2>4, <2>5, <2>6, <2>7, <2>8, <2>9, <2>10, <2>11, <2>12
<1> QED
  BY <1>3, <1>4

\* The invariant is kept by the step of the message.
LEMMA RecordReceivedInv == ASSUME RunInv, RecordReceived PROVE RunInv'
<1> USE DEF RunInv
<1>1. pc = "received" /\ pc \in AwaitPoints /\ Noted /\ n \in Nat /\ faults \in Nat
  BY RunConstants
     DEF RecordReceived, Await, Step, Noted, AwaitPoints, Points, SetupPoints, CallPoints, TypeOK, n
<1>2. TablesFit
  BY <1>1, NoEffectFits DEF RecordReceived, Await, Step, NoEffect
<1>3. CASE faults' # faults
  BY <1>1, <1>2, <1>3, RejectInv DEF RecordReceived, Await, Step, Rejected
<1>4. CASE faults' = faults
  <2>1. /\ faults' = faults /\ clean' = clean
        /\ answer' = answer
        /\ runs' = runs /\ rows' = rows
        /\ pc' = "check"
        /\ call' = call /\ loop' = loop /\ ends' = ends
    BY <1>1, <1>4 DEF RecordReceived, NoEffect, tables, locals, Goto, EndAs, Await, Step
  <2>2. TypeOK'
    BY <1>1, <1>2, <2>1, NotedTypes, RunConstants
       DEF TablesFit, Noted, TypeOK, LoopVars, Points, CallPoints, SetupPoints, ToolCall,
           Results, Decisions, Tools, NewLoop, n
  <2>3. PointsFit'
    BY <1>1, <1>2, <2>1, NotedTypes, RunConstants
       DEF TablesFit, Noted, PointsFit, CallPoints, Early, NewLoop
  <2>4. CallFits'
    BY <1>1, <1>2, <2>1, NotedTypes, RunConstants
       DEF TablesFit, Noted, CallFits, PointsFit, CallPoints
  <2>5. RowsFit'
    BY <1>1, <1>2, <2>1, NotedTypes, RunConstants
       DEF TablesFit, Noted, RowsFit, PointsFit, Through, CallFits
  <2>6. LimitKept'
    BY <1>1, <1>2, <2>1, NotedTypes, RunConstants
       DEF TablesFit, Noted, LimitKept, PointsFit, Executed, NewLoop, Early
  <2>7. ResultsOwed'
    BY <1>1, <1>2, <2>1, NotedTypes, RunConstants
       DEF TablesFit, Noted, ResultsOwed, PointsFit, CallPoints, NewLoop, Early
  <2>8. AnswerFits'
    BY <1>1, <1>2, <2>1, NotedTypes, RunConstants
       DEF TablesFit, Noted, AnswerFits, SendsMessage, EndStatus, PointsFit, CallPoints, Early,
           NewLoop
  <2>9. FailureStays'
    BY <1>1, <1>2, <2>1, NotedTypes, RunConstants
       DEF TablesFit, Noted, FailureStays, PointsFit, Early, TypeOK
  <2>10. OutcomeFits'
    BY <1>1, <1>2, <2>1, NotedTypes, RunConstants
       DEF TablesFit, Noted, OutcomeFits, PointsFit, Early, CallPoints, TypeOK, n
  <2>11. FinalsFit'
    BY <1>1, <1>2, <2>1, NotedTypes, RunConstants
       DEF TablesFit, Noted, FinalsFit, FinalOutstanding, FinalRows, PointsFit, Early, CallPoints,
           TypeOK, NewLoop
  <2>12. SentFits'
    BY <1>1, <1>2, <2>1, NotedTypes, RunConstants
       DEF TablesFit, Noted, SentFits, MessageIsOut, PointsFit, Early, CallPoints, TypeOK
  <2> QED
    BY <2>2, <2>3, <2>4, <2>5, <2>6, <2>7, <2>8, <2>9, <2>10, <2>11, <2>12
<1> QED
  BY <1>3, <1>4

\* The invariant is kept by checking the model's capabilities.
LEMMA CheckModelInv == ASSUME RunInv, CheckModel PROVE RunInv'
<1> USE DEF RunInv
<1>1. pc = "check" /\ pc \in AwaitPoints /\ Noted /\ n \in Nat /\ faults \in Nat
  BY RunConstants
     DEF CheckModel, Await, Step, Noted, AwaitPoints, Points, SetupPoints, CallPoints, TypeOK, n
<1>2. TablesFit
  BY <1>1, NoEffectFits DEF CheckModel, Await, Step, NoEffect
<1>3. CASE faults' # faults
  BY <1>1, <1>2, <1>3, RejectInv DEF CheckModel, Await, Step, Rejected
<1>4. CASE faults' = faults
  <2>1. /\ faults' = faults /\ clean' = clean
        /\ answer' = answer
        /\ runs' = runs /\ rows' = rows
        /\ call' = call /\ loop' = loop
        /\ \/ pc' = "command" /\ ends' = ends
           \/ pc' = "failed_step" /\ ends' = "failed"
    BY <1>1, <1>4 DEF CheckModel, NoEffect, tables, locals, Goto, EndAs, Await, Step
  <2>2. TypeOK'
    BY <1>1, <1>2, <2>1, NotedTypes, RunConstants
       DEF TablesFit, Noted, TypeOK, LoopVars, Points, CallPoints, SetupPoints, ToolCall,
           Results, Decisions, Tools, NewLoop, n
  <2>3. PointsFit'
    BY <1>1, <1>2, <2>1, NotedTypes, RunConstants
       DEF TablesFit, Noted, PointsFit, CallPoints, Early, NewLoop
  <2>4. CallFits'
    BY <1>1, <1>2, <2>1, NotedTypes, RunConstants
       DEF TablesFit, Noted, CallFits, PointsFit, CallPoints
  <2>5. RowsFit'
    BY <1>1, <1>2, <2>1, NotedTypes, RunConstants
       DEF TablesFit, Noted, RowsFit, PointsFit, Through, CallFits
  <2>6. LimitKept'
    BY <1>1, <1>2, <2>1, NotedTypes, RunConstants
       DEF TablesFit, Noted, LimitKept, PointsFit, Executed, NewLoop, Early
  <2>7. ResultsOwed'
    BY <1>1, <1>2, <2>1, NotedTypes, RunConstants
       DEF TablesFit, Noted, ResultsOwed, PointsFit, CallPoints, NewLoop, Early
  <2>8. AnswerFits'
    BY <1>1, <1>2, <2>1, NotedTypes, RunConstants
       DEF TablesFit, Noted, AnswerFits, SendsMessage, EndStatus, PointsFit, CallPoints, Early,
           NewLoop
  <2>9. FailureStays'
    BY <1>1, <1>2, <2>1, NotedTypes, RunConstants
       DEF TablesFit, Noted, FailureStays, PointsFit, Early, TypeOK
  <2>10. OutcomeFits'
    BY <1>1, <1>2, <2>1, NotedTypes, RunConstants
       DEF TablesFit, Noted, OutcomeFits, PointsFit, Early, CallPoints, TypeOK, n
  <2>11. FinalsFit'
    BY <1>1, <1>2, <2>1, NotedTypes, RunConstants
       DEF TablesFit, Noted, FinalsFit, FinalOutstanding, FinalRows, PointsFit, Early, CallPoints,
           TypeOK, NewLoop
  <2>12. SentFits'
    BY <1>1, <1>2, <2>1, NotedTypes, RunConstants
       DEF TablesFit, Noted, SentFits, MessageIsOut, PointsFit, Early, CallPoints, TypeOK
  <2> QED
    BY <2>2, <2>3, <2>4, <2>5, <2>6, <2>7, <2>8, <2>9, <2>10, <2>11, <2>12
<1> QED
  BY <1>3, <1>4

\* The invariant is kept by looking for a command.
LEMMA HandleCommandInv == ASSUME RunInv, HandleCommand PROVE RunInv'
<1> USE DEF RunInv
<1>1. pc = "command" /\ pc \in AwaitPoints /\ Noted /\ n \in Nat /\ faults \in Nat
  BY RunConstants
     DEF HandleCommand, Await, Step, Noted, AwaitPoints, Points, SetupPoints, CallPoints, TypeOK, n
<1>2. TablesFit
  BY <1>1, NoEffectFits DEF HandleCommand, Await, Step, NoEffect
<1>3. CASE faults' # faults
  BY <1>1, <1>2, <1>3, RejectInv DEF HandleCommand, Await, Step, Rejected
<1>4. CASE faults' = faults
  <2>1. /\ faults' = faults /\ clean' = clean
        /\ answer' = answer
        /\ runs' = runs /\ rows' = rows
        /\ pc' \in {"context", "command_step"}
        /\ call' = call /\ loop' = loop /\ ends' = ends
    BY <1>1, <1>4 DEF HandleCommand, NoEffect, tables, locals, Goto, EndAs, Await, Step
  <2>2. TypeOK'
    BY <1>1, <1>2, <2>1, NotedTypes, RunConstants
       DEF TablesFit, Noted, TypeOK, LoopVars, Points, CallPoints, SetupPoints, ToolCall,
           Results, Decisions, Tools, NewLoop, n
  <2>3. PointsFit'
    BY <1>1, <1>2, <2>1, NotedTypes, RunConstants
       DEF TablesFit, Noted, PointsFit, CallPoints, Early, NewLoop
  <2>4. CallFits'
    BY <1>1, <1>2, <2>1, NotedTypes, RunConstants
       DEF TablesFit, Noted, CallFits, PointsFit, CallPoints
  <2>5. RowsFit'
    BY <1>1, <1>2, <2>1, NotedTypes, RunConstants
       DEF TablesFit, Noted, RowsFit, PointsFit, Through, CallFits
  <2>6. LimitKept'
    BY <1>1, <1>2, <2>1, NotedTypes, RunConstants
       DEF TablesFit, Noted, LimitKept, PointsFit, Executed, NewLoop, Early
  <2>7. ResultsOwed'
    BY <1>1, <1>2, <2>1, NotedTypes, RunConstants
       DEF TablesFit, Noted, ResultsOwed, PointsFit, CallPoints, NewLoop, Early
  <2>8. AnswerFits'
    BY <1>1, <1>2, <2>1, NotedTypes, RunConstants
       DEF TablesFit, Noted, AnswerFits, SendsMessage, EndStatus, PointsFit, CallPoints, Early,
           NewLoop
  <2>9. FailureStays'
    BY <1>1, <1>2, <2>1, NotedTypes, RunConstants
       DEF TablesFit, Noted, FailureStays, PointsFit, Early, TypeOK
  <2>10. OutcomeFits'
    BY <1>1, <1>2, <2>1, NotedTypes, RunConstants
       DEF TablesFit, Noted, OutcomeFits, PointsFit, Early, CallPoints, TypeOK, n
  <2>11. FinalsFit'
    BY <1>1, <1>2, <2>1, NotedTypes, RunConstants
       DEF TablesFit, Noted, FinalsFit, FinalOutstanding, FinalRows, PointsFit, Early, CallPoints,
           TypeOK, NewLoop
  <2>12. SentFits'
    BY <1>1, <1>2, <2>1, NotedTypes, RunConstants
       DEF TablesFit, Noted, SentFits, MessageIsOut, PointsFit, Early, CallPoints, TypeOK
  <2> QED
    BY <2>2, <2>3, <2>4, <2>5, <2>6, <2>7, <2>8, <2>9, <2>10, <2>11, <2>12
<1> QED
  BY <1>3, <1>4

\* The invariant is kept by the step of a command.
LEMMA RecordCommandInv == ASSUME RunInv, RecordCommand PROVE RunInv'
<1> USE DEF RunInv
<1>1. pc = "command_step" /\ pc \in AwaitPoints /\ Noted /\ n \in Nat /\ faults \in Nat
  BY RunConstants
     DEF RecordCommand, Await, Step, Noted, AwaitPoints, Points, SetupPoints, CallPoints, TypeOK, n
<1>2. TablesFit
  BY <1>1, NoEffectFits DEF RecordCommand, Await, Step, NoEffect
<1>3. CASE faults' # faults
  BY <1>1, <1>2, <1>3, RejectInv DEF RecordCommand, Await, Step, Rejected
<1>4. CASE faults' = faults
  <2>1. /\ faults' = faults /\ clean' = clean
        /\ runs' = runs /\ rows' = rows
        /\ ends' \in {"command", "command_failed"}
        /\ \/ pc' = "final" /\ answer' = answer
           \/ pc' = "close" /\ answer' = "noted"
        /\ call' = call /\ loop' = loop
    BY <1>1, <1>4 DEF RecordCommand, NoEffect, tables, locals, Goto, EndAs, Await, Step
  <2>2. TypeOK'
    BY <1>1, <1>2, <2>1, NotedTypes, RunConstants
       DEF TablesFit, Noted, TypeOK, LoopVars, Points, CallPoints, SetupPoints, ToolCall,
           Results, Decisions, Tools, NewLoop, n
  <2>3. PointsFit'
    BY <1>1, <1>2, <2>1, NotedTypes, RunConstants
       DEF TablesFit, Noted, PointsFit, CallPoints, Early, NewLoop
  <2>4. CallFits'
    BY <1>1, <1>2, <2>1, NotedTypes, RunConstants
       DEF TablesFit, Noted, CallFits, PointsFit, CallPoints
  <2>5. RowsFit'
    BY <1>1, <1>2, <2>1, NotedTypes, RunConstants
       DEF TablesFit, Noted, RowsFit, PointsFit, Through, CallFits
  <2>6. LimitKept'
    BY <1>1, <1>2, <2>1, NotedTypes, RunConstants
       DEF TablesFit, Noted, LimitKept, PointsFit, Executed, NewLoop, Early
  <2>7. ResultsOwed'
    BY <1>1, <1>2, <2>1, NotedTypes, RunConstants
       DEF TablesFit, Noted, ResultsOwed, PointsFit, CallPoints, NewLoop, Early
  <2>8. AnswerFits'
    BY <1>1, <1>2, <2>1, NotedTypes, RunConstants
       DEF TablesFit, Noted, AnswerFits, SendsMessage, EndStatus, PointsFit, CallPoints, Early,
           NewLoop
  <2>9. FailureStays'
    BY <1>1, <1>2, <2>1, NotedTypes, RunConstants
       DEF TablesFit, Noted, FailureStays, PointsFit, Early, TypeOK
  <2>10. OutcomeFits'
    BY <1>1, <1>2, <2>1, NotedTypes, RunConstants
       DEF TablesFit, Noted, OutcomeFits, PointsFit, Early, CallPoints, TypeOK, n
  <2>11. FinalsFit'
    BY <1>1, <1>2, <2>1, NotedTypes, RunConstants
       DEF TablesFit, Noted, FinalsFit, FinalOutstanding, FinalRows, PointsFit, Early, CallPoints,
           TypeOK, NewLoop
  <2>12. SentFits'
    BY <1>1, <1>2, <2>1, NotedTypes, RunConstants
       DEF TablesFit, Noted, SentFits, MessageIsOut, PointsFit, Early, CallPoints, TypeOK
  <2> QED
    BY <2>2, <2>3, <2>4, <2>5, <2>6, <2>7, <2>8, <2>9, <2>10, <2>11, <2>12
<1> QED
  BY <1>3, <1>4

\* The invariant is kept by the step of a failure.
LEMMA RecordFailedInv == ASSUME RunInv, RecordFailed PROVE RunInv'
<1> USE DEF RunInv
<1>1. pc = "failed_step" /\ pc \in AwaitPoints /\ Noted /\ n \in Nat /\ faults \in Nat
  BY RunConstants
     DEF RecordFailed, Await, Step, Noted, AwaitPoints, Points, SetupPoints, CallPoints, TypeOK, n
<1> DEFINE r == [runs[n] EXCEPT !.outcomes = Append(@, "failed")]
<1>5. n >= 1 /\ runs[n] \in RunRow
  BY <1>1 DEF PointsFit, TypeOK, n
<1>6. r \in RunRow /\ r.status = runs[n].status /\ r.outcomes = Append(runs[n].outcomes, "failed")
  <2>1. runs[n].outcomes \in Seq({"completed", "failed", "unsent"})
    BY <1>5 DEF RunRow
  <2>2. Append(runs[n].outcomes, "failed") \in Seq({"completed", "failed", "unsent"})
    BY <2>1
  <2> QED
    BY <1>5, <2>2 DEF RunRow
<1> HIDE DEF r
<1>7. SetRun(r) \/ UNCHANGED tables
  BY <1>1 DEF RecordFailed, Await, Step, RecordOutcome, r
<1>2. TablesFit
  BY <1>1, <1>5, <1>6, <1>7, SetRunFits
<1>3. CASE faults' # faults
  BY <1>1, <1>2, <1>3, RejectInv DEF RecordFailed, Await, Step, Rejected
<1>4. CASE faults' = faults
  <2>0. SetRun(r) /\ rows' = rows
    BY <1>1, <1>4 DEF RecordFailed, Await, Step, RecordOutcome, SetRun, r
  <2>1. /\ faults' = faults /\ clean' = clean
        /\ answer' = answer
        /\ rows' = rows /\ n' = n /\ DOMAIN runs' = DOMAIN runs /\ Executed' = Executed
        /\ FinalRows' = FinalRows
        /\ \A i \in DOMAIN runs \ {n} : runs'[i] = runs[i]
        /\ runs'[n].status = runs[n].status
        /\ runs'[n].outcomes = Append(runs[n].outcomes, "failed")
        /\ pc' = "final"
        /\ call' = call /\ loop' = loop /\ ends' = ends
    BY <1>1, <1>4, <1>5, <1>6, <2>0, SetRunFits
       DEF RecordFailed, tables, locals, Goto, EndAs, Await, Step
  <2>2. TypeOK'
    BY <1>1, <1>2, <2>1, NotedTypes, RunConstants
       DEF TablesFit, Noted, TypeOK, LoopVars, Points, CallPoints, SetupPoints, ToolCall,
           Results, Decisions, Tools, NewLoop, n, EndStatus
  <2>3. PointsFit'
    BY <1>1, <1>2, <2>1, NotedTypes, RunConstants
       DEF TablesFit, Noted, PointsFit, CallPoints, Early, NewLoop, EndStatus
  <2>4. CallFits'
    BY <1>1, <1>2, <2>1, NotedTypes, RunConstants
       DEF TablesFit, Noted, CallFits, PointsFit, CallPoints, EndStatus
  <2>5. RowsFit'
    BY <1>1, <1>2, <2>1, NotedTypes, RunConstants
       DEF TablesFit, Noted, RowsFit, PointsFit, Through, CallFits, EndStatus
  <2>6. LimitKept'
    BY <1>1, <1>2, <2>1, NotedTypes, RunConstants
       DEF TablesFit, Noted, LimitKept, PointsFit, Executed, NewLoop, Early, EndStatus
  <2>7. ResultsOwed'
    BY <1>1, <1>2, <2>1, NotedTypes, RunConstants
       DEF TablesFit, Noted, ResultsOwed, PointsFit, CallPoints, NewLoop, Early, EndStatus
  <2>8. AnswerFits'
    BY <1>1, <1>2, <2>1, NotedTypes, RunConstants
       DEF TablesFit, Noted, AnswerFits, SendsMessage, EndStatus, PointsFit, CallPoints, Early,
           NewLoop, EndStatus
  <2>9. FailureStays'
    BY <1>1, <1>2, <2>1, NotedTypes, RunConstants
       DEF TablesFit, Noted, FailureStays, PointsFit, Early, TypeOK, EndStatus
  <2>10. OutcomeFits'
    <3>1. ends \in {"failed", "caught"}
      BY <1>1 DEF PointsFit
    <3>2. CASE ends = "failed"
      BY <1>1, <2>1, <3>2, AppendToEmpty DEF OutcomeFits
    <3>3. CASE ends = "caught"
      <4>1. runs[n].outcomes \in Seq({"completed", "failed", "unsent"})
        BY <1>5 DEF RunRow
      <4>2. runs'[n].outcomes # <<>> /\ runs'[n].outcomes[Len(runs'[n].outcomes)] = "failed"
        BY <2>1, <4>1
      <4> QED
        BY <1>1, <2>1, <3>3, <4>2 DEF OutcomeFits
    <3> QED
      BY <3>1, <3>2, <3>3
  <2>11. FinalsFit'
    BY <1>1, <1>2, <2>1, NotedTypes, RunConstants
       DEF TablesFit, Noted, FinalsFit, FinalOutstanding, FinalRows, PointsFit, Early, CallPoints,
           TypeOK, NewLoop, EndStatus
  <2>12. SentFits'
    BY <1>1, <1>2, <2>1, NotedTypes, RunConstants
       DEF TablesFit, Noted, SentFits, MessageIsOut, PointsFit, Early, CallPoints, TypeOK, EndStatus
  <2> QED
    BY <2>2, <2>3, <2>4, <2>5, <2>6, <2>7, <2>8, <2>9, <2>10, <2>11, <2>12
<1> QED
  BY <1>3, <1>4

\* The invariant is kept by the step of a failure message that could not be sent.
LEMMA RecordSendFailedInv == ASSUME RunInv, RecordSendFailed PROVE RunInv'
<1> USE DEF RunInv
<1>1. pc = "send_failed" /\ pc \in AwaitPoints /\ Noted /\ n \in Nat /\ faults \in Nat
  BY RunConstants
     DEF RecordSendFailed, Await, Step, Noted, AwaitPoints, Points, SetupPoints, CallPoints, TypeOK,
         n
<1> DEFINE r == [runs[n] EXCEPT !.outcomes = Append(@, "unsent")]
<1>5. n >= 1 /\ runs[n] \in RunRow
  BY <1>1 DEF PointsFit, TypeOK, n
<1>6. r \in RunRow /\ r.status = runs[n].status /\ r.outcomes = Append(runs[n].outcomes, "unsent")
  <2>1. runs[n].outcomes \in Seq({"completed", "failed", "unsent"})
    BY <1>5 DEF RunRow
  <2>2. Append(runs[n].outcomes, "unsent") \in Seq({"completed", "failed", "unsent"})
    BY <2>1
  <2> QED
    BY <1>5, <2>2 DEF RunRow
<1> HIDE DEF r
<1>7. SetRun(r) \/ UNCHANGED tables
  BY <1>1 DEF RecordSendFailed, Await, Step, RecordOutcome, r
<1>2. TablesFit
  BY <1>1, <1>5, <1>6, <1>7, SetRunFits
<1>3. CASE faults' # faults
  BY <1>1, <1>2, <1>3, RejectInv DEF RecordSendFailed, Await, Step, Rejected
<1>4. CASE faults' = faults
  <2>0. SetRun(r) /\ rows' = rows
    BY <1>1, <1>4 DEF RecordSendFailed, Await, Step, RecordOutcome, SetRun, r
  <2>1. /\ faults' = faults /\ clean' = clean
        /\ answer' = "noted"
        /\ rows' = rows /\ n' = n /\ DOMAIN runs' = DOMAIN runs /\ Executed' = Executed
        /\ FinalRows' = FinalRows
        /\ \A i \in DOMAIN runs \ {n} : runs'[i] = runs[i]
        /\ runs'[n].status = runs[n].status
        /\ runs'[n].outcomes = Append(runs[n].outcomes, "unsent")
        /\ pc' = "close"
        /\ call' = call /\ loop' = loop /\ ends' = ends
    BY <1>1, <1>4, <1>5, <1>6, <2>0, SetRunFits
       DEF RecordSendFailed, tables, locals, Goto, EndAs, Await, Step
  <2>2. TypeOK'
    BY <1>1, <1>2, <2>1, NotedTypes, RunConstants
       DEF TablesFit, Noted, TypeOK, LoopVars, Points, CallPoints, SetupPoints, ToolCall,
           Results, Decisions, Tools, NewLoop, n, EndStatus
  <2>3. PointsFit'
    BY <1>1, <1>2, <2>1, NotedTypes, RunConstants
       DEF TablesFit, Noted, PointsFit, CallPoints, Early, NewLoop, EndStatus
  <2>4. CallFits'
    BY <1>1, <1>2, <2>1, NotedTypes, RunConstants
       DEF TablesFit, Noted, CallFits, PointsFit, CallPoints, EndStatus
  <2>5. RowsFit'
    BY <1>1, <1>2, <2>1, NotedTypes, RunConstants
       DEF TablesFit, Noted, RowsFit, PointsFit, Through, CallFits, EndStatus
  <2>6. LimitKept'
    BY <1>1, <1>2, <2>1, NotedTypes, RunConstants
       DEF TablesFit, Noted, LimitKept, PointsFit, Executed, NewLoop, Early, EndStatus
  <2>7. ResultsOwed'
    BY <1>1, <1>2, <2>1, NotedTypes, RunConstants
       DEF TablesFit, Noted, ResultsOwed, PointsFit, CallPoints, NewLoop, Early, EndStatus
  <2>8. AnswerFits'
    BY <1>1, <1>2, <2>1, NotedTypes, RunConstants
       DEF TablesFit, Noted, AnswerFits, SendsMessage, EndStatus, PointsFit, CallPoints, Early,
           NewLoop, EndStatus
  <2>9. FailureStays'
    BY <1>1, <1>2, <2>1, NotedTypes, RunConstants
       DEF TablesFit, Noted, FailureStays, PointsFit, Early, TypeOK, EndStatus
  <2>10. OutcomeFits'
    BY <1>1, <1>2, <2>1, NotedTypes, RunConstants, AppendToEmpty
       DEF TablesFit, Noted, OutcomeFits, PointsFit, Early, CallPoints, TypeOK, n, EndStatus
  <2>11. FinalsFit'
    BY <1>1, <1>2, <2>1, NotedTypes, RunConstants
       DEF TablesFit, Noted, FinalsFit, FinalOutstanding, FinalRows, PointsFit, Early, CallPoints,
           TypeOK, NewLoop, EndStatus
  <2>12. SentFits'
    BY <1>1, <1>2, <2>1, NotedTypes, RunConstants
       DEF TablesFit, Noted, SentFits, MessageIsOut, PointsFit, Early, CallPoints, TypeOK, EndStatus
  <2> QED
    BY <2>2, <2>3, <2>4, <2>5, <2>6, <2>7, <2>8, <2>9, <2>10, <2>11, <2>12
<1> QED
  BY <1>3, <1>4

\* The invariant is kept by the step of a completion.
LEMMA RecordCompletedInv == ASSUME RunInv, RecordCompleted PROVE RunInv'
<1> USE DEF RunInv
<1>1. pc = "done_step" /\ pc \in AwaitPoints /\ Noted /\ n \in Nat /\ faults \in Nat
  BY RunConstants
     DEF RecordCompleted, Await, Step, Noted, AwaitPoints, Points, SetupPoints, CallPoints, TypeOK,
         n
<1> DEFINE r == [runs[n] EXCEPT !.outcomes = Append(@, "completed")]
<1>5. n >= 1 /\ runs[n] \in RunRow
  BY <1>1 DEF PointsFit, TypeOK, n
<1>6. /\ r \in RunRow /\ r.status = runs[n].status
      /\ r.outcomes = Append(runs[n].outcomes, "completed")
  <2>1. runs[n].outcomes \in Seq({"completed", "failed", "unsent"})
    BY <1>5 DEF RunRow
  <2>2. Append(runs[n].outcomes, "completed") \in Seq({"completed", "failed", "unsent"})
    BY <2>1
  <2> QED
    BY <1>5, <2>2 DEF RunRow
<1> HIDE DEF r
<1>7. SetRun(r) \/ UNCHANGED tables
  BY <1>1 DEF RecordCompleted, Await, Step, RecordOutcome, r
<1>2. TablesFit
  BY <1>1, <1>5, <1>6, <1>7, SetRunFits
<1>3. CASE faults' # faults
  BY <1>1, <1>2, <1>3, RejectInv DEF RecordCompleted, Await, Step, Rejected
<1>4. CASE faults' = faults
  <2>0. SetRun(r) /\ rows' = rows
    BY <1>1, <1>4 DEF RecordCompleted, Await, Step, RecordOutcome, SetRun, r
  <2>1. /\ faults' = faults /\ clean' = clean
        /\ answer' = answer
        /\ rows' = rows /\ n' = n /\ DOMAIN runs' = DOMAIN runs /\ Executed' = Executed
        /\ FinalRows' = FinalRows
        /\ \A i \in DOMAIN runs \ {n} : runs'[i] = runs[i]
        /\ runs'[n].status = runs[n].status
        /\ runs'[n].outcomes = Append(runs[n].outcomes, "completed")
        /\ pc' = "close"
        /\ call' = call /\ loop' = loop /\ ends' = ends
    BY <1>1, <1>4, <1>5, <1>6, <2>0, SetRunFits
       DEF RecordCompleted, tables, locals, Goto, EndAs, Await, Step
  <2>2. TypeOK'
    BY <1>1, <1>2, <2>1, NotedTypes, RunConstants
       DEF TablesFit, Noted, TypeOK, LoopVars, Points, CallPoints, SetupPoints, ToolCall,
           Results, Decisions, Tools, NewLoop, n, EndStatus
  <2>3. PointsFit'
    BY <1>1, <1>2, <2>1, NotedTypes, RunConstants
       DEF TablesFit, Noted, PointsFit, CallPoints, Early, NewLoop, EndStatus
  <2>4. CallFits'
    BY <1>1, <1>2, <2>1, NotedTypes, RunConstants
       DEF TablesFit, Noted, CallFits, PointsFit, CallPoints, EndStatus
  <2>5. RowsFit'
    BY <1>1, <1>2, <2>1, NotedTypes, RunConstants
       DEF TablesFit, Noted, RowsFit, PointsFit, Through, CallFits, EndStatus
  <2>6. LimitKept'
    BY <1>1, <1>2, <2>1, NotedTypes, RunConstants
       DEF TablesFit, Noted, LimitKept, PointsFit, Executed, NewLoop, Early, EndStatus
  <2>7. ResultsOwed'
    BY <1>1, <1>2, <2>1, NotedTypes, RunConstants
       DEF TablesFit, Noted, ResultsOwed, PointsFit, CallPoints, NewLoop, Early, EndStatus
  <2>8. AnswerFits'
    BY <1>1, <1>2, <2>1, NotedTypes, RunConstants
       DEF TablesFit, Noted, AnswerFits, SendsMessage, EndStatus, PointsFit, CallPoints, Early,
           NewLoop, EndStatus
  <2>9. FailureStays'
    BY <1>1, <1>2, <2>1, NotedTypes, RunConstants
       DEF TablesFit, Noted, FailureStays, PointsFit, Early, TypeOK, EndStatus
  <2>10. OutcomeFits'
    BY <1>1, <1>2, <2>1, NotedTypes, RunConstants, AppendToEmpty
       DEF TablesFit, Noted, OutcomeFits, PointsFit, Early, CallPoints, TypeOK, n, EndStatus
  <2>11. FinalsFit'
    BY <1>1, <1>2, <2>1, NotedTypes, RunConstants
       DEF TablesFit, Noted, FinalsFit, FinalOutstanding, FinalRows, PointsFit, Early, CallPoints,
           TypeOK, NewLoop, EndStatus
  <2>12. SentFits'
    BY <1>1, <1>2, <2>1, NotedTypes, RunConstants
       DEF TablesFit, Noted, SentFits, MessageIsOut, PointsFit, Early, CallPoints, TypeOK, EndStatus
  <2> QED
    BY <2>2, <2>3, <2>4, <2>5, <2>6, <2>7, <2>8, <2>9, <2>10, <2>11, <2>12
<1> QED
  BY <1>3, <1>4

\* The invariant is kept by the run's status.
LEMMA CompleteRunInv == ASSUME RunInv, CompleteRun PROVE RunInv'
<1> USE DEF RunInv
<1>1. pc = "close" /\ pc \in AwaitPoints /\ Noted /\ n \in Nat /\ faults \in Nat
  BY RunConstants
     DEF CompleteRun, Await, Step, Noted, AwaitPoints, Points, SetupPoints, CallPoints, TypeOK, n
<1> DEFINE r == [runs[n] EXCEPT !.status = EndStatus]
<1>5. n >= 1 /\ runs[n] \in RunRow
  BY <1>1 DEF PointsFit, TypeOK, n
<1>6. r \in RunRow /\ r.status = EndStatus /\ r.outcomes = runs[n].outcomes
  BY <1>5 DEF RunRow, EndStatus
<1> HIDE DEF r
<1>7. SetRun(r) \/ UNCHANGED tables
  BY <1>1 DEF CompleteRun, Await, Step, r
<1>2. TablesFit
  BY <1>1, <1>5, <1>6, <1>7, SetRunFits
<1>3. CASE faults' # faults
  BY <1>1, <1>2, <1>3, RejectInv DEF CompleteRun, Await, Step, Rejected
<1>4. CASE faults' = faults
  <2>0. SetRun(r) /\ rows' = rows
    BY <1>1, <1>4 DEF CompleteRun, Await, Step, RecordOutcome, SetRun, r
  <2>1. /\ faults' = faults /\ clean' = clean
        /\ answer' = "owed"
        /\ rows' = rows /\ n' = n /\ DOMAIN runs' = DOMAIN runs /\ Executed' = Executed
        /\ FinalRows' = FinalRows
        /\ \A i \in DOMAIN runs \ {n} : runs'[i] = runs[i]
        /\ runs'[n].status = EndStatus /\ runs'[n].outcomes = runs[n].outcomes
        /\ pc' = "returned"
        /\ call' = call /\ loop' = loop /\ ends' = ends
    BY <1>1, <1>4, <1>5, <1>6, <2>0, SetRunFits
       DEF CompleteRun, tables, locals, Goto, EndAs, Await, Step
  <2>2. TypeOK'
    BY <1>1, <1>2, <2>1, NotedTypes, RunConstants
       DEF TablesFit, Noted, TypeOK, LoopVars, Points, CallPoints, SetupPoints, ToolCall,
           Results, Decisions, Tools, NewLoop, n, EndStatus
  <2>3. PointsFit'
    BY <1>1, <1>2, <2>1, NotedTypes, RunConstants
       DEF TablesFit, Noted, PointsFit, CallPoints, Early, NewLoop, EndStatus
  <2>4. CallFits'
    BY <1>1, <1>2, <2>1, NotedTypes, RunConstants
       DEF TablesFit, Noted, CallFits, PointsFit, CallPoints, EndStatus
  <2>5. RowsFit'
    BY <1>1, <1>2, <2>1, NotedTypes, RunConstants
       DEF TablesFit, Noted, RowsFit, PointsFit, Through, CallFits, EndStatus
  <2>6. LimitKept'
    BY <1>1, <1>2, <2>1, NotedTypes, RunConstants
       DEF TablesFit, Noted, LimitKept, PointsFit, Executed, NewLoop, Early, EndStatus
  <2>7. ResultsOwed'
    BY <1>1, <1>2, <2>1, NotedTypes, RunConstants
       DEF TablesFit, Noted, ResultsOwed, PointsFit, CallPoints, NewLoop, Early, EndStatus
  <2>8. AnswerFits'
    BY <1>1, <1>2, <2>1, NotedTypes, RunConstants
       DEF TablesFit, Noted, AnswerFits, SendsMessage, EndStatus, PointsFit, CallPoints, Early,
           NewLoop, EndStatus
  <2>9. FailureStays'
    BY <1>1, <1>2, <2>1, NotedTypes, RunConstants
       DEF TablesFit, Noted, FailureStays, PointsFit, Early, TypeOK, EndStatus
  <2>10. OutcomeFits'
    BY <1>1, <1>2, <2>1, NotedTypes, RunConstants
       DEF TablesFit, Noted, OutcomeFits, PointsFit, Early, CallPoints, TypeOK, n, EndStatus
  <2>11. FinalsFit'
    BY <1>1, <1>2, <2>1, NotedTypes, RunConstants
       DEF TablesFit, Noted, FinalsFit, FinalOutstanding, FinalRows, PointsFit, Early, CallPoints,
           TypeOK, NewLoop, EndStatus
  <2>12. SentFits'
    BY <1>1, <1>2, <2>1, NotedTypes, RunConstants
       DEF TablesFit, Noted, SentFits, MessageIsOut, PointsFit, Early, CallPoints, TypeOK, EndStatus
  <2> QED
    BY <2>2, <2>3, <2>4, <2>5, <2>6, <2>7, <2>8, <2>9, <2>10, <2>11, <2>12
<1> QED
  BY <1>3, <1>4

\* The invariant is kept by loading the context.
LEMMA LoadContextInv == ASSUME RunInv, LoadContext PROVE RunInv'
<1> USE DEF RunInv
<1>1. pc = "context" /\ pc \in AwaitPoints /\ Noted /\ n \in Nat /\ faults \in Nat
  BY RunConstants
     DEF LoadContext, Await, Step, Noted, AwaitPoints, Points, SetupPoints, CallPoints, TypeOK, n
<1>2. TablesFit
  BY <1>1, NoEffectFits DEF LoadContext, Await, Step, NoEffect
<1>3. CASE faults' # faults
  BY <1>1, <1>2, <1>3, RejectInv DEF LoadContext, Await, Step, Rejected
<1>4. CASE faults' = faults
  <2>1. /\ faults' = faults /\ clean' = clean
        /\ answer' = answer
        /\ runs' = runs /\ rows' = rows
        /\ pc' = "next"
        /\ call' = call /\ loop' = loop /\ ends' = ends
    BY <1>1, <1>4 DEF LoadContext, NoEffect, tables, locals, Goto, EndAs, Await, Step
  <2>2. TypeOK'
    BY <1>1, <1>2, <2>1, NotedTypes, RunConstants
       DEF TablesFit, Noted, TypeOK, LoopVars, Points, CallPoints, SetupPoints, ToolCall,
           Results, Decisions, Tools, NewLoop, n
  <2>3. PointsFit'
    BY <1>1, <1>2, <2>1, NotedTypes, RunConstants
       DEF TablesFit, Noted, PointsFit, CallPoints, Early, NewLoop
  <2>4. CallFits'
    BY <1>1, <1>2, <2>1, NotedTypes, RunConstants
       DEF TablesFit, Noted, CallFits, PointsFit, CallPoints
  <2>5. RowsFit'
    BY <1>1, <1>2, <2>1, NotedTypes, RunConstants
       DEF TablesFit, Noted, RowsFit, PointsFit, Through, CallFits
  <2>6. LimitKept'
    BY <1>1, <1>2, <2>1, NotedTypes, RunConstants, FS_EmptySet
       DEF TablesFit, Noted, LimitKept, PointsFit, Executed, NewLoop, Early
  <2>7. ResultsOwed'
    BY <1>1, <1>2, <2>1, NotedTypes, RunConstants
       DEF TablesFit, Noted, ResultsOwed, PointsFit, CallPoints, NewLoop, Early
  <2>8. AnswerFits'
    BY <1>1, <1>2, <2>1, NotedTypes, RunConstants
       DEF TablesFit, Noted, AnswerFits, SendsMessage, EndStatus, PointsFit, CallPoints, Early,
           NewLoop
  <2>9. FailureStays'
    BY <1>1, <1>2, <2>1, NotedTypes, RunConstants
       DEF TablesFit, Noted, FailureStays, PointsFit, Early, TypeOK
  <2>10. OutcomeFits'
    BY <1>1, <1>2, <2>1, NotedTypes, RunConstants
       DEF TablesFit, Noted, OutcomeFits, PointsFit, Early, CallPoints, TypeOK, n
  <2>11. FinalsFit'
    BY <1>1, <1>2, <2>1, NotedTypes, RunConstants
       DEF TablesFit, Noted, FinalsFit, FinalOutstanding, FinalRows, PointsFit, Early, CallPoints,
           TypeOK, NewLoop
  <2>12. SentFits'
    BY <1>1, <1>2, <2>1, NotedTypes, RunConstants
       DEF TablesFit, Noted, SentFits, MessageIsOut, PointsFit, Early, CallPoints, TypeOK
  <2> QED
    BY <2>2, <2>3, <2>4, <2>5, <2>6, <2>7, <2>8, <2>9, <2>10, <2>11, <2>12
<1> QED
  BY <1>3, <1>4

\* The invariant is kept by calling the model.
LEMMA CallModelInv == ASSUME RunInv, CallModel PROVE RunInv'
<1> USE DEF RunInv
<1>1. pc = "next" /\ pc \in AwaitPoints /\ Noted /\ n \in Nat /\ faults \in Nat
  BY RunConstants
     DEF CallModel, Await, Step, Noted, AwaitPoints, Points, SetupPoints, CallPoints, TypeOK, n
<1>2. TablesFit
  BY <1>1, NoEffectFits DEF CallModel, Await, Step, NoEffect
<1>3. CASE faults' # faults
  BY <1>1, <1>2, <1>3, RejectInv DEF CallModel, Await, Step, Rejected
<1>4. CASE faults' = faults
  <2>1. /\ faults' = faults /\ clean' = clean
        /\ answer' = answer
        /\ runs' = runs /\ rows' = rows
        /\ pc' = "model_step"
        /\ call' = call /\ ends' = ends
        /\ loop.calls = <<>> /\ loop.steps < MaxModelSteps
        /\ \E batch \in Batches : loop' = AnsweredWith(loop, batch)
    BY <1>1, <1>4 DEF CallModel, NoEffect, tables, locals, Goto, EndAs, Await, Step
  <2>20. PICK batch \in Batches : loop' = AnsweredWith(loop, batch)
    BY <2>1
  <2>21. /\ loop'.calls \in Seq(Tools) /\ Len(loop'.calls) \in 0 .. MaxBatch
         /\ loop'.steps = loop.steps + 1 /\ loop'.owed = loop.owed
         /\ loop'.used = loop.used /\ loop'.sent = loop.sent
         /\ loop' \in LoopVars
    <3>1. loop'.calls \in Seq(Tools) /\ Len(loop'.calls) \in 0 .. MaxBatch
      BY <1>1, <2>1, <2>20, LocalTypes, RunConstants, BatchType
         DEF AnsweredWith, SendsMessage, LoopVars, ToolCall, CallPoints, Decisions, Results,
             Tools, ResultsOwed, PointsFit, NewLoop
    <3>2. loop'.steps = loop.steps + 1 /\ loop'.owed = loop.owed
      BY <1>1, <2>1, <2>20, LocalTypes, RunConstants, BatchType
         DEF AnsweredWith, SendsMessage, LoopVars, ToolCall, CallPoints, Decisions, Results,
             Tools, ResultsOwed, PointsFit, NewLoop
    <3>3. loop'.used = loop.used /\ loop'.sent = loop.sent
      BY <1>1, <2>1, <2>20, LocalTypes, RunConstants, BatchType
         DEF AnsweredWith, SendsMessage, LoopVars, ToolCall, CallPoints, Decisions, Results,
             Tools, ResultsOwed, PointsFit, NewLoop
    <3>4. loop' \in LoopVars
      <4>1. loop.steps + 1 \in 0 .. MaxModelSteps /\ batch \in Seq(Tools)
        BY <1>1, <2>1, <2>20, LocalTypes, RunConstants, BatchType
           DEF SendsMessage, LoopVars, ToolCall, CallPoints, Decisions, Results, Tools,
               ResultsOwed, PointsFit, NewLoop
      <4> QED
        BY <2>1, <2>20, <4>1, LocalTypes DEF AnsweredWith, LoopVars
    <3> QED
      BY <3>1, <3>2, <3>3, <3>4
  <2>2. TypeOK'
    BY <1>1, <1>2, <2>1, <2>21, NotedTypes, RunConstants, BatchType
       DEF TablesFit, Noted, TypeOK, LoopVars, Points, CallPoints, SetupPoints, ToolCall,
           Results, Decisions, Tools, NewLoop, n
  <2>3. PointsFit'
    BY <1>1, <1>2, <2>1, <2>21, NotedTypes, RunConstants
       DEF TablesFit, Noted, PointsFit, CallPoints, Early, NewLoop
  <2>4. CallFits'
    BY <1>1, <1>2, <2>1, <2>21, NotedTypes, RunConstants
       DEF TablesFit, Noted, CallFits, PointsFit, CallPoints
  <2>5. RowsFit'
    BY <1>1, <1>2, <2>1, <2>21, NotedTypes, RunConstants
       DEF TablesFit, Noted, RowsFit, PointsFit, Through, CallFits
  <2>6. LimitKept'
    BY <1>1, <1>2, <2>1, <2>21, NotedTypes, RunConstants
       DEF TablesFit, Noted, LimitKept, PointsFit, Executed, NewLoop, Early
  <2>7. ResultsOwed'
    BY <1>1, <1>2, <2>1, <2>21, NotedTypes, RunConstants, BatchType
       DEF TablesFit, Noted, ResultsOwed, PointsFit, CallPoints, NewLoop, Early
  <2>8. AnswerFits'
    BY <1>1, <1>2, <2>1, <2>21, NotedTypes, RunConstants
       DEF TablesFit, Noted, AnswerFits, SendsMessage, EndStatus, PointsFit, CallPoints, Early,
           NewLoop
  <2>9. FailureStays'
    BY <1>1, <1>2, <2>1, <2>21, NotedTypes, RunConstants
       DEF TablesFit, Noted, FailureStays, PointsFit, Early, TypeOK
  <2>10. OutcomeFits'
    BY <1>1, <1>2, <2>1, <2>21, NotedTypes, RunConstants
       DEF TablesFit, Noted, OutcomeFits, PointsFit, Early, CallPoints, TypeOK, n
  <2>11. FinalsFit'
    BY <1>1, <1>2, <2>1, <2>21, NotedTypes, RunConstants
       DEF TablesFit, Noted, FinalsFit, FinalOutstanding, FinalRows, PointsFit, Early, CallPoints,
           TypeOK, NewLoop
  <2>12. SentFits'
    BY <1>1, <1>2, <2>1, <2>21, NotedTypes, RunConstants
       DEF TablesFit, Noted, SentFits, MessageIsOut, PointsFit, Early, CallPoints, TypeOK
  <2> QED
    BY <2>2, <2>3, <2>4, <2>5, <2>6, <2>7, <2>8, <2>9, <2>10, <2>11, <2>12
<1> QED
  BY <1>3, <1>4

\* The invariant is kept by the step of the model's answer.
LEMMA RecordModelStepInv == ASSUME RunInv, RecordModelStep PROVE RunInv'
<1> USE DEF RunInv
<1>1. pc = "model_step" /\ pc \in AwaitPoints /\ Noted /\ n \in Nat /\ faults \in Nat
  BY RunConstants
     DEF RecordModelStep, Await, Step, Noted, AwaitPoints, Points, SetupPoints, CallPoints, TypeOK,
         n
<1>2. TablesFit
  BY <1>1, NoEffectFits DEF RecordModelStep, Await, Step, NoEffect
<1>3. CASE faults' # faults
  BY <1>1, <1>2, <1>3, RejectInv DEF RecordModelStep, Await, Step, Rejected
<1>4. CASE faults' = faults
  <2>1. /\ faults' = faults /\ clean' = clean
        /\ answer' = answer
        /\ runs' = runs /\ rows' = rows
        /\ call' = call
        /\ loop.calls = <<>> => loop' = loop /\ ends' = "completed" /\ pc' = IF loop.sent THEN "done_step" ELSE "final"
        /\ loop.calls # <<>> => pc' = "next" /\ ends' = ends /\ loop' = OwesResults(loop)
    BY <1>1, <1>4 DEF RecordModelStep, Finish, NoEffect, tables, locals, Goto, EndAs, Await, Step
  <2>21. /\ loop.calls # <<>> => loop'.owed = Len(loop.calls)
         /\ loop'.calls = loop.calls /\ loop'.used = loop.used /\ loop'.sent = loop.sent
         /\ loop' \in LoopVars
    <3>1. loop.calls # <<>> => loop'.owed = Len(loop.calls)
      BY <1>1, <2>1, LocalTypes, RunConstants
         DEF OwesResults, SendsMessage, LoopVars, ToolCall, CallPoints, Decisions, Results,
             Tools, ResultsOwed, PointsFit, NewLoop
    <3>2. loop'.calls = loop.calls /\ loop'.used = loop.used /\ loop'.sent = loop.sent
      BY <1>1, <2>1, LocalTypes, RunConstants
         DEF OwesResults, SendsMessage, LoopVars, ToolCall, CallPoints, Decisions, Results,
             Tools, ResultsOwed, PointsFit, NewLoop
    <3>3. loop' \in LoopVars
      BY <1>1, <2>1, LocalTypes, RunConstants
         DEF OwesResults, SendsMessage, LoopVars, ToolCall, CallPoints, Decisions, Results,
             Tools, ResultsOwed, PointsFit, NewLoop
    <3> QED
      BY <3>1, <3>2, <3>3
  <2>2. TypeOK'
    BY <1>1, <1>2, <2>1, <2>21, NotedTypes, RunConstants
       DEF TablesFit, Noted, TypeOK, LoopVars, Points, CallPoints, SetupPoints, ToolCall,
           Results, Decisions, Tools, NewLoop, n
  <2>3. PointsFit'
    BY <1>1, <1>2, <2>1, <2>21, NotedTypes, RunConstants
       DEF TablesFit, Noted, PointsFit, CallPoints, Early, NewLoop
  <2>4. CallFits'
    BY <1>1, <1>2, <2>1, <2>21, NotedTypes, RunConstants
       DEF TablesFit, Noted, CallFits, PointsFit, CallPoints
  <2>5. RowsFit'
    BY <1>1, <1>2, <2>1, <2>21, NotedTypes, RunConstants
       DEF TablesFit, Noted, RowsFit, PointsFit, Through, CallFits
  <2>6. LimitKept'
    BY <1>1, <1>2, <2>1, <2>21, NotedTypes, RunConstants
       DEF TablesFit, Noted, LimitKept, PointsFit, Executed, NewLoop, Early
  <2>7. ResultsOwed'
    BY <1>1, <1>2, <2>1, <2>21, NotedTypes, RunConstants
       DEF TablesFit, Noted, ResultsOwed, PointsFit, CallPoints, NewLoop, Early
  <2>8. AnswerFits'
    BY <1>1, <1>2, <2>1, <2>21, NotedTypes, RunConstants
       DEF TablesFit, Noted, AnswerFits, SendsMessage, EndStatus, PointsFit, CallPoints, Early,
           NewLoop
  <2>9. FailureStays'
    BY <1>1, <1>2, <2>1, <2>21, NotedTypes, RunConstants
       DEF TablesFit, Noted, FailureStays, PointsFit, Early, TypeOK
  <2>10. OutcomeFits'
    BY <1>1, <1>2, <2>1, <2>21, NotedTypes, RunConstants
       DEF TablesFit, Noted, OutcomeFits, PointsFit, Early, CallPoints, TypeOK, n
  <2>11. FinalsFit'
    BY <1>1, <1>2, <2>1, <2>21, NotedTypes, RunConstants
       DEF TablesFit, Noted, FinalsFit, FinalOutstanding, FinalRows, PointsFit, Early, CallPoints,
           TypeOK, NewLoop
  <2>12. SentFits'
    BY <1>1, <1>2, <2>1, <2>21, NotedTypes, RunConstants
       DEF TablesFit, Noted, SentFits, MessageIsOut, PointsFit, Early, CallPoints, TypeOK
  <2> QED
    BY <2>2, <2>3, <2>4, <2>5, <2>6, <2>7, <2>8, <2>9, <2>10, <2>11, <2>12
<1> QED
  BY <1>3, <1>4

\* The invariant is kept by stopping at a limit.
LEMMA StopAtLimitInv == ASSUME RunInv, StopAtLimit PROVE RunInv'
<1> USE DEF RunInv
<1>1. pc = "next" /\ pc \in AwaitPoints /\ Noted /\ n \in Nat /\ faults \in Nat
  BY RunConstants
     DEF StopAtLimit, Await, Step, Noted, AwaitPoints, Points, SetupPoints, CallPoints, TypeOK, n
<1> DEFINE r == [runs[n] EXCEPT !.outcomes = Append(@, "failed")]
<1>5. n >= 1 /\ runs[n] \in RunRow
  BY <1>1 DEF PointsFit, TypeOK, n
<1>6. r \in RunRow /\ r.status = runs[n].status /\ r.outcomes = Append(runs[n].outcomes, "failed")
  <2>1. runs[n].outcomes \in Seq({"completed", "failed", "unsent"})
    BY <1>5 DEF RunRow
  <2>2. Append(runs[n].outcomes, "failed") \in Seq({"completed", "failed", "unsent"})
    BY <2>1
  <2> QED
    BY <1>5, <2>2 DEF RunRow
<1> HIDE DEF r
<1>7. SetRun(r) \/ UNCHANGED tables
  BY <1>1 DEF StopAtLimit, Await, Step, RecordOutcome, r
<1>2. TablesFit
  BY <1>1, <1>5, <1>6, <1>7, SetRunFits
<1>3. CASE faults' # faults
  BY <1>1, <1>2, <1>3, RejectInv DEF StopAtLimit, Await, Step, Rejected
<1>4. CASE faults' = faults
  <2>0. SetRun(r) /\ rows' = rows
    BY <1>1, <1>4 DEF StopAtLimit, Await, Step, RecordOutcome, SetRun, r
  <2>1. /\ faults' = faults /\ clean' = clean
        /\ answer' = answer
        /\ rows' = rows /\ n' = n /\ DOMAIN runs' = DOMAIN runs /\ Executed' = Executed
        /\ FinalRows' = FinalRows
        /\ \A i \in DOMAIN runs \ {n} : runs'[i] = runs[i]
        /\ runs'[n].status = runs[n].status
        /\ runs'[n].outcomes = Append(runs[n].outcomes, "failed")
        /\ pc' = "final" /\ ends' = "failed"
        /\ call' = call /\ loop' = loop
    BY <1>1, <1>4, <1>5, <1>6, <2>0, SetRunFits
       DEF StopAtLimit, tables, locals, Goto, EndAs, Await, Step
  <2>2. TypeOK'
    BY <1>1, <1>2, <2>1, NotedTypes, RunConstants
       DEF TablesFit, Noted, TypeOK, LoopVars, Points, CallPoints, SetupPoints, ToolCall,
           Results, Decisions, Tools, NewLoop, n
  <2>3. PointsFit'
    BY <1>1, <1>2, <2>1, NotedTypes, RunConstants
       DEF TablesFit, Noted, PointsFit, CallPoints, Early, NewLoop
  <2>4. CallFits'
    BY <1>1, <1>2, <2>1, NotedTypes, RunConstants
       DEF TablesFit, Noted, CallFits, PointsFit, CallPoints
  <2>5. RowsFit'
    BY <1>1, <1>2, <2>1, NotedTypes, RunConstants
       DEF TablesFit, Noted, RowsFit, PointsFit, Through, CallFits
  <2>6. LimitKept'
    BY <1>1, <1>2, <2>1, NotedTypes, RunConstants
       DEF TablesFit, Noted, LimitKept, PointsFit, Executed, NewLoop, Early
  <2>7. ResultsOwed'
    BY <1>1, <1>2, <2>1, NotedTypes, RunConstants
       DEF TablesFit, Noted, ResultsOwed, PointsFit, CallPoints, NewLoop, Early
  <2>8. AnswerFits'
    BY <1>1, <1>2, <2>1, NotedTypes, RunConstants
       DEF TablesFit, Noted, AnswerFits, SendsMessage, EndStatus, PointsFit, CallPoints, Early,
           NewLoop
  <2>9. FailureStays'
    BY <1>1, <1>2, <2>1, NotedTypes, RunConstants
       DEF TablesFit, Noted, FailureStays, PointsFit, Early, TypeOK
  <2>10. OutcomeFits'
    BY <1>1, <1>2, <2>1, NotedTypes, RunConstants, AppendToEmpty
       DEF TablesFit, Noted, OutcomeFits, PointsFit, Early, CallPoints, TypeOK, n
  <2>11. FinalsFit'
    BY <1>1, <1>2, <2>1, NotedTypes, RunConstants
       DEF TablesFit, Noted, FinalsFit, FinalOutstanding, FinalRows, PointsFit, Early, CallPoints,
           TypeOK, NewLoop
  <2>12. SentFits'
    BY <1>1, <1>2, <2>1, NotedTypes, RunConstants
       DEF TablesFit, Noted, SentFits, MessageIsOut, PointsFit, Early, CallPoints, TypeOK
  <2> QED
    BY <2>2, <2>3, <2>4, <2>5, <2>6, <2>7, <2>8, <2>9, <2>10, <2>11, <2>12
<1> QED
  BY <1>3, <1>4

\* The invariant is kept by taking the next call.
LEMMA RequestToolCallInv == ASSUME RunInv, RequestToolCall PROVE RunInv'
<1> USE DEF RunInv
<1>1. pc = "next" /\ pc \in AwaitPoints /\ Noted /\ n \in Nat /\ faults \in Nat
  BY RunConstants
     DEF RequestToolCall, Await, Step, Noted, AwaitPoints, Points, SetupPoints, CallPoints, TypeOK,
         n
<1>2. TablesFit
  BY <1>1, NoEffectFits DEF RequestToolCall, Await, Step, NoEffect
<1>3. CASE faults' # faults
  BY <1>1, <1>2, <1>3, RejectInv DEF RequestToolCall, Await, Step, Rejected
<1>4. CASE faults' = faults
  <2>0. loop.calls # <<>> /\ loop.used < MaxToolCalls
    BY LocalTypes, RunConstants DEF RequestToolCall, ToolCallLimitReached, LoopVars
  <2>1. /\ faults' = faults /\ clean' = clean
        /\ answer' = answer
        /\ runs' = runs /\ rows' = rows
        /\ ends' = ends
        /\ loop.calls # <<>> /\ loop.used < MaxToolCalls
        /\ pc' \in {"evaluate", "completed_step"}
    BY <1>1, <1>4, <2>0 DEF RequestToolCall, NoEffect, tables, locals, Goto, EndAs, Await, Step
  <2>20. loop' = Reserved(loop)
         /\ call' = LoopCall(Head(loop.calls), IF pc' = "evaluate" THEN "failed" ELSE "permission_denied")
    BY <1>1, <1>4, <2>0 DEF RequestToolCall, Await, Step
  <2>21. /\ loop'.calls \in Seq(Tools) /\ Len(loop'.calls) = Len(loop.calls) - 1
         /\ loop'.used = loop.used + 1 /\ loop'.owed = loop.owed
         /\ loop'.sent = loop.sent
         /\ loop' \in LoopVars
         /\ call' \in ToolCall /\ call' # None
         /\ ~call'.final /\ call'.decision = "allowed"
         /\ call'.result = IF pc' = "evaluate" THEN "failed" ELSE "permission_denied"
    <3>1. loop'.calls \in Seq(Tools) /\ Len(loop'.calls) = Len(loop.calls) - 1
      BY <1>1, <2>1, <2>0, <2>20, LocalTypes, RunConstants
         DEF Reserved, LoopCall, SendsMessage, LoopVars, ToolCall, CallPoints, Decisions,
             Results, Tools, ResultsOwed, PointsFit, NewLoop
    <3>2. loop'.used = loop.used + 1 /\ loop'.owed = loop.owed
      BY <1>1, <2>1, <2>0, <2>20, LocalTypes, RunConstants
         DEF Reserved, LoopCall, SendsMessage, LoopVars, ToolCall, CallPoints, Decisions,
             Results, Tools, ResultsOwed, PointsFit, NewLoop
    <3>3. loop'.sent = loop.sent
      BY <1>1, <2>1, <2>0, <2>20, LocalTypes, RunConstants
         DEF Reserved, LoopCall, SendsMessage, LoopVars, ToolCall, CallPoints, Decisions,
             Results, Tools, ResultsOwed, PointsFit, NewLoop
    <3>4. loop' \in LoopVars
      <4>1. Tail(loop.calls) \in Seq(Tools) /\ loop.used + 1 \in 0 .. MaxToolCalls
        BY <1>1, <2>1, <2>0, <2>20, LocalTypes, RunConstants
           DEF SendsMessage, LoopVars, ToolCall, CallPoints, Decisions, Results, Tools,
               ResultsOwed, PointsFit, NewLoop
      <4> QED
        BY <2>1, <2>0, <2>20, <4>1, LocalTypes DEF Reserved, LoopCall, LoopVars
    <3>5. call' \in ToolCall /\ call' # None
      <4>1. call' \in ToolCall
        BY <1>1, <2>1, <2>0, <2>20, LocalTypes, RunConstants
           DEF Reserved, LoopCall, SendsMessage, LoopVars, ToolCall, CallPoints, Decisions,
               Results, Tools, ResultsOwed, PointsFit, NewLoop
      <4> QED
        BY <4>1, NoneIsNoCall
    <3>6. ~call'.final /\ call'.decision = "allowed"
      BY <1>1, <2>1, <2>0, <2>20, LocalTypes, RunConstants
         DEF Reserved, LoopCall, SendsMessage, LoopVars, ToolCall, CallPoints, Decisions,
             Results, Tools, ResultsOwed, PointsFit, NewLoop
    <3>7. call'.result = IF pc' = "evaluate" THEN "failed" ELSE "permission_denied"
      BY <1>1, <2>1, <2>0, <2>20, LocalTypes, RunConstants
         DEF Reserved, LoopCall, SendsMessage, LoopVars, ToolCall, CallPoints, Decisions,
             Results, Tools, ResultsOwed, PointsFit, NewLoop
    <3> QED
      BY <3>1, <3>2, <3>3, <3>4, <3>5, <3>6, <3>7
  <2>2. TypeOK'
    BY <1>1, <1>2, <2>1, <2>21, NotedTypes, RunConstants
       DEF TablesFit, Noted, TypeOK, LoopVars, Points, CallPoints, SetupPoints, ToolCall,
           Results, Decisions, Tools, NewLoop, n
  <2>3. PointsFit'
    BY <1>1, <1>2, <2>1, <2>21, NotedTypes, RunConstants
       DEF TablesFit, Noted, PointsFit, CallPoints, Early, NewLoop
  <2>4. CallFits'
    BY <1>1, <1>2, <2>1, <2>21, NotedTypes, RunConstants
       DEF TablesFit, Noted, CallFits, PointsFit, CallPoints
  <2>5. RowsFit'
    BY <1>1, <1>2, <2>1, <2>21, NotedTypes, RunConstants
       DEF TablesFit, Noted, RowsFit, PointsFit, Through, CallFits
  <2>6. LimitKept'
    <3>1. Executed' = Executed /\ Cardinality(Executed) \in Nat
      BY <2>1, ExecutedIsFinite DEF Executed
    <3> QED
      BY <1>1, <2>1, <2>21, <3>1, LocalTypes, RunConstants
         DEF LimitKept, PointsFit, LoopVars, CallPoints
  <2>7. ResultsOwed'
    BY <1>1, <1>2, <2>1, <2>21, NotedTypes, RunConstants
       DEF TablesFit, Noted, ResultsOwed, PointsFit, CallPoints, NewLoop, Early
  <2>8. AnswerFits'
    BY <1>1, <1>2, <2>1, <2>21, NotedTypes, RunConstants
       DEF TablesFit, Noted, AnswerFits, SendsMessage, EndStatus, PointsFit, CallPoints, Early,
           NewLoop
  <2>9. FailureStays'
    BY <1>1, <1>2, <2>1, <2>21, NotedTypes, RunConstants
       DEF TablesFit, Noted, FailureStays, PointsFit, Early, TypeOK
  <2>10. OutcomeFits'
    BY <1>1, <1>2, <2>1, <2>21, NotedTypes, RunConstants
       DEF TablesFit, Noted, OutcomeFits, PointsFit, Early, CallPoints, TypeOK, n
  <2>11. FinalsFit'
    BY <1>1, <1>2, <2>1, <2>21, NotedTypes, RunConstants
       DEF TablesFit, Noted, FinalsFit, FinalOutstanding, FinalRows, PointsFit, Early, CallPoints,
           TypeOK, NewLoop
  <2>12. SentFits'
    BY <1>1, <1>2, <2>1, <2>21, NotedTypes, RunConstants
       DEF TablesFit, Noted, SentFits, MessageIsOut, PointsFit, Early, CallPoints, TypeOK
  <2> QED
    BY <2>2, <2>3, <2>4, <2>5, <2>6, <2>7, <2>8, <2>9, <2>10, <2>11, <2>12
<1> QED
  BY <1>3, <1>4

\* The invariant is kept by the end of a call of the model.
LEMMA FinishToolCallInv == ASSUME RunInv, FinishToolCall PROVE RunInv'
<1> USE DEF RunInv
<1>1. pc = "completed_step" /\ pc \in AwaitPoints /\ Noted /\ n \in Nat /\ faults \in Nat
  BY RunConstants
     DEF FinishToolCall, Await, Step, Noted, AwaitPoints, Points, SetupPoints, CallPoints, TypeOK, n
<1>2. TablesFit
  BY <1>1, NoEffectFits DEF FinishToolCall, Await, Step, NoEffect
<1>3. CASE faults' # faults
  BY <1>1, <1>2, <1>3, RejectInv DEF FinishToolCall, Await, Step, Rejected
<1>4. CASE faults' = faults
  <2>1. /\ faults' = faults /\ clean' = clean
        /\ answer' = answer
        /\ runs' = runs /\ rows' = rows
        /\ call # None /\ ~call.final
        /\ pc' = "next" /\ call' = None /\ ends' = ends
        /\ loop' = Answered(loop)
    BY <1>1, <1>4 DEF FinishToolCall, NoEffect, tables, locals, Goto, EndAs, Await, Step
  <2>21. /\ loop'.calls = loop.calls /\ loop'.used = loop.used /\ loop'.owed = loop.owed - 1
         /\ loop'.sent = (loop.sent \/ SendsMessage)
         /\ loop' \in LoopVars
    <3>1. loop'.calls = loop.calls /\ loop'.used = loop.used /\ loop'.owed = loop.owed - 1
      BY <1>1, <2>1, LocalTypes, RunConstants
         DEF Answered, SendsMessage, LoopVars, ToolCall, CallPoints, Decisions, Results, Tools,
             ResultsOwed, PointsFit, NewLoop
    <3>2. loop'.sent = (loop.sent \/ SendsMessage)
      BY <1>1, <2>1, LocalTypes, RunConstants
         DEF Answered, SendsMessage, LoopVars, ToolCall, CallPoints, Decisions, Results, Tools,
             ResultsOwed, PointsFit, NewLoop
    <3>3. loop' \in LoopVars
      <4>1. loop.owed - 1 \in 0 .. MaxBatch /\ (loop.sent \/ SendsMessage) \in BOOLEAN
        BY <1>1, <2>1, LocalTypes, RunConstants
           DEF SendsMessage, LoopVars, ToolCall, CallPoints, Decisions, Results, Tools,
               ResultsOwed, PointsFit, NewLoop
      <4> QED
        BY <2>1, <4>1, LocalTypes DEF Answered, LoopVars
    <3> QED
      BY <3>1, <3>2, <3>3
  <2>2. TypeOK'
    BY <1>1, <1>2, <2>1, <2>21, NotedTypes, RunConstants
       DEF TablesFit, Noted, TypeOK, LoopVars, Points, CallPoints, SetupPoints, ToolCall,
           Results, Decisions, Tools, NewLoop, n
  <2>3. PointsFit'
    BY <1>1, <1>2, <2>1, <2>21, NotedTypes, RunConstants
       DEF TablesFit, Noted, PointsFit, CallPoints, Early, NewLoop
  <2>4. CallFits'
    BY <1>1, <1>2, <2>1, <2>21, NotedTypes, RunConstants
       DEF TablesFit, Noted, CallFits, PointsFit, CallPoints
  <2>5. RowsFit'
    BY <1>1, <1>2, <2>1, <2>21, NotedTypes, RunConstants
       DEF TablesFit, Noted, RowsFit, PointsFit, Through, CallFits
  <2>6. LimitKept'
    BY <1>1, <1>2, <2>1, <2>21, NotedTypes, RunConstants
       DEF TablesFit, Noted, LimitKept, PointsFit, Executed, NewLoop, Early
  <2>7. ResultsOwed'
    BY <1>1, <1>2, <2>1, <2>21, NotedTypes, RunConstants
       DEF TablesFit, Noted, ResultsOwed, PointsFit, CallPoints, NewLoop, Early
  <2>8. AnswerFits'
    <3>1. loop.sent \/ SendsMessage => answer # "owed"
      BY <1>1 DEF AnswerFits
    <3> QED
      BY <2>1, <2>21, <3>1 DEF AnswerFits
  <2>9. FailureStays'
    BY <1>1, <1>2, <2>1, <2>21, NotedTypes, RunConstants
       DEF TablesFit, Noted, FailureStays, PointsFit, Early, TypeOK
  <2>10. OutcomeFits'
    BY <1>1, <1>2, <2>1, <2>21, NotedTypes, RunConstants
       DEF TablesFit, Noted, OutcomeFits, PointsFit, Early, CallPoints, TypeOK, n
  <2>11. FinalsFit'
    BY <1>1, <1>2, <2>1, <2>21, NotedTypes, RunConstants
       DEF TablesFit, Noted, FinalsFit, FinalOutstanding, FinalRows, PointsFit, Early, CallPoints,
           TypeOK, NewLoop
  <2>12. SentFits'
    BY <1>1, <1>2, <2>1, <2>21, NotedTypes, RunConstants
       DEF TablesFit, Noted, SentFits, MessageIsOut, PointsFit, Early, CallPoints, TypeOK
  <2> QED
    BY <2>2, <2>3, <2>4, <2>5, <2>6, <2>7, <2>8, <2>9, <2>10, <2>11, <2>12
<1> QED
  BY <1>3, <1>4

\* The invariant is kept by sending the final message.
LEMMA SendFinalMessageInv == ASSUME RunInv, SendFinalMessage PROVE RunInv'
<1> USE DEF RunInv
<1>1. pc = "final" /\ pc \in AwaitPoints /\ Noted /\ n \in Nat /\ faults \in Nat
  BY RunConstants
     DEF SendFinalMessage, Await, Step, Noted, AwaitPoints, Points, SetupPoints, CallPoints, TypeOK,
         n
<1>2. TablesFit
  BY <1>1, NoEffectFits DEF SendFinalMessage, Await, Step, NoEffect
<1>3. CASE faults' # faults
  BY <1>1, <1>2, <1>3, RejectInv DEF SendFinalMessage, Await, Step, Rejected
<1>4. CASE faults' = faults
  <2>1. /\ faults' = faults /\ clean' = clean
        /\ answer' = answer
        /\ runs' = runs /\ rows' = rows
        /\ pc' = "evaluate"
        /\ loop' = loop /\ ends' = ends
        /\ call' = FinalCall
    BY <1>1, <1>4 DEF SendFinalMessage, NoEffect, tables, locals, Goto, EndAs, Await, Step
  <2>21. /\ call'.final /\ call'.decision = "allowed" /\ call'.result = "failed"
         /\ call'.tool = "message"
         /\ call' \in ToolCall /\ call' # None
    <3>1. /\ call'.final /\ call'.decision = "allowed" /\ call'.result = "failed"
          /\ call'.tool = "message"
      BY <1>1, <2>1, LocalTypes, RunConstants
         DEF FinalCall, SendsMessage, LoopVars, ToolCall, CallPoints, Decisions, Results, Tools,
             ResultsOwed, PointsFit, NewLoop
    <3>2. call' \in ToolCall /\ call' # None
      <4>1. call' \in ToolCall
        BY <1>1, <2>1, LocalTypes, RunConstants
           DEF FinalCall, SendsMessage, LoopVars, ToolCall, CallPoints, Decisions, Results,
               Tools, ResultsOwed, PointsFit, NewLoop
      <4> QED
        BY <4>1, NoneIsNoCall
    <3> QED
      BY <3>1, <3>2
  <2>2. TypeOK'
    BY <1>1, <1>2, <2>1, <2>21, NotedTypes, RunConstants
       DEF TablesFit, Noted, TypeOK, LoopVars, Points, CallPoints, SetupPoints, ToolCall,
           Results, Decisions, Tools, NewLoop, n
  <2>3. PointsFit'
    BY <1>1, <1>2, <2>1, <2>21, NotedTypes, RunConstants
       DEF TablesFit, Noted, PointsFit, CallPoints, Early, NewLoop
  <2>4. CallFits'
    BY <1>1, <1>2, <2>1, <2>21, NotedTypes, RunConstants
       DEF TablesFit, Noted, CallFits, PointsFit, CallPoints
  <2>5. RowsFit'
    BY <1>1, <1>2, <2>1, <2>21, NotedTypes, RunConstants
       DEF TablesFit, Noted, RowsFit, PointsFit, Through, CallFits
  <2>6. LimitKept'
    BY <1>1, <1>2, <2>1, <2>21, NotedTypes, RunConstants
       DEF TablesFit, Noted, LimitKept, PointsFit, Executed, NewLoop, Early
  <2>7. ResultsOwed'
    BY <1>1, <1>2, <2>1, <2>21, NotedTypes, RunConstants
       DEF TablesFit, Noted, ResultsOwed, PointsFit, CallPoints, NewLoop, Early
  <2>8. AnswerFits'
    BY <1>1, <1>2, <2>1, <2>21, NotedTypes, RunConstants
       DEF TablesFit, Noted, AnswerFits, SendsMessage, EndStatus, PointsFit, CallPoints, Early,
           NewLoop
  <2>9. FailureStays'
    BY <1>1, <1>2, <2>1, <2>21, NotedTypes, RunConstants
       DEF TablesFit, Noted, FailureStays, PointsFit, Early, TypeOK
  <2>10. OutcomeFits'
    BY <1>1, <1>2, <2>1, <2>21, NotedTypes, RunConstants
       DEF TablesFit, Noted, OutcomeFits, PointsFit, Early, CallPoints, TypeOK, n
  <2>11. FinalsFit'
    BY <1>1, <1>2, <2>1, <2>21, NotedTypes, RunConstants
       DEF TablesFit, Noted, FinalsFit, FinalOutstanding, FinalRows, PointsFit, Early, CallPoints,
           TypeOK, NewLoop
  <2>12. SentFits'
    BY <1>1, <1>2, <2>1, <2>21, NotedTypes, RunConstants
       DEF TablesFit, Noted, SentFits, MessageIsOut, PointsFit, Early, CallPoints, TypeOK
  <2> QED
    BY <2>2, <2>3, <2>4, <2>5, <2>6, <2>7, <2>8, <2>9, <2>10, <2>11, <2>12
<1> QED
  BY <1>3, <1>4

\* The invariant is kept by deciding on a call.
LEMMA EvaluateToolPermissionInv == ASSUME RunInv, EvaluateToolPermission PROVE RunInv'
<1> USE DEF RunInv
<1>1. pc = "evaluate" /\ pc \in AwaitPoints /\ Noted /\ n \in Nat /\ faults \in Nat
  BY RunConstants
     DEF EvaluateToolPermission, Await, Step, Noted, AwaitPoints, Points, SetupPoints, CallPoints,
         TypeOK, n
<1>2. TablesFit
  BY <1>1, NoEffectFits DEF EvaluateToolPermission, Await, Step, NoEffect
<1>3. CASE faults' # faults
  BY <1>1, <1>2, <1>3, RejectInv DEF EvaluateToolPermission, Await, Step, Rejected
<1>4. CASE faults' = faults
  <2>1. /\ faults' = faults /\ clean' = clean
        /\ answer' = answer
        /\ runs' = runs /\ rows' = rows
        /\ pc' = "row"
        /\ loop' = loop /\ ends' = ends
    BY <1>1, <1>4 DEF EvaluateToolPermission, NoEffect, tables, locals, Goto, EndAs, Await, Step
  <2>20. \E d \in Decisions : (call # None /\ call.final => d = "allowed") /\ call' = Decided(call, d)
    BY <1>1, <1>4 DEF EvaluateToolPermission, Await, Step
  <2>21. /\ call' \in ToolCall /\ call' # None
         /\ call'.final = call.final /\ call'.tool = call.tool
         /\ call.final => call'.decision = "allowed"
         /\ call'.result = IF call'.decision = "allowed" THEN "failed" ELSE call'.decision
    <3>1. call' \in ToolCall /\ call' # None
      <4>1. call' \in ToolCall
        BY <1>1, <2>1, <2>20, LocalTypes, RunConstants
           DEF Decided, SendsMessage, LoopVars, ToolCall, CallPoints, Decisions, Results, Tools,
               ResultsOwed, PointsFit, NewLoop
      <4> QED
        BY <4>1, NoneIsNoCall
    <3>2. call'.final = call.final /\ call'.tool = call.tool
      BY <1>1, <2>1, <2>20, LocalTypes, RunConstants
         DEF Decided, SendsMessage, LoopVars, ToolCall, CallPoints, Decisions, Results, Tools,
             ResultsOwed, PointsFit, NewLoop
    <3>3. call.final => call'.decision = "allowed"
      BY <1>1, <2>1, <2>20, LocalTypes, RunConstants
         DEF Decided, SendsMessage, LoopVars, ToolCall, CallPoints, Decisions, Results, Tools,
             ResultsOwed, PointsFit, NewLoop
    <3>4. call'.result = IF call'.decision = "allowed" THEN "failed" ELSE call'.decision
      BY <1>1, <2>1, <2>20, LocalTypes, RunConstants
         DEF Decided, SendsMessage, LoopVars, ToolCall, CallPoints, Decisions, Results, Tools,
             ResultsOwed, PointsFit, NewLoop
    <3> QED
      BY <3>1, <3>2, <3>3, <3>4
  <2>2. TypeOK'
    BY <1>1, <1>2, <2>1, <2>21, NotedTypes, RunConstants
       DEF TablesFit, Noted, TypeOK, LoopVars, Points, CallPoints, SetupPoints, ToolCall,
           Results, Decisions, Tools, NewLoop, n
  <2>3. PointsFit'
    BY <1>1, <1>2, <2>1, <2>21, NotedTypes, RunConstants
       DEF TablesFit, Noted, PointsFit, CallPoints, Early, NewLoop
  <2>4. CallFits'
    BY <1>1, <1>2, <2>1, <2>21, NotedTypes, RunConstants
       DEF TablesFit, Noted, CallFits, PointsFit, CallPoints
  <2>5. RowsFit'
    BY <1>1, <1>2, <2>1, <2>21, NotedTypes, RunConstants
       DEF TablesFit, Noted, RowsFit, PointsFit, Through, CallFits
  <2>6. LimitKept'
    <3>1. Executed' = Executed /\ Cardinality(Executed) \in Nat
      BY <2>1, ExecutedIsFinite DEF Executed
    <3> QED
      BY <1>1, <2>1, <2>21, <3>1, LocalTypes, RunConstants
         DEF LimitKept, PointsFit, LoopVars, CallPoints
  <2>7. ResultsOwed'
    BY <1>1, <1>2, <2>1, <2>21, NotedTypes, RunConstants
       DEF TablesFit, Noted, ResultsOwed, PointsFit, CallPoints, NewLoop, Early
  <2>8. AnswerFits'
    BY <1>1, <1>2, <2>1, <2>21, NotedTypes, RunConstants
       DEF TablesFit, Noted, AnswerFits, SendsMessage, EndStatus, PointsFit, CallPoints, Early,
           NewLoop
  <2>9. FailureStays'
    BY <1>1, <1>2, <2>1, <2>21, NotedTypes, RunConstants
       DEF TablesFit, Noted, FailureStays, PointsFit, Early, TypeOK
  <2>10. OutcomeFits'
    BY <1>1, <1>2, <2>1, <2>21, NotedTypes, RunConstants
       DEF TablesFit, Noted, OutcomeFits, PointsFit, Early, CallPoints, TypeOK, n
  <2>11. FinalsFit'
    BY <1>1, <1>2, <2>1, <2>21, NotedTypes, RunConstants
       DEF TablesFit, Noted, FinalsFit, FinalOutstanding, FinalRows, PointsFit, Early, CallPoints,
           TypeOK, NewLoop
  <2>12. SentFits'
    BY <1>1, <1>2, <2>1, <2>21, NotedTypes, RunConstants
       DEF TablesFit, Noted, SentFits, MessageIsOut, PointsFit, Early, CallPoints, TypeOK
  <2> QED
    BY <2>2, <2>3, <2>4, <2>5, <2>6, <2>7, <2>8, <2>9, <2>10, <2>11, <2>12
<1> QED
  BY <1>3, <1>4

\* The invariant is kept by the row of a call.
LEMMA RecordToolCallInv == ASSUME RunInv, RecordToolCall PROVE RunInv'
<1> USE DEF RunInv
<1>1. pc = "row" /\ pc \in AwaitPoints /\ Noted /\ n \in Nat /\ faults \in Nat
  BY RunConstants
     DEF RecordToolCall, Await, Step, Noted, AwaitPoints, Points, SetupPoints, CallPoints, TypeOK, n
<1> DEFINE r == [tool |-> call.tool, final |-> call.final, ran |-> FALSE,
                  status |-> InitialToolCallStatus, audited |-> FALSE]
<1>5. call \in ToolCall /\ call.decision \in Decisions
  BY <1>1 DEF PointsFit, CallPoints, TypeOK, ToolCall
<1>6. r \in CallRow /\ r.final = call.final /\ ~r.ran /\ r.status = InitialToolCallStatus
  BY <1>5 DEF CallRow, ToolCall, InitialToolCallStatus, Decisions, Results
<1> HIDE DEF r
<1>7. (runs' = runs /\ rows' = Append(rows, r)) \/ UNCHANGED tables
  BY DEF RecordToolCall, Await, Step, r
<1>2. TablesFit
  BY <1>1, <1>6, <1>7, AddRowFits, NoEffectFits
<1>3. CASE faults' # faults
  BY <1>1, <1>2, <1>3, RejectInv DEF RecordToolCall, Await, Step, Rejected
<1>4. CASE faults' = faults
  <2>0. runs' = runs /\ rows' = Append(rows, r)
    BY <1>1, <1>4 DEF RecordToolCall, Await, Step, r
  <2>1. /\ faults' = faults /\ clean' = clean
        /\ answer' = answer
        /\ runs' = runs /\ Len(rows') = Len(rows) + 1 /\ \A i \in DOMAIN rows : rows'[i] = rows[i]
        /\ ~rows'[Len(rows')].ran /\ rows'[Len(rows')].status = InitialToolCallStatus
        /\ Cardinality(Executed') <= IF call.final THEN Cardinality(Executed) ELSE loop.used
        /\ FinalRows' = IF call.final THEN FinalRows \cup {Len(rows')} ELSE FinalRows
        /\ pc' = AfterRow
        /\ call' = call /\ loop' = loop /\ ends' = ends
    <3>1. faults' = faults /\ clean' = clean
      BY <1>1, <1>4, <1>6, <2>0, AddRowFits
         DEF RecordToolCall, AfterRow, InitialToolCallStatus, tables, locals, Goto, EndAs,
             Await, Step
    <3>2. runs' = runs /\ Len(rows') = Len(rows) + 1 /\ \A i \in DOMAIN rows : rows'[i] = rows[i]
      BY <1>1, <1>4, <1>6, <2>0, AddRowFits
         DEF RecordToolCall, AfterRow, InitialToolCallStatus, tables, locals, Goto, EndAs,
             Await, Step
    <3>3. ~rows'[Len(rows')].ran /\ rows'[Len(rows')].status = InitialToolCallStatus
      BY <1>1, <1>4, <1>6, <2>0, AddRowFits
         DEF RecordToolCall, AfterRow, InitialToolCallStatus, tables, locals, Goto, EndAs,
             Await, Step
    <3>4. Cardinality(Executed') <= IF call.final THEN Cardinality(Executed) ELSE loop.used
      BY <1>1, <1>4, <1>6, <2>0, AddRowFits
         DEF RecordToolCall, AfterRow, InitialToolCallStatus, tables, locals, Goto, EndAs,
             Await, Step
    <3>5. pc' = AfterRow
      BY <1>1, <1>4, <1>6, <2>0, AddRowFits
         DEF RecordToolCall, AfterRow, InitialToolCallStatus, tables, locals, Goto, EndAs,
             Await, Step
    <3>6. call' = call /\ loop' = loop /\ ends' = ends
      BY <1>1, <1>4, <1>6, <2>0, AddRowFits
         DEF RecordToolCall, AfterRow, InitialToolCallStatus, tables, locals, Goto, EndAs,
             Await, Step
    <3>7. answer' = answer
      BY <1>1, <1>4 DEF RecordToolCall, Await, Step
    <3>8. FinalRows' = IF call.final THEN FinalRows \cup {Len(rows')} ELSE FinalRows
      BY <1>1, <1>6, <2>0, AddRowFits
    <3> QED
      BY <3>1, <3>2, <3>3, <3>4, <3>5, <3>6, <3>7, <3>8
  <2>2. TypeOK'
    BY <1>1, <1>2, <2>1, NotedTypes, RunConstants
       DEF TablesFit, Noted, TypeOK, LoopVars, Points, CallPoints, SetupPoints, ToolCall,
           Results, Decisions, Tools, NewLoop, n, AfterRow, InitialToolCallStatus, Decisions
  <2>3. PointsFit'
    BY <1>1, <1>2, <2>1, NotedTypes, RunConstants
       DEF TablesFit, Noted, PointsFit, CallPoints, Early, NewLoop, AfterRow,
           InitialToolCallStatus, Decisions
  <2>4. CallFits'
    BY <1>1, <1>2, <2>1, NotedTypes, RunConstants
       DEF TablesFit, Noted, CallFits, PointsFit, CallPoints, AfterRow, InitialToolCallStatus,
           Decisions
  <2>5. RowsFit'
    <3>1. /\ rows' # <<>> /\ Len(rows') \in DOMAIN rows' /\ Len(rows') \in Nat
          /\ DOMAIN rows' = DOMAIN rows \cup {Len(rows')}
          /\ \A i \in DOMAIN rows : rows'[i] = rows[i] /\ i < Len(rows')
      <4>1. rows \in Seq(CallRow) /\ rows' \in Seq(CallRow)
        BY <1>2 DEF TablesFit, TypeOK
      <4> QED
        BY <2>1, <4>1
    <3>2. call.decision \in Decisions
      BY <1>1, LocalTypes DEF CallPoints, ToolCall
    <3>3. \A i \in DOMAIN rows' :
            rows'[i].status \in {"needs_confirmation", "permission_denied"} => ~rows'[i].ran
      BY <1>2 DEF TablesFit
    <3>4. rows'[Len(rows')].status =
            IF call.decision = "allowed" THEN "running" ELSE call.decision
      BY <2>1 DEF InitialToolCallStatus
    <3>5. clean' => \A i \in DOMAIN rows : Through(rows'[i])
      BY <1>1, <2>1, <3>1 DEF RowsFit, Through
    <3>6. pc' = IF call.decision = "allowed" THEN "execute"
                ELSE IF call.decision = "needs_confirmation" THEN "pend" ELSE "audit"
      BY <2>1 DEF AfterRow
    <3>7. ASSUME NEW i \in DOMAIN rows', i < Len(rows')
          PROVE  clean' => Through(rows'[i])
      <4>0. Len(rows') \in Nat
        BY <3>1
      <4>1. i # Len(rows')
        BY <4>0, <3>7
      <4>2. i \in DOMAIN rows
        BY <3>1, <4>1
      <4> QED
        BY <3>5, <4>2
    <3>8. pc' \in {"execute", "pend", "audit"} /\ pc' # "settle"
      BY <3>6
    <3>9. pc' = "audit" => rows'[Len(rows')].status # "running"
      BY <3>2, <3>4, <3>6 DEF Decisions
    <3> QED
      BY <2>1, <3>1, <3>3, <3>4, <3>6, <3>7, <3>8, <3>9, <1>1 DEF RowsFit, Through, Decisions
  <2>6. LimitKept'
    BY <1>1, <1>2, <2>1, NotedTypes, RunConstants
       DEF TablesFit, Noted, LimitKept, PointsFit, Executed, NewLoop, Early, AfterRow,
           InitialToolCallStatus, Decisions
  <2>7. ResultsOwed'
    BY <1>1, <1>2, <2>1, NotedTypes, RunConstants
       DEF TablesFit, Noted, ResultsOwed, PointsFit, CallPoints, NewLoop, Early, AfterRow,
           InitialToolCallStatus, Decisions
  <2>8. AnswerFits'
    BY <1>1, <1>2, <1>5, <2>1, NotedTypes, RunConstants
       DEF TablesFit, Noted, AnswerFits, CallFits, SendsMessage, EndStatus, PointsFit, CallPoints,
           Early, NewLoop, AfterRow,
           InitialToolCallStatus, Decisions
  <2>9. FailureStays'
    BY <1>1, <1>2, <2>1, NotedTypes, RunConstants
       DEF TablesFit, Noted, FailureStays, PointsFit, Early, TypeOK, AfterRow,
           InitialToolCallStatus, Decisions
  <2>10. OutcomeFits'
    BY <1>1, <1>2, <2>1, NotedTypes, RunConstants
       DEF TablesFit, Noted, OutcomeFits, PointsFit, Early, CallPoints, TypeOK, n, AfterRow,
           InitialToolCallStatus, Decisions
  <2>11. FinalsFit'
    BY <1>1, <1>2, <2>1, NotedTypes, RunConstants
       DEF TablesFit, Noted, FinalsFit, FinalOutstanding, FinalRows, PointsFit, Early, CallPoints,
           TypeOK, NewLoop, AfterRow, InitialToolCallStatus, Decisions
  <2>12. SentFits'
    BY <1>1, <1>2, <2>1, NotedTypes, RunConstants
       DEF TablesFit, Noted, SentFits, MessageIsOut, PointsFit, Early, CallPoints, TypeOK, AfterRow,
           InitialToolCallStatus, Decisions
  <2> QED
    BY <2>2, <2>3, <2>4, <2>5, <2>6, <2>7, <2>8, <2>9, <2>10, <2>11, <2>12
<1> QED
  BY <1>3, <1>4

\* The invariant is kept by asking for a confirmation.
LEMMA CreatePendingActionInv == ASSUME RunInv, CreatePendingAction PROVE RunInv'
<1> USE DEF RunInv
<1>1. pc = "pend" /\ pc \in AwaitPoints /\ Noted /\ n \in Nat /\ faults \in Nat
  BY RunConstants
     DEF CreatePendingAction, Await, Step, Noted, AwaitPoints, Points, SetupPoints, CallPoints,
         TypeOK, n
<1>2. TablesFit
  BY <1>1, NoEffectFits DEF CreatePendingAction, Await, Step, NoEffect
<1>3. CASE faults' # faults
  BY <1>1, <1>2, <1>3, RejectInv DEF CreatePendingAction, Await, Step, Rejected
<1>4. CASE faults' = faults
  <2>1. /\ faults' = faults /\ clean' = clean
        /\ answer' = answer
        /\ runs' = runs /\ rows' = rows
        /\ pc' = "settle"
        /\ call' = call /\ loop' = loop /\ ends' = ends
    BY <1>1, <1>4 DEF CreatePendingAction, NoEffect, tables, locals, Goto, EndAs, Await, Step
  <2>2. TypeOK'
    BY <1>1, <1>2, <2>1, NotedTypes, RunConstants
       DEF TablesFit, Noted, TypeOK, LoopVars, Points, CallPoints, SetupPoints, ToolCall,
           Results, Decisions, Tools, NewLoop, n
  <2>3. PointsFit'
    BY <1>1, <1>2, <2>1, NotedTypes, RunConstants
       DEF TablesFit, Noted, PointsFit, CallPoints, Early, NewLoop
  <2>4. CallFits'
    BY <1>1, <1>2, <2>1, NotedTypes, RunConstants
       DEF TablesFit, Noted, CallFits, PointsFit, CallPoints
  <2>5. RowsFit'
    BY <1>1, <1>2, <2>1, NotedTypes, RunConstants
       DEF TablesFit, Noted, RowsFit, PointsFit, Through, CallFits
  <2>6. LimitKept'
    BY <1>1, <1>2, <2>1, NotedTypes, RunConstants
       DEF TablesFit, Noted, LimitKept, PointsFit, Executed, NewLoop, Early
  <2>7. ResultsOwed'
    BY <1>1, <1>2, <2>1, NotedTypes, RunConstants
       DEF TablesFit, Noted, ResultsOwed, PointsFit, CallPoints, NewLoop, Early
  <2>8. AnswerFits'
    BY <1>1, <1>2, <2>1, NotedTypes, RunConstants
       DEF TablesFit, Noted, AnswerFits, CallFits, SendsMessage, EndStatus, PointsFit, CallPoints,
           Early, NewLoop
  <2>9. FailureStays'
    BY <1>1, <1>2, <2>1, NotedTypes, RunConstants
       DEF TablesFit, Noted, FailureStays, PointsFit, Early, TypeOK
  <2>10. OutcomeFits'
    BY <1>1, <1>2, <2>1, NotedTypes, RunConstants
       DEF TablesFit, Noted, OutcomeFits, PointsFit, Early, CallPoints, TypeOK, n
  <2>11. FinalsFit'
    BY <1>1, <1>2, <2>1, NotedTypes, RunConstants
       DEF TablesFit, Noted, FinalsFit, FinalOutstanding, FinalRows, PointsFit, Early, CallPoints,
           TypeOK, NewLoop
  <2>12. SentFits'
    BY <1>1, <1>2, <2>1, NotedTypes, RunConstants
       DEF TablesFit, Noted, SentFits, MessageIsOut, PointsFit, Early, CallPoints, TypeOK
  <2> QED
    BY <2>2, <2>3, <2>4, <2>5, <2>6, <2>7, <2>8, <2>9, <2>10, <2>11, <2>12
<1> QED
  BY <1>3, <1>4

\* The invariant is kept by a call's status.
LEMMA CompleteToolCallInv == ASSUME RunInv, CompleteToolCall PROVE RunInv'
<1> USE DEF RunInv
<1>1. pc = "settle" /\ pc \in AwaitPoints /\ Noted /\ n \in Nat /\ faults \in Nat
  BY RunConstants
     DEF CompleteToolCall, Await, Step, Noted, AwaitPoints, Points, SetupPoints, CallPoints, TypeOK,
         n
<1> DEFINE r == [rows[Len(rows)] EXCEPT !.status = call.result]
<1>5. rows # <<>> /\ Len(rows) \in DOMAIN rows /\ rows[Len(rows)] \in CallRow /\ call \in ToolCall
  BY <1>1 DEF RowsFit, PointsFit, CallPoints, TypeOK
<1>6. /\ r \in CallRow /\ r.status = call.result /\ r.audited = rows[Len(rows)].audited
      /\ r.final = rows[Len(rows)].final /\ r.ran = rows[Len(rows)].ran
      /\ r.status \in {"needs_confirmation", "permission_denied"} => ~r.ran
  BY <1>1, <1>5 DEF CallRow, ToolCall, CallFits, RowsFit, Results
<1> HIDE DEF r
<1>7. SetRow(r) \/ UNCHANGED tables
  BY <1>1 DEF CompleteToolCall, Await, Step, r
<1>2. TablesFit
  BY <1>1, <1>5, <1>6, <1>7, SetRowFits
<1>3. CASE faults' # faults
  BY <1>1, <1>2, <1>3, RejectInv DEF CompleteToolCall, Await, Step, Rejected
<1>4. CASE faults' = faults
  <2>0. SetRow(r) /\ runs' = runs
    BY <1>1, <1>4 DEF CompleteToolCall, Await, Step, SetRow, r
  <2>1. /\ faults' = faults /\ clean' = clean
        /\ answer' = IF call.final /\ call.result # "success" THEN "noted" ELSE answer
        /\ runs' = runs /\ Len(rows') = Len(rows) /\ rows # <<>> /\ Executed' = Executed
        /\ FinalRows' = FinalRows
        /\ \A i \in DOMAIN rows \ {Len(rows)} : rows'[i] = rows[i]
        /\ rows'[Len(rows)].status = call.result /\ rows'[Len(rows)].ran = rows[Len(rows)].ran
        /\ rows'[Len(rows)].audited = rows[Len(rows)].audited
        /\ pc' = IF call.decision = "permission_denied" THEN "completed_step" ELSE "audit"
        /\ call' = call /\ loop' = loop /\ ends' = ends
    BY <1>1, <1>4, <1>5, <1>6, <2>0, SetRowFits
       DEF CompleteToolCall, tables, locals, Goto, EndAs, Await, Step
  <2>2. TypeOK'
    BY <1>1, <1>2, <2>1, NotedTypes, RunConstants
       DEF TablesFit, Noted, TypeOK, LoopVars, Points, CallPoints, SetupPoints, ToolCall,
           Results, Decisions, Tools, NewLoop, n
  <2>3. PointsFit'
    BY <1>1, <1>2, <2>1, NotedTypes, RunConstants
       DEF TablesFit, Noted, PointsFit, CallPoints, Early, NewLoop
  <2>4. CallFits'
    BY <1>1, <1>2, <2>1, NotedTypes, RunConstants
       DEF TablesFit, Noted, CallFits, PointsFit, CallPoints
  <2>5. RowsFit'
    <3>1. rows' \in Seq(CallRow) /\ DOMAIN rows' = DOMAIN rows /\ Len(rows) \in DOMAIN rows
      BY <1>2, <1>5, <2>1 DEF TablesFit, TypeOK
    <3>2. \A i \in DOMAIN rows' :
            rows'[i].status \in {"needs_confirmation", "permission_denied"} => ~rows'[i].ran
      BY <1>2 DEF TablesFit
    <3>3. call.result # "running" /\ call.decision \in Decisions
      BY <1>5 DEF ToolCall, Results
    <3>4. call.decision # "allowed" => call.result = call.decision /\ ~rows[Len(rows)].ran
      BY <1>1 DEF CallFits, RowsFit
    <3>5. clean => \A i \in DOMAIN rows : i < Len(rows) => Through(rows'[i])
      BY <1>1, <2>1, <3>1 DEF RowsFit, Through
    <3>6. clean /\ call.decision = "permission_denied" => Through(rows'[Len(rows)])
      BY <1>1, <2>1, <3>3 DEF RowsFit, Through
    <3>7. \A i \in DOMAIN rows : i < Len(rows) \/ i = Len(rows)
      BY <3>1, <1>5 DEF TypeOK
    <3> QED
      BY <1>5, <2>1, <3>1, <3>2, <3>3, <3>4, <3>5, <3>6, <3>7 DEF RowsFit, Decisions
  <2>6. LimitKept'
    BY <1>1, <1>2, <2>1, NotedTypes, RunConstants
       DEF TablesFit, Noted, LimitKept, PointsFit, Executed, NewLoop, Early
  <2>7. ResultsOwed'
    BY <1>1, <1>2, <2>1, NotedTypes, RunConstants
       DEF TablesFit, Noted, ResultsOwed, PointsFit, CallPoints, NewLoop, Early
  <2>8. AnswerFits'
    BY <1>1, <1>2, <2>1, NotedTypes, RunConstants
       DEF TablesFit, Noted, AnswerFits, SendsMessage, EndStatus, PointsFit, CallPoints, Early,
           NewLoop
  <2>9. FailureStays'
    BY <1>1, <1>2, <2>1, NotedTypes, RunConstants
       DEF TablesFit, Noted, FailureStays, PointsFit, Early, TypeOK
  <2>10. OutcomeFits'
    BY <1>1, <1>2, <2>1, NotedTypes, RunConstants
       DEF TablesFit, Noted, OutcomeFits, PointsFit, Early, CallPoints, TypeOK, n
  <2>11. FinalsFit'
    BY <1>1, <1>2, <2>1, NotedTypes, RunConstants
       DEF TablesFit, Noted, FinalsFit, FinalOutstanding, FinalRows, PointsFit, Early, CallPoints,
           TypeOK, NewLoop
  <2>12. SentFits'
    BY <1>1, <1>2, <2>1, NotedTypes, RunConstants
       DEF TablesFit, Noted, SentFits, MessageIsOut, PointsFit, Early, CallPoints, TypeOK
  <2> QED
    BY <2>2, <2>3, <2>4, <2>5, <2>6, <2>7, <2>8, <2>9, <2>10, <2>11, <2>12
<1> QED
  BY <1>3, <1>4

\* The invariant is kept by a call's audit entry.
LEMMA AppendAuditLogInv == ASSUME RunInv, AppendAuditLog PROVE RunInv'
<1> USE DEF RunInv
<1>1. pc = "audit" /\ pc \in AwaitPoints /\ Noted /\ n \in Nat /\ faults \in Nat
  BY RunConstants
     DEF AppendAuditLog, Await, Step, Noted, AwaitPoints, Points, SetupPoints, CallPoints, TypeOK, n
<1> DEFINE r == [rows[Len(rows)] EXCEPT !.audited = TRUE]
<1>5. rows # <<>> /\ Len(rows) \in DOMAIN rows /\ rows[Len(rows)] \in CallRow /\ call \in ToolCall
  BY <1>1 DEF RowsFit, PointsFit, CallPoints, TypeOK
<1>6. /\ r \in CallRow /\ r.status = rows[Len(rows)].status /\ r.audited
      /\ r.final = rows[Len(rows)].final /\ r.ran = rows[Len(rows)].ran
      /\ r.status \in {"needs_confirmation", "permission_denied"} => ~r.ran
  BY <1>1, <1>5 DEF CallRow, RowsFit, TypeOK
<1> HIDE DEF r
<1>7. SetRow(r) \/ UNCHANGED tables
  BY <1>1 DEF AppendAuditLog, Await, Step, r
<1>2. TablesFit
  BY <1>1, <1>5, <1>6, <1>7, SetRowFits
<1>3. CASE faults' # faults
  BY <1>1, <1>2, <1>3, RejectInv DEF AppendAuditLog, Await, Step, Rejected
<1>4. CASE faults' = faults
  <2>0. SetRow(r) /\ runs' = runs
    BY <1>1, <1>4 DEF AppendAuditLog, Await, Step, SetRow, r
  <2>1. /\ faults' = faults /\ clean' = clean
        /\ answer' = answer
        /\ runs' = runs /\ Len(rows') = Len(rows) /\ rows # <<>> /\ Executed' = Executed
        /\ FinalRows' = FinalRows
        /\ \A i \in DOMAIN rows \ {Len(rows)} : rows'[i] = rows[i]
        /\ rows'[Len(rows)].audited /\ rows'[Len(rows)].ran = rows[Len(rows)].ran
        /\ rows'[Len(rows)].status = rows[Len(rows)].status
        /\ pc' = IF call.decision = "permission_denied" THEN "settle" ELSE "completed_step"
        /\ call' = call /\ loop' = loop /\ ends' = ends
    BY <1>1, <1>4, <1>5, <1>6, <2>0, SetRowFits
       DEF AppendAuditLog, tables, locals, Goto, EndAs, Await, Step
  <2>2. TypeOK'
    BY <1>1, <1>2, <2>1, NotedTypes, RunConstants
       DEF TablesFit, Noted, TypeOK, LoopVars, Points, CallPoints, SetupPoints, ToolCall,
           Results, Decisions, Tools, NewLoop, n
  <2>3. PointsFit'
    BY <1>1, <1>2, <2>1, NotedTypes, RunConstants
       DEF TablesFit, Noted, PointsFit, CallPoints, Early, NewLoop
  <2>4. CallFits'
    BY <1>1, <1>2, <2>1, NotedTypes, RunConstants
       DEF TablesFit, Noted, CallFits, PointsFit, CallPoints
  <2>5. RowsFit'
    BY <1>1, <1>2, <2>1, NotedTypes, RunConstants
       DEF TablesFit, Noted, RowsFit, PointsFit, Through, CallFits
  <2>6. LimitKept'
    BY <1>1, <1>2, <2>1, NotedTypes, RunConstants
       DEF TablesFit, Noted, LimitKept, PointsFit, Executed, NewLoop, Early
  <2>7. ResultsOwed'
    BY <1>1, <1>2, <2>1, NotedTypes, RunConstants
       DEF TablesFit, Noted, ResultsOwed, PointsFit, CallPoints, NewLoop, Early
  <2>8. AnswerFits'
    BY <1>1, <1>2, <2>1, NotedTypes, RunConstants
       DEF TablesFit, Noted, AnswerFits, CallFits, SendsMessage, EndStatus, PointsFit, CallPoints,
           Early, NewLoop
  <2>9. FailureStays'
    BY <1>1, <1>2, <2>1, NotedTypes, RunConstants
       DEF TablesFit, Noted, FailureStays, PointsFit, Early, TypeOK
  <2>10. OutcomeFits'
    BY <1>1, <1>2, <2>1, NotedTypes, RunConstants
       DEF TablesFit, Noted, OutcomeFits, PointsFit, Early, CallPoints, TypeOK, n
  <2>11. FinalsFit'
    BY <1>1, <1>2, <2>1, NotedTypes, RunConstants
       DEF TablesFit, Noted, FinalsFit, FinalOutstanding, FinalRows, PointsFit, Early, CallPoints,
           TypeOK, NewLoop
  <2>12. SentFits'
    BY <1>1, <1>2, <2>1, NotedTypes, RunConstants
       DEF TablesFit, Noted, SentFits, MessageIsOut, PointsFit, Early, CallPoints, TypeOK
  <2> QED
    BY <2>2, <2>3, <2>4, <2>5, <2>6, <2>7, <2>8, <2>9, <2>10, <2>11, <2>12
<1> QED
  BY <1>3, <1>4

\* The invariant is kept by the end of the final message.
LEMMA FinishFinalMessageInv == ASSUME RunInv, FinishFinalMessage PROVE RunInv'
<1> USE DEF RunInv
<1>1. pc = "completed_step" /\ pc \in AwaitPoints /\ Noted /\ n \in Nat /\ faults \in Nat
  BY RunConstants
     DEF FinishFinalMessage, Await, Step, Noted, AwaitPoints, Points, SetupPoints, CallPoints,
         TypeOK,
         n
<1>2. TablesFit
  BY <1>1, NoEffectFits DEF FinishFinalMessage, Await, Step, NoEffect
<1>3. CASE faults' # faults
  BY <1>1, <1>2, <1>3, RejectInv DEF FinishFinalMessage, Await, Step, Rejected
<1>4. CASE faults' = faults
  <2>1. /\ faults' = faults /\ clean' = clean
        /\ answer' = answer
        /\ runs' = runs /\ rows' = rows
        /\ call # None /\ call.final
        /\ pc' = AfterFinal /\ call' = None
        /\ loop' = loop /\ ends' = ends
    BY <1>1, <1>4
       DEF FinishFinalMessage, AfterFinal, NoEffect, tables, locals, Goto, EndAs, Await, Step
  <2>2. TypeOK'
    BY <1>1, <1>2, <2>1, NotedTypes, RunConstants
       DEF TablesFit, Noted, TypeOK, LoopVars, Points, CallPoints, SetupPoints, ToolCall,
           Results, Decisions, Tools, NewLoop, n, AfterFinal, EndStatus
  <2>3. PointsFit'
    BY <1>1, <1>2, <2>1, NotedTypes, RunConstants
       DEF TablesFit, Noted, PointsFit, CallPoints, Early, NewLoop, AfterFinal, EndStatus
  <2>4. CallFits'
    BY <1>1, <1>2, <2>1, NotedTypes, RunConstants
       DEF TablesFit, Noted, CallFits, PointsFit, CallPoints, AfterFinal, EndStatus
  <2>5. RowsFit'
    BY <1>1, <1>2, <2>1, NotedTypes, RunConstants
       DEF TablesFit, Noted, RowsFit, PointsFit, Through, CallFits, AfterFinal, EndStatus
  <2>6. LimitKept'
    BY <1>1, <1>2, <2>1, NotedTypes, RunConstants
       DEF TablesFit, Noted, LimitKept, PointsFit, Executed, NewLoop, Early, AfterFinal,
           EndStatus
  <2>7. ResultsOwed'
    BY <1>1, <1>2, <2>1, NotedTypes, RunConstants
       DEF TablesFit, Noted, ResultsOwed, PointsFit, CallPoints, NewLoop, Early, AfterFinal,
           EndStatus
  <2>8. AnswerFits'
    BY <1>1, <1>2, <2>1, NotedTypes, RunConstants
       DEF TablesFit, Noted, AnswerFits, SendsMessage, EndStatus, PointsFit, CallPoints, Early,
           NewLoop, AfterFinal,
           EndStatus
  <2>9. FailureStays'
    BY <1>1, <1>2, <2>1, NotedTypes, RunConstants
       DEF TablesFit, Noted, FailureStays, PointsFit, Early, TypeOK, AfterFinal, EndStatus
  <2>10. OutcomeFits'
    BY <1>1, <1>2, <2>1, NotedTypes, RunConstants
       DEF TablesFit, Noted, OutcomeFits, PointsFit, Early, CallPoints, TypeOK, n, AfterFinal,
           EndStatus
  <2>11. FinalsFit'
    BY <1>1, <1>2, <2>1, NotedTypes, RunConstants
       DEF TablesFit, Noted, FinalsFit, FinalOutstanding, FinalRows, PointsFit, Early, CallPoints,
           TypeOK, NewLoop, AfterFinal, EndStatus
  <2>12. SentFits'
    BY <1>1, <1>2, <2>1, NotedTypes, RunConstants
       DEF TablesFit, Noted, SentFits, MessageIsOut, PointsFit, Early, CallPoints, TypeOK,
           AfterFinal, EndStatus
  <2> QED
    BY <2>2, <2>3, <2>4, <2>5, <2>6, <2>7, <2>8, <2>9, <2>10, <2>11, <2>12
<1> QED
  BY <1>3, <1>4

-----------------------------------------------------------------------------
\* Steps that are no awaits.

\* The invariant is kept by executing a tool.
LEMMA ExecuteToolInv == ASSUME RunInv, ExecuteTool PROVE RunInv'
<1> USE DEF RunInv
<1>1. pc = "execute" /\ pc' = "settle" /\ loop' = loop /\ ends' = ends /\ faults' = faults
  BY DEF ExecuteTool
<1>2. event' = event /\ attempts' = attempts /\ clean' = clean /\ cut' = cut
  BY DEF ExecuteTool
<1>3. PICK ran \in BOOLEAN, result \in {"success", "failed"} :
        /\ result = "success" => ran
        /\ SetRow([rows[Len(rows)] EXCEPT !.ran = ran])
        /\ call' = [call EXCEPT !.result = result]
        /\ answer' = IF call.tool = "message" /\ ran THEN "told" ELSE answer
        /\ sent' = IF call.final /\ ran THEN sent + 1 ELSE sent
  BY DEF ExecuteTool
<1> DEFINE r == [rows[Len(rows)] EXCEPT !.ran = ran]
<1>4. rows # <<>> /\ Len(rows) \in DOMAIN rows /\ rows[Len(rows)] \in CallRow
  BY <1>1 DEF RowsFit, TypeOK
<1>5. rows[Len(rows)].status = "running" /\ call.decision = "allowed"
  BY <1>1 DEF RowsFit, CallFits
<1>6. call \in ToolCall /\ call # None
  BY <1>1, LocalTypes DEF CallPoints
<1>7. /\ call' \in ToolCall /\ call'.final = call.final /\ call'.decision = "allowed"
      /\ call'.result = result /\ call'.tool = call.tool
  BY <1>3, <1>5, <1>6 DEF ToolCall, Results
<1>8. call' # None
  BY <1>7, NoneIsNoCall
<1>9. r \in CallRow /\ r.final = rows[Len(rows)].final /\ r.status = "running"
  BY <1>4, <1>5 DEF CallRow
<1> HIDE DEF r
<1>10. SetRow(r)
  BY <1>3 DEF r
<1>11. TablesFit /\ Executed' = Executed /\ FinalRows' = FinalRows /\ Len(rows') = Len(rows)
       /\ \A i \in DOMAIN rows \ {Len(rows)} : rows'[i] = rows[i]
  BY <1>4, <1>9, <1>10, SetRowFits
<1>12. runs' = runs /\ n' = n
  BY <1>10 DEF SetRow, n
<1>13. TypeOK'
  <2>1. sent' \in Nat /\ answer' \in {"owed", "told", "noted"}
    BY <1>3 DEF TypeOK
  <2> QED
    BY <1>1, <1>2, <1>7, <1>11, <1>12, <2>1 DEF TypeOK, TablesFit, Points, CallPoints
<1>14. PointsFit'
  BY <1>1, <1>2, <1>7, <1>8, <1>12 DEF PointsFit, CallPoints, Early
<1>15. CallFits'
  BY <1>1, <1>7 DEF CallFits
<1>16. RowsFit'
  <2>1. rows' \in Seq(CallRow) /\ rows' # <<>> /\ DOMAIN rows' = DOMAIN rows
    BY <1>4, <1>11 DEF TablesFit, TypeOK
  <2>2. clean => \A i \in DOMAIN rows : i < Len(rows) => Through(rows'[i])
    BY <1>1, <1>4, <1>11 DEF RowsFit, Through
  <2>3. \A i \in DOMAIN rows : i < Len(rows) \/ i = Len(rows)
    BY DEF TypeOK
  <2> QED
    BY <1>1, <1>2, <1>7, <1>11, <2>1, <2>2, <2>3 DEF RowsFit, TablesFit
<1>17. LimitKept' /\ ResultsOwed'
  BY <1>1, <1>6, <1>7, <1>8, <1>11 DEF LimitKept, ResultsOwed
<1>18. AnswerFits'
  <2>1. call'.tool = "message" /\ result = "success" => answer' = "told"
    BY <1>3, <1>7
  <2>2. SendsMessage' => answer' = "told"
    BY <1>7, <2>1 DEF SendsMessage
  <2>3. loop.sent => answer' # "owed"
    BY <1>1, <1>3 DEF AnswerFits
  <2> QED
    BY <1>1, <1>6, <1>7, <2>2, <2>3 DEF AnswerFits
<1>19. FailureStays' /\ OutcomeFits'
  BY <1>1, <1>2, <1>12 DEF FailureStays, OutcomeFits
<1>20. FinalsFit'
  BY <1>1, <1>6, <1>7, <1>8, <1>11 DEF FinalsFit, FinalOutstanding
<1>21. SentFits'
  <2>1. sent \in Nat /\ faults \in Nat /\ ~MessageIsOut
    BY <1>1, <1>6 DEF TypeOK, MessageIsOut, PointsFit
  <2>2. sent <= faults
    BY <2>1 DEF SentFits
  <2>3. CASE call.final
    BY <1>1, <1>3, <1>7, <2>1, <2>2, <2>3 DEF SentFits, MessageIsOut
  <2>4. CASE ~call.final
    BY <1>1, <1>3, <2>1, <2>2, <2>4 DEF SentFits
  <2> QED
    BY <2>3, <2>4
<1> QED
  BY <1>13, <1>14, <1>15, <1>16, <1>17, <1>18, <1>19, <1>20, <1>21

\* The start of a handler keeps the invariant.
LEMMA StartRunInv == ASSUME RunInv, StartRun PROVE RunInv'
<1> USE DEF RunInv
<1>1. /\ pc = "idle" /\ pc' = "store" /\ runs' = runs /\ rows' = rows /\ call' = call
      /\ loop' = loop /\ ends' = ends /\ faults' = faults /\ sent' = sent /\ cut' = cut
      /\ clean' = TRUE /\ answer' = "owed" /\ event = "pending" /\ event' = "handling"
      /\ attempts' = attempts + 1
      /\ attempts < MaxAttempts
  BY DEF StartRun, tables, locals
<1>2. TypeOK'
  BY <1>1, RunConstants DEF TypeOK, Points, SetupPoints
<1>3. PointsFit' /\ CallFits' /\ ResultsOwed'
  BY <1>1, RunConstants DEF PointsFit, CallFits, ResultsOwed, CallPoints, Early, n
<1>4. RowsFit' /\ LimitKept'
  BY <1>1 DEF RowsFit, LimitKept, Executed, PointsFit, Early, CallPoints
<1>5. AnswerFits' /\ FailureStays' /\ OutcomeFits'
  BY <1>1 DEF AnswerFits, FailureStays, OutcomeFits, PointsFit, Early, CallPoints, NewLoop, n
<1>6. FinalsFit' /\ SentFits'
  BY <1>1
     DEF FinalsFit, FinalOutstanding, FinalRows, SentFits, MessageIsOut, PointsFit, Early,
         CallPoints
<1> QED
  BY <1>2, <1>3, <1>4, <1>5, <1>6

\* The end of a try leaves the runs, and nothing else.
LEMMA EndTryInv ==
  ASSUME RunInv, EndTry, event' \in {"pending", "done", "dead"}, faults' \in 0 .. MaxFaults,
         clean' \in BOOLEAN, cut' \subseteq 0 .. n,
         faults' = faults + 1 \/ (faults' = faults /\ (event' = "done" \/ ~MessageIsOut))
  PROVE  RunInv'
<1> USE DEF RunInv
<1>1. /\ pc' = "idle" /\ rows' = <<>> /\ call' = None /\ loop' = NewLoop /\ ends' = "open"
      /\ attempts' = attempts /\ runs' = runs /\ sent' = sent /\ answer' = answer
  BY DEF EndTry
<1>2. TypeOK'
  <2>1. NewLoop \in [calls : Seq(Tools), used : 0 .. MaxToolCalls, steps : 0 .. MaxModelSteps,
                     sent : BOOLEAN, owed : 0 .. MaxBatch]
    BY RunConstants DEF NewLoop
  <2> QED
    BY <1>1, <2>1 DEF TypeOK, Points, n
<1>3. PointsFit' /\ CallFits' /\ ResultsOwed'
  BY <1>1, RunConstants DEF PointsFit, CallFits, ResultsOwed, CallPoints, Early, NewLoop
<1>4. RowsFit'
  BY <1>1 DEF RowsFit
<1>5. LimitKept'
  <2>1. Executed' = {}
    BY <1>1 DEF Executed
  <2> QED
    BY <1>1, <2>1, FS_EmptySet, RunConstants DEF LimitKept
<1>6. AnswerFits' /\ FailureStays' /\ OutcomeFits'
  BY <1>1 DEF AnswerFits, FailureStays, OutcomeFits, NewLoop
<1>7. FinalsFit'
  BY <1>1 DEF FinalsFit, FinalOutstanding, FinalRows
<1>8. SentFits'
  <2>1. sent \in Nat /\ faults \in Nat /\ sent <= faults + 1
    BY RunConstants DEF SentFits, TypeOK
  <2>2. CASE faults' = faults + 1
    BY <1>1, <2>1, <2>2 DEF SentFits
  <2>3. CASE faults' = faults /\ event' = "done"
    BY <1>1, <2>1, <2>3 DEF SentFits, MessageIsOut
  <2>4. CASE faults' = faults /\ ~MessageIsOut
    BY <1>1, <2>1, <2>4 DEF SentFits
  <2> QED
    BY <2>2, <2>3, <2>4
<1> QED
  BY <1>2, <1>3, <1>4, <1>5, <1>6, <1>7, <1>8

\* The end of a handler keeps the invariant.
LEMMA HandlerEndsInv ==
  ASSUME RunInv, HandlerReturns \/ HandlerThrows \/ HandlerIsLost PROVE RunInv'
<1>1. n \in Nat /\ cut \subseteq 0 .. n /\ faults \in 0 .. MaxFaults /\ clean \in BOOLEAN
  BY DEF RunInv, TypeOK, n
<1>2. CASE HandlerReturns
  BY <1>1, <1>2, EndTryInv DEF HandlerReturns
<1>3. CASE HandlerThrows
  <2>1. ~MessageIsOut
    BY <1>3 DEF HandlerThrows, MessageIsOut, RunInv, PointsFit
  <2> QED
    BY <1>1, <1>3, <2>1, EndTryInv DEF HandlerThrows, Retried
<1>4. CASE HandlerIsLost
  <2>1. n \in 0 .. n /\ faults + 1 \in 0 .. MaxFaults
    BY <1>1, <1>4, RunConstants DEF HandlerIsLost
  <2> QED
    BY <1>1, <1>4, <2>1, EndTryInv DEF HandlerIsLost, Retried
<1> QED
  BY <1>2, <1>3, <1>4

-----------------------------------------------------------------------------
\* The specification.

\* The invariant holds at first.
LEMMA InitInv == Init => RunInv
<1> SUFFICES ASSUME Init PROVE RunInv
  OBVIOUS
<1>1. NewLoop \in [calls : Seq(Tools), used : 0 .. MaxToolCalls, steps : 0 .. MaxModelSteps,
                   sent : BOOLEAN, owed : 0 .. MaxBatch]
  BY RunConstants DEF NewLoop
<1>2. TypeOK
  BY <1>1, RunConstants DEF Init, TypeOK, Points
<1>3. PointsFit /\ CallFits /\ RowsFit /\ ResultsOwed
  BY RunConstants
     DEF Init, PointsFit, CallFits, RowsFit, ResultsOwed, CallPoints, Early, NewLoop
<1>4. LimitKept
  <2>1. Executed = {}
    BY DEF Init, Executed
  <2> QED
    BY <2>1, FS_EmptySet, RunConstants DEF Init, LimitKept
<1>5. AnswerFits /\ FailureStays /\ OutcomeFits
  BY DEF Init, AnswerFits, FailureStays, OutcomeFits, NewLoop, n
<1>6. FinalsFit /\ SentFits
  BY RunConstants DEF Init, FinalsFit, FinalOutstanding, FinalRows, SentFits, MessageIsOut
<1> QED
  BY <1>2, <1>3, <1>4, <1>5, <1>6 DEF RunInv

\* Every step keeps the invariant.
LEMMA NextInv == RunInv /\ [Next]_vars => RunInv'
<1> SUFFICES ASSUME RunInv, [Next]_vars PROVE RunInv'
  OBVIOUS
<1>1. CASE UNCHANGED vars
  <2>1. /\ event' = event /\ attempts' = attempts /\ runs' = runs /\ rows' = rows /\ pc' = pc
        /\ call' = call /\ loop' = loop /\ ends' = ends /\ faults' = faults
        /\ clean' = clean /\ sent' = sent /\ answer' = answer /\ cut' = cut
    BY <1>1 DEF vars, tables, locals, history
  <2>2. TypeOK' /\ PointsFit' /\ CallFits' /\ ResultsOwed'
    BY <2>1 DEF RunInv, TypeOK, PointsFit, CallFits, ResultsOwed, n
  <2>3. RowsFit' /\ LimitKept'
    BY <2>1 DEF RunInv, RowsFit, LimitKept, Executed
  <2>4. AnswerFits' /\ FailureStays' /\ OutcomeFits'
    BY <2>1 DEF RunInv, AnswerFits, FailureStays, OutcomeFits, EndStatus, SendsMessage, n
  <2>5. FinalsFit' /\ SentFits'
    BY <2>1 DEF RunInv, FinalsFit, FinalOutstanding, FinalRows, SentFits, MessageIsOut
  <2> QED
    BY <2>2, <2>3, <2>4, <2>5 DEF RunInv
<1>2. CASE Setup \/ Check
  BY <1>2, StoreMessageInv, CreateRunInv, RecordReceivedInv, CheckModelInv, HandleCommandInv,
     RecordCommandInv
  DEF Setup, Check
<1>3. CASE Loop
  BY <1>3, LoadContextInv, CallModelInv, RecordModelStepInv, RequestToolCallInv,
     FinishToolCallInv, StopAtLimitInv
  DEF Loop
<1>4. CASE Execute
  BY <1>4, EvaluateToolPermissionInv, RecordToolCallInv, CreatePendingActionInv,
     ExecuteToolInv, CompleteToolCallInv, AppendAuditLogInv
  DEF Execute
<1>5. CASE End
  BY <1>5, SendFinalMessageInv, FinishFinalMessageInv, RecordCompletedInv, RecordFailedInv,
     RecordSendFailedInv, CompleteRunInv
  DEF End
<1>6. CASE Mailbox \/ HandlerIsLost
  BY <1>6, StartRunInv, HandlerEndsInv DEF Mailbox
<1> QED
  BY <1>1, <1>2, <1>3, <1>4, <1>5, <1>6 DEF Next, Handler

\* The invariant of a run holds in every reachable state.
THEOREM RunInvariant == Spec => []RunInv
<1> QED
  BY InitInv, NextInv, PTL DEF Spec


\* Every variable has its type.
THEOREM TypesHold == Spec => []TypeOK
<1> QED
  BY RunInvariant, PTL DEF RunInv

\* A handler that returns leaves its run over and in agreement with its last step, whatever
\* failed; without faults there is one such step and one final message, or a tool's.
THEOREM OutcomeTold == Spec => []OutcomeIsTold
<1>1. ASSUME RunInv PROVE OutcomeIsTold
  <2> SUFFICES ASSUME pc = "returned" PROVE OutcomeIsTold
    BY DEF OutcomeIsTold
  <2> DEFINE run == runs[n]
  <2>1. /\ call = None /\ n >= 1
        /\ ends \in {"command", "command_failed", "completed", "failed", "caught"}
    BY <1>1 DEF RunInv, PointsFit, CallPoints, TypeOK
  <2>2. run.status = EndStatus /\ EndStatus \in {"completed", "failed"}
    BY <1>1 DEF RunInv, AnswerFits, EndStatus
  <2>3. CASE ends \in {"command", "command_failed"}
    <3>1. run.outcomes = <<>>
      BY <1>1, <2>3 DEF RunInv, OutcomeFits
    <3> QED
      BY <2>2, <2>3, <3>1 DEF OutcomeIsTold
  <2>4. CASE ends \in {"completed", "failed"}
    <3>1. run.outcomes = <<EndStatus>>
      BY <1>1, <2>4 DEF RunInv, OutcomeFits, EndStatus
    <3>2. run.outcomes[Len(run.outcomes)] = EndStatus
      BY <3>1
    <3>3. FinalRows = IF ends = "completed" /\ loop.sent THEN {} ELSE {Len(rows)}
      BY <1>1, <2>4 DEF RunInv, FinalsFit, FinalOutstanding
    <3>4. Cardinality(FinalRows) = IF ends = "completed" /\ loop.sent THEN 0 ELSE 1
      BY <3>3, FS_EmptySet, FS_Singleton
    <3> QED
      BY <2>2, <2>4, <3>1, <3>2, <3>4 DEF OutcomeIsTold
  <2>5. CASE ends = "caught"
    <3>1. run.outcomes[Len(run.outcomes)] # "completed" /\ ~clean
      BY <1>1, <2>5 DEF RunInv, OutcomeFits
    <3>2. EndStatus = "failed"
      BY <2>5 DEF EndStatus
    <3> QED
      BY <2>2, <3>1, <3>2 DEF OutcomeIsTold
  <2> QED
    BY <2>1, <2>3, <2>4, <2>5
<1> QED
  BY <1>1, RunInvariant, PTL

\* The final message of an event reaches its sender once, and once more for every fault.
THEOREM RepeatsByFaultsOnly == Spec => []RepeatedByFaultsOnly
<1>1. RunInv => RepeatedByFaultsOnly
  BY DEF RunInv, SentFits, TypeOK, RepeatedByFaultsOnly
<1> QED
  BY <1>1, RunInvariant, PTL

\* Every call of the model's last answer has its result when the model is asked again.
THEOREM CallsAnswered == Spec => []EveryCallIsAnswered
<1>1. RunInv => EveryCallIsAnswered
  BY DEF RunInv, ResultsOwed, EveryCallIsAnswered
<1> QED
  BY <1>1, RunInvariant, PTL

\* A denied or unconfirmed call is not executed, and a handler without faults leaves
\* every call settled and audited.
THEOREM DecisionsHold == Spec => []ExecutedAsDecided
<1>1. RunInv => ExecutedAsDecided
  BY DEF RunInv, RowsFit, Through, ExecutedAsDecided
<1> QED
  BY <1>1, RunInvariant, PTL

\* The calls of the model that are executed stay within the limit.
THEOREM LimitKeeps == Spec => []LimitHolds
<1>1. RunInv => LimitHolds
  BY DEF RunInv, LimitKept, LimitHolds, Executed
<1> QED
  BY <1>1, RunInvariant, PTL

-----------------------------------------------------------------------------
\* Every run keeps the promise to its sender.

\* What the promise sees of the event and of its runs.
Shown    == IF event = "handling" THEN "pending" ELSE event
Statuses == [i \in DOMAIN runs |-> runs[i].status]

\* The statuses of the runs are a sequence as long as that of the runs.
LEMMA StatusesAreSeq ==
  ASSUME RunInv
  PROVE  /\ Statuses \in Seq({"running", "completed", "failed"})
         /\ Len(Statuses) = n /\ n \in Nat
         /\ n >= 1 => Statuses # <<>> /\ Statuses[n] = runs[n].status
<1>1. runs \in Seq(RunRow) /\ n \in Nat /\ DOMAIN runs = 1 .. n
  BY DEF RunInv, TypeOK, n
<1>2. Statuses \in [1 .. n -> {"running", "completed", "failed"}]
  <2>1. \A i \in 1 .. n : runs[i] \in RunRow
    BY <1>1
  <2>2. \A i \in 1 .. n : runs[i].status \in {"running", "completed", "failed"}
    BY <2>1 DEF RunRow
  <2> QED
    BY <1>1, <2>2 DEF Statuses
<1>3. Statuses \in Seq({"running", "completed", "failed"}) /\ Len(Statuses) = n
  BY <1>1, <1>2
<1> QED
  BY <1>1, <1>3 DEF Statuses

\* A step that the promise does not see.
LEMMA UnseenStep ==
  ASSUME Shown' = Shown, Statuses' = Statuses, answer' = answer
  PROVE  UNCHANGED Promise!vars
  BY DEF Promise!vars, Shown, Statuses

\* A step that closes no run and may answer the sender, or make an answer due.
LEMMA AnswerStep ==
  ASSUME RunInv, RunInv', Shown = "pending", Shown' = "pending", Statuses' = Statuses,
         n >= 1 \/ answer' \in {answer, "owed"}
  PROVE  [Promise!Next]_(Promise!vars)
<1>1. answer' \in {"owed", "told", "noted"}
  BY DEF RunInv, TypeOK
<1>2. CASE answer' = answer
  BY <1>2, UnseenStep
<1>3. CASE answer' = "owed"
  <2>1. Promise!Fail
    BY <1>3 DEF Promise!Fail, Shown, Statuses
  <2> QED
    BY <2>1 DEF Promise!Next
<1>4. CASE n >= 1 /\ answer' = "told"
  <2>1. Promise!Answer("told")
    BY <1>4, StatusesAreSeq DEF Promise!Answer, Shown, Statuses
  <2> QED
    BY <2>1 DEF Promise!Next
<1>5. CASE n >= 1 /\ answer' = "noted"
  <2>1. Promise!Answer("noted")
    BY <1>5, StatusesAreSeq DEF Promise!Answer, Shown, Statuses
  <2> QED
    BY <2>1 DEF Promise!Next
<1> QED
  BY <1>1, <1>2, <1>3, <1>4, <1>5

\* While the handler is at work, the promise sees a pending event.
LEMMA HandlerIsPending ==
  ASSUME RunInv, pc # "idle"
  PROVE  Shown = "pending" /\ (event' = event => Shown' = "pending")
  BY DEF RunInv, PointsFit, Shown

\* A run's row that keeps its status.
LEMMA SameStatus ==
  ASSUME RunInv, n >= 1, pc # "create", NEW r \in RunRow, r.status = runs[n].status,
         SetRun(r) \/ UNCHANGED tables
  PROVE  Statuses' = Statuses
<1>1. CASE SetRun(r)
  <2>1. /\ runs'[n] = r
        /\ \A i \in DOMAIN runs \ {n} : runs'[i] = runs[i]
        /\ DOMAIN runs' = DOMAIN runs
    BY <1>1, SetRunFits
  <2>2. \A i \in DOMAIN runs : runs'[i].status = runs[i].status
    BY <2>1
  <2> QED
    BY <2>1, <2>2 DEF Statuses
<1>2. CASE UNCHANGED tables
  BY <1>2 DEF tables, Statuses
<1> QED
  BY <1>1, <1>2

\* Steps that write no run.
LEMMA QuietSteps ==
  ASSUME RunInv, RunInv',
         \/ StoreMessage \/ RecordReceived \/ Check \/ LoadContext \/ CallModel
         \/ RecordModelStep \/ RequestToolCall \/ FinishToolCall \/ Execute
         \/ SendFinalMessage \/ FinishFinalMessage
  PROVE  [Promise!Next]_(Promise!vars)
<1>1. /\ pc # "idle" /\ event' = event /\ runs' = runs
      /\ pc = "store" => answer' \in {answer, "owed"}
  <2>1. CASE StoreMessage \/ RecordReceived \/ Check
    BY <2>1 DEF StoreMessage, RecordReceived, Check, CheckModel, HandleCommand, RecordCommand,
                Await, Step, NoEffect, tables, Goto, EndAs
  <2>2. CASE LoadContext \/ CallModel \/ RecordModelStep \/ RequestToolCall
    BY <2>2
       DEF LoadContext, CallModel, RecordModelStep, RequestToolCall, Await, Step, NoEffect,
           tables
  <2>3. CASE EvaluateToolPermission \/ RecordToolCall \/ CreatePendingAction
    BY <2>3 DEF EvaluateToolPermission, RecordToolCall, CreatePendingAction, Await, Step,
                NoEffect, tables
  <2>4. CASE ExecuteTool
    BY <2>4 DEF ExecuteTool, SetRow
  <2>5. CASE CompleteToolCall \/ AppendAuditLog
    BY <2>5 DEF CompleteToolCall, AppendAuditLog, Await, Step, SetRow, tables
  <2>6. CASE SendFinalMessage \/ FinishToolCall \/ FinishFinalMessage
    BY <2>6
       DEF SendFinalMessage, FinishToolCall, FinishFinalMessage, Await, Step, NoEffect, tables
  <2> QED
    BY <2>1, <2>2, <2>3, <2>4, <2>5, <2>6 DEF Execute
<1>2. n >= 1 \/ pc = "store"
  <2>1. pc # "create" /\ pc # "threw"
    BY
       DEF StoreMessage, RecordReceived, Check, CheckModel, HandleCommand, RecordCommand,
           LoadContext, CallModel, RecordModelStep, RequestToolCall, FinishToolCall, Execute,
           EvaluateToolPermission, RecordToolCall, CreatePendingAction, ExecuteTool,
           CompleteToolCall, AppendAuditLog, SendFinalMessage, FinishFinalMessage, Await, Step
  <2> QED
    BY <1>1, <2>1 DEF RunInv, PointsFit
<1>3. Shown = "pending" /\ Shown' = "pending" /\ Statuses' = Statuses
  BY <1>1, HandlerIsPending DEF Statuses
<1> QED
  BY <1>1, <1>2, <1>3, AnswerStep

\* Steps that add an outcome to the run's steps.
LEMMA OutcomeSteps ==
  ASSUME RunInv, RunInv', RecordFailed \/ RecordSendFailed \/ RecordCompleted \/ StopAtLimit
  PROVE  [Promise!Next]_(Promise!vars)
<1>1. pc \in {"failed_step", "send_failed", "done_step", "next"} /\ event' = event
  BY DEF RecordFailed, RecordSendFailed, RecordCompleted, StopAtLimit, Await, Step
<1>2. PICK kind \in {"failed", "completed", "unsent"} : RecordOutcome(kind) \/ UNCHANGED tables
  BY DEF RecordFailed, RecordSendFailed, RecordCompleted, StopAtLimit, Await, Step
<1>3. n >= 1 /\ n \in DOMAIN runs /\ runs[n] \in RunRow
  BY <1>1 DEF RunInv, PointsFit, TypeOK, n
<1> DEFINE r == [runs[n] EXCEPT !.outcomes = Append(@, kind)]
<1>4. r \in RunRow /\ r.status = runs[n].status
  BY <1>3 DEF RunRow
<1>5. SetRun(r) \/ UNCHANGED tables
  BY <1>2 DEF RecordOutcome
<1> HIDE DEF r
<1>6. Statuses' = Statuses
  BY <1>1, <1>3, <1>4, <1>5, SameStatus
<1> QED
  BY <1>1, <1>3, <1>6, AnswerStep, HandlerIsPending

\* A run is opened.
LEMMA OpeningStep ==
  ASSUME RunInv, CreateRun
  PROVE  [Promise!Next]_(Promise!vars)
<1>1. pc = "create" /\ event' = event /\ answer = "owed" /\ answer' = "owed"
  BY DEF CreateRun, Await, Step, RunInv, AnswerFits
<1>2. Shown = "pending" /\ Shown' = "pending"
  BY <1>1, HandlerIsPending
<1> DEFINE r == [status |-> "running", outcomes |-> <<>>]
<1>3. runs' = Append(runs, r) \/ runs' = runs
  BY DEF CreateRun, Await, Step, tables
<1>4. CASE runs' = runs
  BY <1>1, <1>2, <1>4, UnseenStep DEF Statuses
<1>5. CASE runs' = Append(runs, r)
  <2>1. runs \in Seq(RunRow) /\ r \in RunRow
    BY DEF RunInv, TypeOK, RunRow
  <2>2. /\ DOMAIN runs' = 1 .. n + 1
        /\ runs'[n + 1] = r
        /\ \A i \in 1 .. n : runs'[i] = runs[i]
    BY <1>5, <2>1 DEF n
  <2>3. Statuses' = [i \in 1 .. n + 1 |-> IF i = n + 1 THEN "running" ELSE Statuses[i]]
    <3>1. \A i \in 1 .. n + 1 :
            runs'[i].status = IF i = n + 1 THEN "running" ELSE Statuses[i]
      BY <2>1, <2>2, StatusesAreSeq DEF Statuses, n
    <3> QED
      BY <2>2, <3>1 DEF Statuses
  <2>4. Append(Statuses, "running") =
          [i \in 1 .. n + 1 |-> IF i = n + 1 THEN "running" ELSE Statuses[i]]
    <3> DEFINE s == Append(Statuses, "running")
    <3>1. /\ s \in Seq({"running", "completed", "failed"})
          /\ Len(s) = n + 1
          /\ \A i \in 1 .. n + 1 : s[i] = IF i = n + 1 THEN "running" ELSE Statuses[i]
      BY StatusesAreSeq
    <3> HIDE DEF s
    <3>2. s \in [1 .. n + 1 -> {"running", "completed", "failed"}]
      BY <3>1, StatusesAreSeq
    <3>3. s = [i \in 1 .. n + 1 |-> IF i = n + 1 THEN "running" ELSE Statuses[i]]
      BY <3>1, <3>2
    <3> QED
      BY <3>3 DEF s
  <2>5. Promise!Open
    BY <1>1, <1>2, <2>3, <2>4 DEF Promise!Open, Shown, Statuses
  <2> QED
    BY <2>5 DEF Promise!Next
<1> QED
  BY <1>3, <1>4, <1>5

\* A run is closed.
LEMMA ClosingStep ==
  ASSUME RunInv, RunInv', CompleteRun
  PROVE  [Promise!Next]_(Promise!vars)
<1>1. pc = "close" /\ event' = event /\ answer # "owed" /\ answer' = "owed"
  BY DEF CompleteRun, Await, RunInv, AnswerFits
<1>2. Shown = "pending" /\ Shown' = "pending"
  BY <1>1, HandlerIsPending
<1>3. n >= 1 /\ n \in DOMAIN runs /\ runs[n] \in RunRow
  BY <1>1 DEF RunInv, PointsFit, TypeOK, n
<1> DEFINE r == [runs[n] EXCEPT !.status = EndStatus]
<1>4. r \in RunRow /\ r.status = EndStatus
  BY <1>3 DEF RunRow, EndStatus
<1>5. SetRun(r) \/ UNCHANGED tables
  BY DEF CompleteRun, Await
<1> HIDE DEF r
<1>6. CASE UNCHANGED tables
  BY <1>1, <1>2, <1>3, <1>6, AnswerStep DEF tables, Statuses
<1>7. CASE runs[n].status = "failed"
  <2>1. EndStatus = "failed"
    BY <1>1, <1>3, <1>7 DEF RunInv, FailureStays, PointsFit, EndStatus
  <2>2. Statuses' = Statuses
    BY <1>1, <1>3, <1>4, <1>5, <1>7, <2>1, SameStatus
  <2> QED
    BY <1>1, <1>2, <1>3, <2>2, AnswerStep
<1>8. CASE SetRun(r) /\ runs[n].status # "failed"
  <2>1. /\ runs'[n] = r
        /\ \A i \in DOMAIN runs \ {n} : runs'[i] = runs[i]
        /\ DOMAIN runs' = DOMAIN runs
    BY <1>1, <1>3, <1>4, <1>8, SetRunFits
  <2>2. Statuses' = [Statuses EXCEPT ![n] = EndStatus]
    BY <1>4, <2>1 DEF Statuses
  <2>3. Statuses[Len(Statuses)] # "failed"
    BY <1>3, <1>8, StatusesAreSeq
  <2>4. CASE EndStatus = "completed"
    <3>1. Promise!Close("completed")
      BY <1>1, <1>2, <2>2, <2>3, <2>4, StatusesAreSeq DEF Promise!Close, Shown, Statuses
    <3> QED
      BY <3>1 DEF Promise!Next
  <2>5. CASE EndStatus = "failed"
    <3>1. Promise!Close("failed")
      BY <1>1, <1>2, <2>2, <2>3, <2>5, StatusesAreSeq DEF Promise!Close, Shown, Statuses
    <3> QED
      BY <3>1 DEF Promise!Next
  <2> QED
    BY <2>4, <2>5 DEF EndStatus
<1> QED
  BY <1>5, <1>6, <1>7, <1>8

\* The steps of the mailbox.
LEMMA MailboxSteps ==
  ASSUME RunInv, RunInv', Mailbox \/ HandlerIsLost
  PROVE  [Promise!Next]_(Promise!vars)
<1>1. runs' = runs /\ Statuses' = Statuses /\ (StartRun \/ answer' = answer)
  BY
     DEF Mailbox, StartRun, HandlerReturns, HandlerThrows, HandlerIsLost, EndTry, tables,
         Statuses
<1>2. CASE StartRun
  <2>1. Shown = "pending" /\ Shown' = "pending" /\ answer' = "owed"
    BY <1>2 DEF StartRun, Shown
  <2> QED
    BY <1>1, <2>1, AnswerStep
<1>3. CASE HandlerReturns
  <2>1. pc = "returned" /\ event' = "done" /\ answer' = answer
    BY <1>3 DEF HandlerReturns, EndTry
  <2>2. Shown = "pending" /\ Shown' = "done"
    BY <2>1, HandlerIsPending DEF Shown
  <2>3. n >= 1 /\ Statuses[n] # "running"
    BY <2>1, StatusesAreSeq DEF RunInv, PointsFit, AnswerFits, EndStatus
  <2>4. Promise!Settle
    BY <1>1, <2>1, <2>2, <2>3, StatusesAreSeq DEF Promise!Settle, Shown, Statuses
  <2> QED
    BY <2>4 DEF Promise!Next
<1>4. CASE HandlerThrows \/ HandlerIsLost
  <2>1. pc # "idle"
    BY <1>4 DEF HandlerThrows, HandlerIsLost, RunInv, PointsFit
  <2>2. Shown = "pending" /\ event' \in {"pending", "dead"} /\ answer' = answer
    BY <1>4, <2>1, HandlerIsPending DEF HandlerThrows, HandlerIsLost, Retried, EndTry
  <2>3. CASE event' = "pending"
    BY <1>1, <2>2, <2>3, UnseenStep DEF Shown
  <2>4. CASE event' = "dead"
    <3>1. Promise!GiveUp
      BY <1>1, <2>2, <2>4 DEF Promise!GiveUp, Shown, Statuses
    <3> QED
      BY <3>1 DEF Promise!Next
  <2> QED
    BY <2>2, <2>3, <2>4
<1> QED
  BY <1>2, <1>3, <1>4 DEF Mailbox

\* Every step is one of the promise's, or is not seen by it.
LEMMA StepKeepsPromise ==
  ASSUME RunInv, RunInv', [Next]_vars
  PROVE  [Promise!Next]_(Promise!vars)
<1>1. CASE UNCHANGED vars
  BY <1>1, UnseenStep DEF vars, tables, history, Shown, Statuses
<1>2. CASE Handler
  BY <1>2, QuietSteps, OutcomeSteps, OpeningStep, ClosingStep
  DEF Handler, Setup, Loop, End
<1>3. CASE Mailbox \/ HandlerIsLost
  BY <1>3, MailboxSteps
<1> QED
  BY <1>1, <1>2, <1>3 DEF Next

\* A run is closed, and closed anew as failed, only with an answer of its own: its sender
\* was told something, or D1 holds that nothing reached the sender.
THEOREM PromiseKept == Spec => KeepsPromise
<1>1. Init => Promise!Init
  <2> SUFFICES ASSUME Init PROVE Promise!Init
    OBVIOUS
  <2>1. runs = <<>> /\ Statuses = <<>>
    BY DEF Init, Statuses
  <2> QED
    BY <2>1 DEF Init, Promise!Init, Statuses
<1> QED
  BY <1>1, StepKeepsPromise, RunInvariant, PTL DEF Spec, KeepsPromise, Promise!Spec
=============================================================================
