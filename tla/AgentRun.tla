------------------------------ MODULE AgentRun ------------------------------
(***************************************************************************)
(* The run of the agent for one event (src/core/agent-runner.ts) with its  *)
(* tool loop (agent-tool-loop.ts), the execution of a tool call            *)
(* (agent-tool-executor.ts, tools/registry/tool-registry.ts) and the final *)
(* message (agent-final-message.ts).                                       *)
(*                                                                         *)
(* The handler is one sequential function, so a step is one await: a       *)
(* statement of D1, a call of the model or of a tool.  Every await may     *)
(* reject, and a statement that rejects may have been carried out or not;  *)
(* the handler may also be lost.  The mailbox then hands the event out     *)
(* again, for a run of its own, up to MaxAttempts times.                   *)
(***************************************************************************)
EXTENDS Sequences, Naturals, FiniteSets

CONSTANTS
  None,          \* no tool call is being executed
  MaxAttempts,   \* tries the mailbox gives an event
  MaxToolCalls,  \* toolSettings.maxToolCallsPerRun
  MaxModelSteps, \* toolSettings.maxModelStepsPerRun, at most 500
  MaxBatch,      \* bound of the model: tool calls in one answer of the model
  MaxFaults      \* bound of the model: rejected awaits and lost handlers

ASSUME RunConstants ==
  /\ {MaxAttempts, MaxToolCalls, MaxModelSteps} \subseteq Nat \ {0}
  /\ {MaxBatch, MaxFaults} \subseteq Nat

\* Tools the model may call: one that only works, and messaging.send_message,
\* whose success makes a final message superfluous (preventsFinalResponse).
Tools == {"work", "message"}

Batches == UNION {[1 .. k -> Tools] : k \in 0 .. MaxBatch}

Decisions == {"allowed", "needs_confirmation", "permission_denied"}
Results   == {"success", "failed", "needs_confirmation", "permission_denied"}

VARIABLES
  event,    \* the mailbox's view: "pending", "handling", "done" or "dead"
  attempts, \* tries of the event so far
  runs,     \* the rows of D1's runs of this event, with their completed and failed steps
  rows,     \* the rows of D1's tool_calls of the current try
  pc,       \* the await the handler is at
  call,     \* the tool call being executed, or None
  loop,     \* local variables of executeAgentToolLoop
  ends,     \* how the run is being ended, or "open"
  faults,   \* faults so far
  clean,    \* no fault in the current try (history)
  sent,     \* final messages that reached the sender, over all tries (history)
  answer,   \* what the sender got since the try began or something failed (history):
            \* "owed" nothing, "told" a message, "noted" nothing, and D1 says so
  cut       \* the runs whose handler threw or was lost (history)

tables == <<runs, rows>>
locals == <<call, loop, ends>>
history == <<clean, sent, answer, cut>>
vars   == <<event, attempts, tables, pc, locals, faults, history>>

SetupPoints  == {"store", "create", "received"}                \* before the try block
CallPoints   == {"evaluate", "row", "pend", "execute", "settle", "audit", "completed_step"}
Points       == SetupPoints \cup CallPoints
                  \cup {"idle", "check", "command", "command_step", "context", "model_step",
                        "next", "failed_step", "final", "done_step", "close",
                        "send_failed", "returned", "threw"}

RunRow   == [status : {"running", "completed", "failed"},
             outcomes : Seq({"completed", "failed", "unsent"})]
CallRow  == [tool : Tools, final : BOOLEAN, status : Results \cup {"running"}, ran : BOOLEAN,
             audited : BOOLEAN]
ToolCall == [tool : Tools, final : BOOLEAN, decision : Decisions, result : Results]

ASSUME NoneIsNoCall == None \notin ToolCall

TypeOK ==
  /\ event \in {"pending", "handling", "done", "dead"}
  /\ attempts \in 0 .. MaxAttempts
  /\ runs \in Seq(RunRow)
  /\ rows \in Seq(CallRow)
  /\ pc \in Points
  /\ call \in ToolCall \cup {None}
  /\ loop \in [calls : Seq(Tools), used : 0 .. MaxToolCalls, steps : 0 .. MaxModelSteps,
               sent : BOOLEAN, owed : 0 .. MaxBatch]
  /\ ends \in {"open", "command", "command_failed", "completed", "failed", "caught"}
  /\ faults \in 0 .. MaxFaults
  /\ clean \in BOOLEAN
  /\ sent \in Nat
  /\ answer \in {"owed", "told", "noted"}
  /\ cut \subseteq 0 .. Len(runs)

NewLoop == [calls |-> <<>>, used |-> 0, steps |-> 0, sent |-> FALSE, owed |-> 0]

Init ==
  /\ event = "pending"
  /\ attempts = 0
  /\ runs = <<>>
  /\ rows = <<>>
  /\ pc = "idle"
  /\ call = None
  /\ loop = NewLoop
  /\ ends = "open"
  /\ faults = 0
  /\ clean = TRUE
  /\ sent = 0
  /\ answer = "owed"
  /\ cut = {}

-----------------------------------------------------------------------------
\* Awaits.

\* The run of the current try.
n == Len(runs)

\* The call is a tool's that makes a final message superfluous, and it succeeded.
SendsMessage == call.tool = "message" /\ call.result = "success"

\* Mutant: the catch block tells nobody.
CatchesSilently(p) == IF p \in SetupPoints \/ ends # "open" THEN "threw" ELSE "close"

\* Where a rejection at point p leads: out of the handler before the try block and
\* in the catch block, to the catch of the failure message, to the catch block.
OnThrow(p) ==
  IF p \in SetupPoints \/ p = "send_failed" \/ (ends = "caught" /\ p \in {"failed_step", "close"})
    THEN "threw"
    ELSE IF ends = "caught" THEN "send_failed" ELSE "failed_step"

\* The await at point p: its statement Effect, what the sender has got once it is
\* through, and what follows it; or a rejection, after which an answer is owed anew.
Await(p, Effect, heard, Then) ==
  /\ pc = p
  /\ \/ /\ Effect
        /\ Then
        /\ answer' = heard
        /\ UNCHANGED <<faults, clean>>
     \/ /\ faults < MaxFaults
        /\ faults' = faults + 1
        /\ clean' = FALSE
        /\ answer' = "owed"
        /\ Effect \/ UNCHANGED tables
        /\ pc' = OnThrow(p)
        /\ ends' = IF pc' = "failed_step" THEN "caught" ELSE ends
        /\ call' = None
        /\ loop' = NewLoop
  /\ cut' = IF pc' = "threw" THEN cut \cup {Len(runs')} ELSE cut
  /\ UNCHANGED <<event, attempts, sent>>

\* An await that tells the sender nothing.
Step(p, Effect, Then) == Await(p, Effect, answer, Then)

\* Statements.
NoEffect == UNCHANGED tables

SetRow(r) ==
  /\ rows' = [rows EXCEPT ![Len(rows)] = r]
  /\ UNCHANGED runs

SetRun(r) ==
  /\ runs' = [runs EXCEPT ![n] = r]
  /\ UNCHANGED rows

RecordOutcome(kind) == SetRun([runs[n] EXCEPT !.outcomes = Append(@, kind)])

\* Where the code goes on.
Goto(p) ==
  /\ pc' = p
  /\ UNCHANGED locals

EndAs(e, p) ==
  /\ pc' = p
  /\ ends' = e
  /\ UNCHANGED <<call, loop>>

-----------------------------------------------------------------------------
\* runAgentForMessageInternal.

\* The drain loop claims the event and calls the handler.
StartRun ==
  /\ event = "pending"
  /\ pc = "idle"
  /\ attempts < MaxAttempts
  /\ event' = "handling"
  /\ attempts' = attempts + 1
  /\ pc' = "store"
  /\ clean' = TRUE
  /\ answer' = "owed"
  /\ UNCHANGED <<tables, locals, faults, sent, cut>>

\* resolveInboundConversation, persistInboundMedia, insertMessage.
StoreMessage == Step("store", NoEffect, Goto("create"))

CreateRun ==
  Step("create",
        /\ runs' = Append(runs, [status |-> "running", outcomes |-> <<>>])
        /\ UNCHANGED rows,
        Goto("received"))

RecordReceived == Step("received", NoEffect, Goto("check"))

\* The model's capabilities are read: the run fails when images cannot be seen.
CheckModel ==
  Step("check", NoEffect, Goto("command") \/ EndAs("failed", "failed_step"))

\* handleCommandMessage: not a command, or a command that is executed.
HandleCommand ==
  Step("command", NoEffect, Goto("context") \/ Goto("command_step"))

\* The command's step is recorded: how it went, and the text it has for the sender, if
\* any.  Without one the step is all there is.
RecordCommand ==
  \E e \in {"command", "command_failed"}, silent \in BOOLEAN :
    Await("command_step", NoEffect,
          IF silent THEN "noted" ELSE answer,
          EndAs(e, IF silent THEN "close" ELSE "final"))

\* recordRunFailedStep of failRun, of the vision checks and of the catch block.
RecordFailed == Step("failed_step", RecordOutcome("failed"), Goto("final"))

\* recordRunFailedStep when the failure message could not be sent.
RecordSendFailed == Await("send_failed", RecordOutcome("unsent"), "noted", Goto("close"))

\* recordRunCompletedStep.
RecordCompleted == Step("done_step", RecordOutcome("completed"), Goto("close"))

EndStatus == IF ends \in {"command", "completed"} THEN "completed" ELSE "failed"

CompleteRun ==
  Await("close", SetRun([runs[n] EXCEPT !.status = EndStatus]), "owed", Goto("returned"))

-----------------------------------------------------------------------------
\* executeAgentToolLoop.

\* prepareAgentLoopContext, getToolSettings, recordContextStep.
LoadContext == Step("context", NoEffect, Goto("next"))

\* reserveToolCall, and the call is taken from the model's list.
Reserved(l) == [l EXCEPT !.calls = Tail(@), !.used = @ + 1]

\* The model has answered with a list of tool calls.
AnsweredWith(l, batch) == [l EXCEPT !.calls = batch, !.steps = @ + 1]

\* The next model step: the limit leaves room for it.
CallModel ==
  /\ loop.calls = <<>>
  /\ loop.steps < MaxModelSteps
  /\ \E batch \in Batches :
       Step("next", NoEffect,
             /\ pc' = "model_step"
             /\ loop' = AnsweredWith(loop, batch)
             /\ UNCHANGED <<call, ends>>)

\* Mutant: a final message follows even when a tool has sent one.
FinishAloud == EndAs("completed", "final")

\* Where an answer without tool calls leads.
Finish == IF loop.sent THEN EndAs("completed", "done_step") ELSE EndAs("completed", "final")

\* Every call of the list is owed a result.
OwesResults(l) == [l EXCEPT !.owed = Len(l.calls)]

\* recordModelStep, and the calls are added to the messages of the model.
RecordModelStep ==
  Step("model_step", NoEffect,
        IF loop.calls = <<>>
          THEN Finish
          ELSE /\ pc' = "next"
               /\ loop' = OwesResults(loop)
               /\ UNCHANGED <<call, ends>>)

ToolCallLimitReached == loop.calls # <<>> /\ loop.used >= MaxToolCalls
ModelStepLimitReached == loop.calls = <<>> /\ loop.steps >= MaxModelSteps

\* failRunForToolCallLimit and the end of the for loop, with the failed step.
StopAtLimit ==
  /\ ToolCallLimitReached \/ ModelStepLimitReached
  /\ Step("next", RecordOutcome("failed"), EndAs("failed", "final"))

\* A call of the model's list, before its permission is looked at, and the final message.
LoopCall(tool, result) == [tool |-> tool, final |-> FALSE, decision |-> "allowed", result |-> result]
FinalCall == [tool |-> "message", final |-> TRUE, decision |-> "allowed", result |-> "failed"]

\* A call is reserved, its request recorded, and the skill's limits are checked.
RequestToolCall ==
  /\ loop.calls # <<>>
  /\ ~ToolCallLimitReached
  /\ Step("next", NoEffect,
           /\ pc' \in {"evaluate", "completed_step"}
           /\ call' = LoopCall(Head(loop.calls),
                               IF pc' = "evaluate" THEN "failed" ELSE "permission_denied")
           /\ loop' = Reserved(loop)
           /\ UNCHANGED ends)

\* Mutant: a call that a skill denies gets no answer.
AnswersExecuted(l) == IF call.result = "permission_denied" THEN l ELSE [l EXCEPT !.owed = @ - 1]

\* messages.push of the result, and sentMessageTool.
Answered(l) ==
  [l EXCEPT !.owed = @ - 1,
            !.sent = @ \/ SendsMessage]

\* recordToolCompletedStep in the loop.
FinishToolCall ==
  /\ call # None
  /\ ~call.final
  /\ Step("completed_step", NoEffect,
           /\ pc' = "next"
           /\ loop' = Answered(loop)
           /\ call' = None
           /\ UNCHANGED ends)

-----------------------------------------------------------------------------
\* registry.execute, for a call of the model and for the final message.

\* sendFinalMessage: its request is recorded.
SendFinalMessage ==
  Step("final", NoEffect,
        /\ pc' = "evaluate"
        /\ call' = FinalCall
        /\ UNCHANGED <<loop, ends>>)

Decided(c, d) == [c EXCEPT !.decision = d, !.result = IF d = "allowed" THEN "failed" ELSE d]

\* evaluateToolPermission.  Policies only add to an admin's level and scopes, which
\* suffice for a message, so the final message is always allowed.
EvaluateToolPermission ==
  \E d \in Decisions :
    /\ call # None /\ call.final => d = "allowed"
    /\ Step("evaluate", NoEffect,
             /\ pc' = "row"
             /\ call' = Decided(call, d)
             /\ UNCHANGED <<loop, ends>>)

\* initialToolCallStatus.
InitialToolCallStatus == IF call.decision = "allowed" THEN "running" ELSE call.decision

\* The branches on the decision.
AfterRow ==
  IF call.decision = "allowed" THEN "execute"
  ELSE IF call.decision = "needs_confirmation" THEN "pend"
  ELSE "audit"

RecordToolCall ==
  Step("row",
        /\ rows' = Append(rows, [tool |-> call.tool, final |-> call.final, ran |-> FALSE,
                                 status |-> InitialToolCallStatus, audited |-> FALSE])
        /\ UNCHANGED runs,
        Goto(AfterRow))

\* createToolPendingAction.
CreatePendingAction == Step("pend", NoEffect, Goto("settle"))

\* executeToolSafely: the tool does its work or not, and says so or not; it does not throw.
\* A message that went out was heard, whatever the tool says of it.
ExecuteTool ==
  /\ pc = "execute"
  /\ \E ran \in BOOLEAN, result \in {"success", "failed"} :
       /\ result = "success" => ran
       /\ SetRow([rows[Len(rows)] EXCEPT !.ran = ran])
       /\ call' = [call EXCEPT !.result = result]
       /\ answer' = IF call.tool = "message" /\ ran THEN "told" ELSE answer
       /\ sent' = IF call.final /\ ran THEN sent + 1 ELSE sent
  /\ pc' = "settle"
  /\ UNCHANGED <<event, attempts, loop, ends, faults, clean, cut>>

\* completeToolCall.  A denied call is completed after its audit, any other before it.
\* A final message that failed is in D1's tool_calls, and nowhere else: nobody looks.
CompleteToolCall ==
  Await("settle", SetRow([rows[Len(rows)] EXCEPT !.status = call.result]),
        IF call.final /\ call.result # "success" THEN "noted" ELSE answer,
        Goto(IF call.decision = "permission_denied" THEN "completed_step" ELSE "audit"))

\* appendAuditLog, and notifyPendingAction, whose failure is ignored.
AppendAuditLog ==
  Step("audit", SetRow([rows[Len(rows)] EXCEPT !.audited = TRUE]),
        Goto(IF call.decision = "permission_denied" THEN "settle" ELSE "completed_step"))

\* Mutant: a run that is stopped by a limit is not completed.
StopsOpen == IF ends = "completed" THEN "done_step" ELSE IF ends = "failed" THEN "returned" ELSE "close"

\* Mutant: a final message whose tool says it failed is sent again.
SendsAgain == IF call.result = "failed" THEN "final" ELSE "close"

\* What follows the final message.
AfterFinal == IF ends = "completed" THEN "done_step" ELSE "close"

\* recordToolCompletedStep of sendFinalMessage; the result is not looked at.
FinishFinalMessage ==
  /\ call # None /\ call.final
  /\ Step("completed_step", NoEffect,
           /\ pc' = AfterFinal
           /\ call' = None
           /\ UNCHANGED <<loop, ends>>)

-----------------------------------------------------------------------------
\* The mailbox around the handler.

\* The handler is gone, and the model forgets what only concerned its try.
EndTry ==
  /\ pc' = "idle"
  /\ rows' = <<>>
  /\ call' = None
  /\ loop' = NewLoop
  /\ ends' = "open"
  /\ UNCHANGED <<attempts, runs, sent, answer>>

Retried == IF attempts < MaxAttempts THEN "pending" ELSE "dead"

HandlerReturns ==
  /\ pc = "returned"
  /\ event' = "done"
  /\ EndTry
  /\ UNCHANGED <<faults, clean, cut>>

HandlerThrows ==
  /\ pc = "threw"
  /\ event' = Retried
  /\ EndTry
  /\ UNCHANGED <<faults, clean, cut>>

\* The object is lost, or the event's outcome is not stored: the lease ends.
HandlerIsLost ==
  /\ event = "handling"
  /\ faults < MaxFaults
  /\ faults' = faults + 1
  /\ event' = Retried
  /\ clean' = FALSE
  /\ cut' = cut \cup {n}
  /\ EndTry

-----------------------------------------------------------------------------
Setup   == StoreMessage \/ CreateRun \/ RecordReceived
Check   == CheckModel \/ HandleCommand \/ RecordCommand
Loop    == LoadContext \/ CallModel \/ RecordModelStep \/ RequestToolCall \/ FinishToolCall \/ StopAtLimit
Execute == \/ EvaluateToolPermission \/ RecordToolCall \/ CreatePendingAction \/ ExecuteTool
           \/ CompleteToolCall \/ AppendAuditLog
End     == \/ SendFinalMessage \/ FinishFinalMessage \/ RecordCompleted \/ RecordFailed
           \/ RecordSendFailed \/ CompleteRun

Handler == Setup \/ Check \/ Loop \/ Execute \/ End
Mailbox == StartRun \/ HandlerReturns \/ HandlerThrows

Next == Handler \/ Mailbox \/ HandlerIsLost

Spec == Init /\ [][Next]_vars

\* Every await of a handler ends (calls have time limits) and the mailbox goes on.
FairSpec == Spec /\ WF_vars(Handler) /\ WF_vars(Mailbox)

-----------------------------------------------------------------------------
\* Properties.

\* The final messages of the current try, by their rows.
FinalRows == {i \in DOMAIN rows : rows[i].final}

\* A handler that returns leaves a run that is over and agrees with its last step,
\* whatever failed on the way.  If nothing did, there is one such step, or none for a
\* command; and one final message was tried, whose row says whether the sender got it,
\* or none because a tool had already sent one and the run completed.
OutcomeIsTold ==
  pc = "returned" =>
    LET run == runs[n] IN
    /\ run.status \in {"completed", "failed"}
    /\ run.outcomes # <<>> => (run.outcomes[Len(run.outcomes)] = "completed" <=> run.status = "completed")
    /\ clean => run.outcomes = IF ends \in {"command", "command_failed"} THEN <<>> ELSE <<run.status>>
    /\ clean => \/ ends \in {"command", "command_failed"}
                \/ Cardinality(FinalRows) = IF ends = "completed" /\ loop.sent THEN 0 ELSE 1

\* The sender gets the final message of an event once, and once more for every fault:
\* a step that cannot be recorded after the message went out makes the catch block send
\* another, and a handler that is lost leaves the next try to do so.
RepeatedByFaultsOnly == sent <= 1 + faults

\* When the model is asked again, every tool call of its last answer has a result
\* among the messages, denied calls included: models refuse a conversation with gaps.
EveryCallIsAnswered ==
  pc = "next" /\ loop.calls = <<>> => loop.owed = 0

\* A call that was denied or waits for confirmation was not executed, whatever failed;
\* and a handler without faults leaves every call settled and audited.
ExecutedAsDecided ==
  /\ \A i \in DOMAIN rows :
       rows[i].status \in {"needs_confirmation", "permission_denied"} => ~rows[i].ran
  /\ pc = "returned" /\ clean =>
       \A i \in DOMAIN rows : rows[i].status # "running" /\ rows[i].audited

\* The model never gets more calls executed than the limit says, over all its answers;
\* the final message does not count.
LimitHolds == Cardinality({i \in DOMAIN rows : ~rows[i].final}) <= MaxToolCalls

Running(i) == i \in DOMAIN runs /\ runs[i].status = "running"

\* A try leaves its run 'running' for ever only if its handler threw or was lost.
EveryRunIsClosed ==
  \A i \in 1 .. MaxAttempts : Running(i) ~> (~Running(i) \/ i \in cut)

\* Every run keeps the promise made to the sender: it is closed only when the sender was
\* told something since the try began or last failed, or D1 says that nothing was.
Promise == INSTANCE OneAnswer WITH
  event  <- IF event = "handling" THEN "pending" ELSE event,
  status <- [i \in DOMAIN runs |-> runs[i].status]

KeepsPromise == Promise!Spec
=============================================================================
