--------------------------- MODULE PendingActions ---------------------------
(***************************************************************************)
(* Tool calls that need confirmation: the rows of D1's table               *)
(* `pending_actions`, the run that asks for them                           *)
(* (tools/registry/pending-tool-result.ts), the requests that confirm or   *)
(* reject them from the admin API or from a Telegram button                *)
(* (permissions/pending-action-executor.ts,                                *)
(* adapters/telegram/callbacks/handler.ts) and the execution of a          *)
(* confirmed call (tools/registry/tool-registry.ts).                       *)
(*                                                                         *)
(* Every request runs in a Worker of its own: one step is one statement of *)
(* D1, one run of the tool or one message sent, and between two steps      *)
(* every other request may act.  Any step may fail or be the last one of   *)
(* its Worker.  The permission policy is consulted by the step that        *)
(* records the call: either answer is possible.                            *)
(***************************************************************************)
EXTENDS Naturals, FiniteSets

CONSTANTS
  Actions,  \* tool calls that need confirmation
  Requests, \* requests that may be handled at the same time
  None,     \* no row, no action, no button
  Origin,   \* where the run of each action was asked from
  Lifetime, \* ten minutes, in ticks
  MaxTime,  \* bound of the model: the last tick
  MaxFaults \* bound of the model: steps that fail

Origins == {"telegram", "elsewhere", "nowhere"}

ASSUME PendingConstants ==
  /\ None \notin Actions
  /\ Origin \in [Actions -> Origins]
  /\ {Lifetime, MaxTime, MaxFaults} \subseteq Nat

VARIABLES
  asking,        \* what the run that asks for each action is at
  action,        \* the row of each action, or None
  button,        \* the rows of platform_callbacks for each action
  request,       \* the state of each request
  toolCall,      \* the tool_calls row of the confirmed call of each action
  audited,       \* actions whose confirmed call is in the audit log
  runs,          \* how often the tool of each action was run (history)
  continuations, \* how many messages went on with each action (history)
  now,           \* the clock
  faults         \* faults so far

askVars == <<asking, action, button>>
callVars == <<toolCall, audited, runs, continuations>>
vars == <<askVars, request, callVars, now, faults>>

Status == {"pending", "confirmed", "executed", "cancelled"}
Row == [status: Status, expiresAt: Nat]
Kinds == {"confirm", "reject"}

\* What a run that asks does next.
Stages == {"record", "create", "complete", "audit", "offer", "over"}

\* What a request does next.
Steps == {"idle", "button", "expire", "read", "mark", "record", "run", "complete", "audit",
          "finish", "continue", "use"}

Request == [pc: Steps, action: Actions \cup {None}, kind: Kinds, clicked: BOOLEAN]

ASSUME NoneIsNoRow ==
  None \notin Row \cup {"active", "used", "expired", "running", "denied", "finished"}

\* Every variable has the values the code can give it.
PendingTypeOK ==
  /\ asking \in [Actions -> Stages]
  /\ action \in [Actions -> Row \cup {None}]
  /\ button \in [Actions -> [Kinds -> {"active", "used", "expired", None}]]
  /\ request \in [Requests -> Request]
  /\ toolCall \in [Actions -> {"running", "denied", "finished", None}]
  /\ audited \in SUBSET Actions
  /\ runs \in [Actions -> Nat]
  /\ continuations \in [Actions -> Nat]
  /\ now \in 0 .. MaxTime
  /\ faults \in 0 .. MaxFaults

IdleRequest == [pc |-> "idle", action |-> None, kind |-> "confirm", clicked |-> FALSE]

Init ==
  /\ asking = [a \in Actions |-> "record"]
  /\ action = [a \in Actions |-> None]
  /\ button = [a \in Actions |-> [k \in Kinds |-> None]]
  /\ request = [r \in Requests |-> IdleRequest]
  /\ toolCall = [a \in Actions |-> None]
  /\ audited = {}
  /\ runs = [a \in Actions |-> 0]
  /\ continuations = [a \in Actions |-> 0]
  /\ now = 0
  /\ faults = 0

StatusIs(a, S) == action[a] # None /\ action[a].status \in S
HasExpired(a) == action[a].expiresAt < now

SetStatus(a, status) == action' = [action EXCEPT ![a].status = status]

-----------------------------------------------------------------------------
(* The run that asks: registry.execute, until it returns needs_confirmation. *)

Asks(a, from, to) ==
  /\ asking[a] = from
  /\ asking' = [asking EXCEPT ![a] = to]
  /\ UNCHANGED <<request, callVars, now, faults>>

\* The call is recorded as needs_confirmation.
RecordRequestedCall(a) == Asks(a, "record", "create") /\ UNCHANGED <<action, button>>

CreatePendingAction(a) ==
  /\ Asks(a, "create", "complete")
  /\ action' = [action EXCEPT ![a] = [status |-> "pending", expiresAt |-> now + Lifetime]]
  /\ UNCHANGED button

CompleteRequestedCall(a) == Asks(a, "complete", "audit") /\ UNCHANGED <<action, button>>

AuditRequestedCall(a) ==
  /\ Asks(a, "audit", IF Origin[a] = "telegram" THEN "offer" ELSE "over")
  /\ UNCHANGED <<action, button>>

\* One of the two buttons is stored.
CreatePlatformCallback(a, k) ==
  /\ asking[a] = "offer"
  /\ button[a][k] = None
  /\ button' = [button EXCEPT ![a][k] = "active"]
  /\ UNCHANGED <<asking, action, request, callVars, now, faults>>

\* The keyboard is shown once both buttons are stored.
SendButtons(a) ==
  /\ \A k \in Kinds : button[a][k] # None
  /\ Asks(a, "offer", "over")
  /\ UNCHANGED <<action, button>>

Fault == faults < MaxFaults /\ faults' = faults + 1

\* D1 rejects a statement or the Worker goes away; that the buttons cannot be
\* sent is ignored.
AskFails(a) ==
  /\ asking[a] # "over"
  /\ Fault
  /\ asking' = [asking EXCEPT ![a] = "over"]
  /\ UNCHANGED <<action, button, request, callVars, now>>

-----------------------------------------------------------------------------
(* A request: from the admin API, or a click on a Telegram button.           *)

Goto(r, pc) == request' = [request EXCEPT ![r].pc = pc]
Ends(r) == request' = [request EXCEPT ![r] = IdleRequest]

\* An admin confirms one of the actions listed.
AdminConfirms(r, a) ==
  /\ request[r].pc = "idle"
  /\ action[a] # None
  /\ request' = [request EXCEPT ![r] =
       [pc |-> "read", action |-> a, kind |-> "confirm", clicked |-> FALSE]]
  /\ UNCHANGED <<askVars, callVars, now, faults>>

\* Telegram delivers a click: users click twice, and Telegram delivers a click
\* again that was not answered well.
Click(r, a, k) ==
  /\ request[r].pc = "idle"
  /\ asking[a] = "over"
  /\ \A kind \in Kinds : button[a][kind] # None
  /\ request' = [request EXCEPT ![r] =
       [pc |-> "button", action |-> a, kind |-> k, clicked |-> TRUE]]
  /\ UNCHANGED <<askVars, callVars, now, faults>>

\* A button expires with its action.
GetPlatformCallback(r) ==
  LET a == request[r].action
      active == button[a][request[r].kind] = "active"
  IN  /\ request[r].pc = "button"
      /\ \/ ~active /\ Ends(r)
         \/ active /\ HasExpired(a) /\ Goto(r, "expire")
         \/ active /\ ~HasExpired(a) /\ Goto(r, "read")
      /\ UNCHANGED <<askVars, callVars, now, faults>>

SetButton(r, to) ==
  LET a == request[r].action
      k == request[r].kind
  IN  /\ button' = IF button[a][k] = "active" THEN [button EXCEPT ![a][k] = to] ELSE button
      /\ Ends(r)
      /\ UNCHANGED <<asking, action, callVars, now, faults>>

ExpirePlatformCallback(r) == request[r].pc = "expire" /\ SetButton(r, "expired")

MarkPlatformCallbackUsed(r) == request[r].pc = "use" /\ SetButton(r, "used")

\* Mutant: a button is used up by every click.
UsesButtonAnyway(r, ok) == IF request[r].clicked THEN Goto(r, "use") ELSE Ends(r)

\* The request is answered; a button it came from is used up if all went well.
Answers(r, ok) == IF ok /\ request[r].clicked THEN Goto(r, "use") ELSE Ends(r)

\* getPendingAction and the checks after it: an action that has expired can
\* still be rejected.
GetPendingAction(r) ==
  LET a == request[r].action
      ok == StatusIs(a, {"pending"}) /\ (request[r].kind = "confirm" => ~HasExpired(a))
  IN  /\ request[r].pc = "read"
      /\ \/ ok /\ Goto(r, "mark")
         \/ ~ok /\ Answers(r, FALSE)
      /\ UNCHANGED <<askVars, callVars, now, faults>>

\* Mutant: whoever has read the action as pending decides it.
IsKnown(a) == StatusIs(a, Status)

IsStillPending(a) == StatusIs(a, {"pending"})

\* The UPDATE changes no row when another request has decided since.
PendingActionChanged(r) ==
  /\ request[r].pc = "mark"
  /\ ~IsStillPending(request[r].action)
  /\ Answers(r, FALSE)
  /\ UNCHANGED <<askVars, callVars, now, faults>>

MarkPendingActionConfirmed(r) ==
  LET a == request[r].action
  IN  /\ request[r].pc = "mark"
      /\ request[r].kind = "confirm"
      /\ IsStillPending(a)
      /\ SetStatus(a, "confirmed")
      /\ Goto(r, "record")
      /\ UNCHANGED <<asking, button, callVars, now, faults>>

MarkPendingActionCancelled(r) ==
  LET a == request[r].action
  IN  /\ request[r].pc = "mark"
      /\ request[r].kind = "reject"
      /\ IsStillPending(a)
      /\ SetStatus(a, "cancelled")
      /\ Answers(r, TRUE)
      /\ UNCHANGED <<asking, button, callVars, now, faults>>

-----------------------------------------------------------------------------
(* The confirmed call: registry.execute once more, with allowDangerous.      *)

\* The tool is gone, or not available on the platform: nothing is recorded.
ToolIsGone(r) ==
  /\ request[r].pc = "record"
  /\ Goto(r, "finish")
  /\ UNCHANGED <<askVars, callVars, now, faults>>

\* The policy is consulted again, and the call recorded as running or denied.
RecordToolCall(r, status) ==
  /\ request[r].pc = "record"
  /\ toolCall' = [toolCall EXCEPT ![request[r].action] = status]
  /\ Goto(r, IF status = "running" THEN "run" ELSE "audit")
  /\ UNCHANGED <<askVars, audited, runs, continuations, now, faults>>

\* The tool runs, and returns or throws.
ExecuteToolSafely(r) ==
  /\ request[r].pc = "run"
  /\ runs' = [runs EXCEPT ![request[r].action] = @ + 1]
  /\ Goto(r, "complete")
  /\ UNCHANGED <<askVars, toolCall, audited, continuations, now, faults>>

\* Mutant: the audit log is not written for a call that ran.
SkipsAudit(row) == "finish"

\* Mutant: a call that was denied is not marked as executed.
StopsIfDenied(row) == IF row = "denied" THEN "idle" ELSE "finish"

\* A call that ran is completed, then audited; a call that was denied is
\* audited, then completed.
AfterComplete(row) == IF row = "denied" THEN "finish" ELSE "audit"
AfterAudit(row) == IF row = "denied" THEN "complete" ELSE "finish"

CompleteToolCall(r) ==
  LET row == toolCall[request[r].action]
  IN  /\ request[r].pc = "complete"
      /\ toolCall' = [toolCall EXCEPT ![request[r].action] =
           IF row = "denied" THEN "denied" ELSE "finished"]
      /\ Goto(r, AfterComplete(row))
      /\ UNCHANGED <<askVars, audited, runs, continuations, now, faults>>

AppendAuditLog(r) ==
  /\ request[r].pc = "audit"
  /\ audited' = audited \cup {request[r].action}
  /\ Goto(r, AfterAudit(toolCall[request[r].action]))
  /\ UNCHANGED <<askVars, toolCall, runs, continuations, now, faults>>

MarkPendingActionExecuted(r) ==
  /\ request[r].pc = "finish"
  /\ SetStatus(request[r].action, "executed")
  /\ Goto(r, "continue")
  /\ UNCHANGED <<asking, button, callVars, now, faults>>

\* The agent is told the result, if there is a conversation to go on with.
EnqueueContinuation(r) ==
  LET a == request[r].action
  IN  /\ request[r].pc = "continue"
      /\ continuations' = IF Origin[a] = "nowhere" THEN continuations
                          ELSE [continuations EXCEPT ![a] = @ + 1]
      /\ Answers(r, TRUE)
      /\ UNCHANGED <<askVars, toolCall, audited, runs, now, faults>>

\* D1, the Queue or the Worker fails before the next step.
RequestFails(r) ==
  /\ request[r].pc # "idle"
  /\ Fault
  /\ Ends(r)
  /\ UNCHANGED <<askVars, callVars, now>>

Tick ==
  /\ now < MaxTime
  /\ now' = now + 1
  /\ UNCHANGED <<askVars, request, callVars, faults>>

-----------------------------------------------------------------------------
AskStep(a) ==
  \/ RecordRequestedCall(a)
  \/ CreatePendingAction(a)
  \/ CompleteRequestedCall(a)
  \/ AuditRequestedCall(a)
  \/ \E k \in Kinds : CreatePlatformCallback(a, k)
  \/ SendButtons(a)

\* What a request that was received does by itself.
RequestStep(r) ==
  \/ GetPlatformCallback(r)
  \/ ExpirePlatformCallback(r)
  \/ MarkPlatformCallbackUsed(r)
  \/ GetPendingAction(r)
  \/ PendingActionChanged(r)
  \/ MarkPendingActionConfirmed(r)
  \/ MarkPendingActionCancelled(r)
  \/ ToolIsGone(r)
  \/ \E status \in {"running", "denied"} : RecordToolCall(r, status)
  \/ ExecuteToolSafely(r)
  \/ CompleteToolCall(r)
  \/ AppendAuditLog(r)
  \/ MarkPendingActionExecuted(r)
  \/ EnqueueContinuation(r)

Next ==
  \/ \E a \in Actions : AskStep(a) \/ AskFails(a)
  \/ \E r \in Requests, a \in Actions : AdminConfirms(r, a)
  \/ \E r \in Requests, a \in Actions, k \in Kinds : Click(r, a, k)
  \/ \E r \in Requests : RequestStep(r) \/ RequestFails(r)
  \/ Tick

Spec == Init /\ [][Next]_vars

\* A request that does not fail goes on.
FairSpec == Spec /\ \A r \in Requests : WF_vars(RequestStep(r))

-----------------------------------------------------------------------------
(* Properties. *)

\* However many requests confirm an action at once, or again, its tool is run
\* at most once, and its agent told of at most one result, which is stored.
RunsAtMostOnce ==
  \A a \in Actions :
    /\ runs[a] <= 1
    /\ continuations[a] <= 1
    /\ continuations[a] > 0 => StatusIs(a, {"executed"})

\* An action is approved or refused for good and only an approved one is run.
DecisionOf(a) ==
  CASE action[a] = None -> "none"
    [] StatusIs(a, {"pending"}) -> "open"
    [] StatusIs(a, {"confirmed"}) -> "approved"
    [] StatusIs(a, {"cancelled"}) -> "refused"
    [] StatusIs(a, {"executed"}) -> "done"

Decision == INSTANCE OneDecision WITH decision <- [a \in Actions |-> DecisionOf(a)]

\* The rows and the requests implement the abstract decision.
ImplementsOneDecision == Decision!Spec

\* The request r is past the confirmation of its action and not done with it.
Executes(r) == request[r].pc \in {"record", "run", "complete", "audit", "finish"}
IsHeld(a) == \E r \in Requests : request[r].action = a /\ Executes(r)

\* Whatever fails, the tables agree: no tool runs without a record of its
\* call; an action is executed only when its call is finished and audited; and
\* a call is left running only by a fault.
TablesAgree ==
  \A a \in Actions :
    /\ runs[a] > 0 => toolCall[a] \in {"running", "finished"}
    /\ StatusIs(a, {"executed"}) /\ toolCall[a] # None
         => a \in audited /\ toolCall[a] # "running"
    /\ StatusIs(a, {"confirmed"}) /\ ~IsHeld(a) => faults > 0

\* A button is used up only by the decision it stands for.
ButtonTellsDecision ==
  \A a \in Actions :
    /\ button[a]["confirm"] = "used" => StatusIs(a, {"executed"})
    /\ button[a]["reject"] = "used" => StatusIs(a, {"cancelled"})

\* A confirmed action is executed, unless a request fails.
ExecutedUnlessRequestFails ==
  \A a \in Actions : StatusIs(a, {"confirmed"}) ~> StatusIs(a, {"executed"}) \/ faults > 0

\* "When an administrator has confirmed, the system executes the tool again
\* [...] and writes back the result or the error."
EveryConfirmedIsExecuted ==
  \A a \in Actions : StatusIs(a, {"confirmed"}) ~> StatusIs(a, {"executed"})

-----------------------------------------------------------------------------
(* The inductive invariant behind the safety properties.                     *)

\* Nothing was done for an action that is not confirmed, and its row exists
\* from its creation on.
ActionInv(a) ==
  /\ asking[a] \in {"record", "create"} => action[a] = None
  /\ asking[a] \in {"complete", "audit", "offer"} => action[a] # None
  /\ \A k \in Kinds : button[a][k] # None => action[a] # None
  /\ ~StatusIs(a, {"confirmed", "executed"})
       => runs[a] = 0 /\ continuations[a] = 0 /\ toolCall[a] = None

\* How far the execution of the action has come, for the request that executes it.
ProgressInv(r, a) ==
  /\ request[r].pc \in {"record", "run"} => runs[a] = 0
  /\ request[r].pc = "record" => toolCall[a] = None
  /\ request[r].pc = "run" => toolCall[a] = "running"
  /\ request[r].pc = "complete"
       => \/ toolCall[a] = "running"
          \/ toolCall[a] = "denied" /\ a \in audited
  /\ request[r].pc = "audit" => toolCall[a] \in {"finished", "denied"}
  /\ request[r].pc = "finish" /\ toolCall[a] # None
       => toolCall[a] # "running" /\ a \in audited

\* What a request has found out about its action stays true.
RequestInv(r) ==
  LET a == request[r].action
  IN  request[r].pc # "idle" =>
        /\ a \in Actions
        /\ action[a] # None
        /\ Executes(r) => request[r].kind = "confirm" /\ StatusIs(a, {"confirmed"})
        /\ ProgressInv(r, a)
        /\ request[r].pc = "continue"
             => /\ request[r].kind = "confirm"
                /\ StatusIs(a, {"executed"})
                /\ continuations[a] = 0
        /\ request[r].pc = "use"
             => StatusIs(a, {IF request[r].kind = "confirm" THEN "executed" ELSE "cancelled"})

\* Only one request executes an action.
OneExecutor ==
  \A r, q \in Requests :
    /\ Executes(r) \/ request[r].pc = "continue"
    /\ Executes(q) \/ request[q].pc = "continue"
    /\ request[r].action = request[q].action
    => r = q

PendingInv ==
  /\ PendingTypeOK
  /\ \A a \in Actions : ActionInv(a)
  /\ \A r \in Requests : RequestInv(r)
  /\ OneExecutor
  /\ RunsAtMostOnce
  /\ TablesAgree
  /\ ButtonTellsDecision
=============================================================================
