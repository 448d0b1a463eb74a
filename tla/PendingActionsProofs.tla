------------------------ MODULE PendingActionsProofs ------------------------
(* Proofs about PendingActions, for every value of its constants. *)
EXTENDS PendingActions, TLAPS

\* A request that goes on, or ends, is a request, and the others do not move.
LEMMA RequestMoves ==
  ASSUME PendingTypeOK, NEW r \in Requests, NEW pc \in Steps, Goto(r, pc) \/ Ends(r)
  PROVE  /\ request' \in [Requests -> Request]
         /\ Goto(r, pc) => request'[r] = [request[r] EXCEPT !.pc = pc]
         /\ Ends(r) => request'[r] = IdleRequest
         /\ \A q \in Requests \ {r} : request'[q] = request[q]
<1>1. request[r] \in Request /\ IdleRequest \in Request
  BY DEF PendingTypeOK, Request, IdleRequest, Steps, Kinds
<1>2. [request[r] EXCEPT !.pc = pc] \in Request
  BY <1>1 DEF Request
<1> QED
  BY <1>1, <1>2 DEF PendingTypeOK, Goto, Ends

\* A row that gets a new status keeps its expiry, and the others do not change.
LEMMA StatusChanges ==
  ASSUME PendingTypeOK, NEW a \in Actions, action[a] # None, NEW status \in Status,
         SetStatus(a, status)
  PROVE  /\ action' \in [Actions -> Row \cup {None}]
         /\ action'[a] # None
         /\ action'[a].status = status
         /\ \A b \in Actions \ {a} : action'[b] = action[b]
<1>1. action[a] \in Row
  BY DEF PendingTypeOK
<1>2. action'[a] = [action[a] EXCEPT !.status = status]
  BY DEF PendingTypeOK, SetStatus
<1>3. action'[a] \in Row /\ action'[a].status = status
  BY <1>1, <1>2 DEF Row
<1> QED
  BY <1>3, NoneIsNoRow DEF PendingTypeOK, SetStatus

\* Recording the requested call changes nothing else.
LEMMA RecordRequestedCallInv ==
  ASSUME PendingInv, NEW a \in Actions, RecordRequestedCall(a)
  PROVE  PendingInv'
<1> USE DEF PendingInv, askVars, callVars
<1>1. PendingTypeOK'
  BY PendingConstants, NoneIsNoRow DEF PendingTypeOK, Row, Status, Request, Steps, Kinds,
      Stages, RecordRequestedCall, Asks, RequestInv
<1>2. \A b \in Actions : ActionInv(b)'
  BY DEF PendingTypeOK, ActionInv, StatusIs, RecordRequestedCall, Asks
<1>3. \A q \in Requests : RequestInv(q)'
  BY DEF PendingTypeOK, RequestInv, ProgressInv, Executes, StatusIs, ActionInv,
      RecordRequestedCall, Asks
<1>4. OneExecutor'
  BY DEF PendingTypeOK, OneExecutor, RequestInv, Executes, StatusIs, RecordRequestedCall,
      Asks
<1>5. RunsAtMostOnce'
  BY DEF PendingTypeOK, RunsAtMostOnce, StatusIs, RecordRequestedCall, Asks
<1>6. TablesAgree'
  BY DEF PendingTypeOK, TablesAgree, IsHeld, Executes, StatusIs, RequestInv,
      RecordRequestedCall, Asks
<1>7. ButtonTellsDecision'
  BY DEF ButtonTellsDecision, StatusIs, RecordRequestedCall
<1> QED
  BY <1>1, <1>2, <1>3, <1>4, <1>5, <1>6, <1>7

\* A new action is pending, and nothing was done for it.
LEMMA CreatePendingActionInv ==
  ASSUME PendingInv, NEW a \in Actions, CreatePendingAction(a)
  PROVE  PendingInv'
<1> USE DEF PendingInv, askVars, callVars
<1>1. PendingTypeOK'
  BY PendingConstants, NoneIsNoRow DEF PendingTypeOK, Row, Status, Request, Steps, Kinds,
      Stages, CreatePendingAction, Asks, RequestInv
<1>2. \A b \in Actions : ActionInv(b)'
  <2>1. action'[a] = [status |-> "pending", expiresAt |-> now + Lifetime]
    BY DEF PendingTypeOK, CreatePendingAction
  <2>2. action'[a] # None
    <3>1. now + Lifetime \in Nat
      BY PendingConstants DEF PendingTypeOK
    <3> QED
      BY <2>1, <3>1, NoneIsNoRow DEF Row, Status
  <2>3. ActionInv(a)'
    BY <2>1, <2>2 DEF PendingTypeOK, ActionInv, StatusIs, Asks, CreatePendingAction
  <2>4. ASSUME NEW b \in Actions \ {a} PROVE ActionInv(b)'
    BY DEF PendingTypeOK, ActionInv, StatusIs, Asks, CreatePendingAction
  <2> QED
    BY <2>3, <2>4
<1>3. \A q \in Requests : RequestInv(q)'
  BY DEF PendingTypeOK, RequestInv, ProgressInv, Executes, StatusIs, ActionInv,
      CreatePendingAction, Asks
<1>4. OneExecutor'
  BY DEF PendingTypeOK, OneExecutor, RequestInv, Executes, StatusIs, CreatePendingAction,
      Asks
<1>5. RunsAtMostOnce'
  BY DEF PendingTypeOK, RunsAtMostOnce, StatusIs, CreatePendingAction, Asks, ActionInv,
      RequestInv, ProgressInv, Executes
<1>6. TablesAgree'
  BY DEF PendingTypeOK, TablesAgree, IsHeld, Executes, StatusIs, RequestInv,
      CreatePendingAction, Asks
<1>7. ButtonTellsDecision'
  BY DEF PendingTypeOK, ButtonTellsDecision, StatusIs, CreatePendingAction, Asks, ActionInv,
      RequestInv, ProgressInv, Executes
<1> QED
  BY <1>1, <1>2, <1>3, <1>4, <1>5, <1>6, <1>7

\* Completing the requested call changes nothing else.
LEMMA CompleteRequestedCallInv ==
  ASSUME PendingInv, NEW a \in Actions, CompleteRequestedCall(a)
  PROVE  PendingInv'
<1> USE DEF PendingInv, askVars, callVars
<1>1. PendingTypeOK'
  BY PendingConstants, NoneIsNoRow DEF PendingTypeOK, Row, Status, Request, Steps, Kinds,
      Stages, CompleteRequestedCall, Asks, RequestInv
<1>2. \A b \in Actions : ActionInv(b)'
  BY DEF PendingTypeOK, ActionInv, StatusIs, CompleteRequestedCall, Asks
<1>3. \A q \in Requests : RequestInv(q)'
  BY DEF PendingTypeOK, RequestInv, ProgressInv, Executes, StatusIs, ActionInv,
      CompleteRequestedCall, Asks
<1>4. OneExecutor'
  BY DEF PendingTypeOK, OneExecutor, RequestInv, Executes, StatusIs, CompleteRequestedCall,
      Asks
<1>5. RunsAtMostOnce'
  BY DEF PendingTypeOK, RunsAtMostOnce, StatusIs, CompleteRequestedCall, Asks
<1>6. TablesAgree'
  BY DEF PendingTypeOK, TablesAgree, IsHeld, Executes, StatusIs, RequestInv,
      CompleteRequestedCall, Asks
<1>7. ButtonTellsDecision'
  BY DEF ButtonTellsDecision, StatusIs, CompleteRequestedCall
<1> QED
  BY <1>1, <1>2, <1>3, <1>4, <1>5, <1>6, <1>7

\* Auditing the requested call changes nothing else.
LEMMA AuditRequestedCallInv ==
  ASSUME PendingInv, NEW a \in Actions, AuditRequestedCall(a)
  PROVE  PendingInv'
<1> USE DEF PendingInv, askVars, callVars
<1>1. PendingTypeOK'
  BY PendingConstants, NoneIsNoRow DEF PendingTypeOK, Row, Status, Request, Steps, Kinds,
      Stages, AuditRequestedCall, Asks, RequestInv
<1>2. \A b \in Actions : ActionInv(b)'
  BY DEF PendingTypeOK, ActionInv, StatusIs, AuditRequestedCall, Asks
<1>3. \A q \in Requests : RequestInv(q)'
  BY DEF PendingTypeOK, RequestInv, ProgressInv, Executes, StatusIs, ActionInv,
      AuditRequestedCall, Asks
<1>4. OneExecutor'
  BY DEF PendingTypeOK, OneExecutor, RequestInv, Executes, StatusIs, AuditRequestedCall,
      Asks
<1>5. RunsAtMostOnce'
  BY DEF PendingTypeOK, RunsAtMostOnce, StatusIs, AuditRequestedCall, Asks
<1>6. TablesAgree'
  BY DEF PendingTypeOK, TablesAgree, IsHeld, Executes, StatusIs, RequestInv,
      AuditRequestedCall, Asks
<1>7. ButtonTellsDecision'
  BY DEF ButtonTellsDecision, StatusIs, AuditRequestedCall
<1> QED
  BY <1>1, <1>2, <1>3, <1>4, <1>5, <1>6, <1>7

\* A new button is not used.
LEMMA CreatePlatformCallbackInv ==
  ASSUME PendingInv, NEW a \in Actions, NEW k \in Kinds, CreatePlatformCallback(a, k)
  PROVE  PendingInv'
<1> USE DEF PendingInv, askVars, callVars
<1>1. PendingTypeOK'
  BY DEF PendingTypeOK, CreatePlatformCallback
<1>2. \A b \in Actions : ActionInv(b)'
  BY DEF ActionInv, StatusIs, CreatePlatformCallback
<1>3. \A q \in Requests : RequestInv(q)'
  BY DEF PendingTypeOK, RequestInv, ProgressInv, Executes, StatusIs, ActionInv,
      CreatePlatformCallback
<1>4. OneExecutor'
  BY DEF PendingTypeOK, OneExecutor, RequestInv, Executes, StatusIs, CreatePlatformCallback
<1>5. RunsAtMostOnce'
  BY DEF RunsAtMostOnce, StatusIs, CreatePlatformCallback
<1>6. TablesAgree'
  BY DEF PendingTypeOK, TablesAgree, IsHeld, Executes, StatusIs, RequestInv,
      CreatePlatformCallback
<1>7. ButtonTellsDecision'
  BY DEF ButtonTellsDecision, StatusIs, CreatePlatformCallback
<1> QED
  BY <1>1, <1>2, <1>3, <1>4, <1>5, <1>6, <1>7

\* Showing the keyboard changes no row.
LEMMA SendButtonsInv ==
  ASSUME PendingInv, NEW a \in Actions, SendButtons(a)
  PROVE  PendingInv'
<1> USE DEF PendingInv, askVars, callVars
<1>1. PendingTypeOK'
  BY PendingConstants, NoneIsNoRow DEF PendingTypeOK, Row, Status, Request, Steps, Kinds,
      Stages, SendButtons, Asks, RequestInv
<1>2. \A b \in Actions : ActionInv(b)'
  BY DEF PendingTypeOK, ActionInv, StatusIs, SendButtons, Asks
<1>3. \A q \in Requests : RequestInv(q)'
  BY DEF PendingTypeOK, RequestInv, ProgressInv, Executes, StatusIs, ActionInv, SendButtons,
      Asks
<1>4. OneExecutor'
  BY DEF PendingTypeOK, OneExecutor, RequestInv, Executes, StatusIs, SendButtons, Asks
<1>5. RunsAtMostOnce'
  BY DEF PendingTypeOK, RunsAtMostOnce, StatusIs, SendButtons, Asks
<1>6. TablesAgree'
  BY DEF PendingTypeOK, TablesAgree, IsHeld, Executes, StatusIs, RequestInv, SendButtons,
      Asks
<1>7. ButtonTellsDecision'
  BY DEF ButtonTellsDecision, StatusIs, SendButtons
<1> QED
  BY <1>1, <1>2, <1>3, <1>4, <1>5, <1>6, <1>7

\* A run that fails leaves its rows as they are.
LEMMA AskFailsInv ==
  ASSUME PendingInv, NEW a \in Actions, AskFails(a)
  PROVE  PendingInv'
<1> USE DEF PendingInv, askVars, callVars
<1>1. PendingTypeOK'
  BY PendingConstants, NoneIsNoRow DEF PendingTypeOK, Row, Status, Request, Steps, Kinds,
      Stages, AskFails, Fault, RequestInv
<1>2. \A b \in Actions : ActionInv(b)'
  BY DEF ActionInv, StatusIs, AskFails
<1>3. \A q \in Requests : RequestInv(q)'
  BY DEF PendingTypeOK, RequestInv, ProgressInv, Executes, StatusIs, ActionInv, AskFails,
      Fault
<1>4. OneExecutor'
  BY DEF PendingTypeOK, OneExecutor, RequestInv, Executes, StatusIs, AskFails, Fault
<1>5. RunsAtMostOnce'
  BY DEF RunsAtMostOnce, StatusIs, AskFails
<1>6. TablesAgree'
  BY DEF PendingTypeOK, TablesAgree, IsHeld, Executes, StatusIs, RequestInv, AskFails, Fault
<1>7. ButtonTellsDecision'
  BY DEF ButtonTellsDecision, StatusIs, AskFails
<1> QED
  BY <1>1, <1>2, <1>3, <1>4, <1>5, <1>6, <1>7

\* A request begins for an action that exists.
LEMMA AdminConfirmsInv ==
  ASSUME PendingInv, NEW r \in Requests, NEW a \in Actions, AdminConfirms(r, a)
  PROVE  PendingInv'
<1> USE DEF PendingInv, askVars, callVars
<1>1. PendingTypeOK'
  BY PendingConstants, NoneIsNoRow DEF PendingTypeOK, Row, Status, Request, Steps, Kinds,
      Stages, AdminConfirms, RequestInv
<1>2. \A b \in Actions : ActionInv(b)'
  BY DEF ActionInv, StatusIs, AdminConfirms
<1>3. \A q \in Requests : RequestInv(q)'
  BY DEF PendingTypeOK, RequestInv, ProgressInv, Executes, StatusIs, ActionInv,
      AdminConfirms
<1>4. OneExecutor'
  BY DEF PendingTypeOK, OneExecutor, RequestInv, Executes, StatusIs, AdminConfirms
<1>5. RunsAtMostOnce'
  BY DEF RunsAtMostOnce, StatusIs, AdminConfirms
<1>6. TablesAgree'
  BY DEF PendingTypeOK, TablesAgree, IsHeld, Executes, StatusIs, RequestInv, AdminConfirms
<1>7. ButtonTellsDecision'
  BY DEF ButtonTellsDecision, StatusIs, AdminConfirms
<1> QED
  BY <1>1, <1>2, <1>3, <1>4, <1>5, <1>6, <1>7

\* A click is on a button, whose action exists.
LEMMA ClickInv ==
  ASSUME PendingInv, NEW r \in Requests, NEW a \in Actions, NEW k \in Kinds, Click(r, a, k)
  PROVE  PendingInv'
<1> USE DEF PendingInv, askVars, callVars
<1>1. PendingTypeOK'
  BY DEF PendingTypeOK, Request, Steps, Click
<1>2. \A b \in Actions : ActionInv(b)'
  BY DEF ActionInv, StatusIs, Click
<1>3. \A q \in Requests : RequestInv(q)'
  BY DEF PendingTypeOK, RequestInv, ProgressInv, Executes, StatusIs, ActionInv, Click
<1>4. OneExecutor'
  BY DEF PendingTypeOK, OneExecutor, RequestInv, Executes, StatusIs, Click
<1>5. RunsAtMostOnce'
  BY DEF RunsAtMostOnce, StatusIs, Click
<1>6. TablesAgree'
  BY DEF PendingTypeOK, TablesAgree, IsHeld, Executes, StatusIs, RequestInv, Click
<1>7. ButtonTellsDecision'
  BY DEF ButtonTellsDecision, StatusIs, Click
<1> QED
  BY <1>1, <1>2, <1>3, <1>4, <1>5, <1>6, <1>7

\* Reading the button decides nothing.
LEMMA GetPlatformCallbackInv ==
  ASSUME PendingInv, NEW r \in Requests, GetPlatformCallback(r)
  PROVE  PendingInv'
<1> USE DEF PendingInv, askVars, callVars
<1> DEFINE a == request[r].action
<1>a. PICK pc \in {"expire", "read"} : Goto(r, pc) \/ Ends(r)
  BY DEF GetPlatformCallback
<1>b. /\ request' \in [Requests -> Request]
      /\ request'[r] = IdleRequest \/ request'[r] = [request[r] EXCEPT !.pc = pc]
      /\ \A q \in Requests \ {r} : request'[q] = request[q]
  BY <1>a, RequestMoves DEF Steps
<1>c. a \in Actions /\ action[a] # None /\ request[r] \in Request
  BY DEF PendingTypeOK, RequestInv, GetPlatformCallback
<1>1. PendingTypeOK'
  BY <1>b, <1>c DEF PendingTypeOK, GetPlatformCallback
<1>2. \A b \in Actions : ActionInv(b)'
  BY DEF ActionInv, StatusIs, GetPlatformCallback
<1>3. \A q \in Requests : RequestInv(q)'
  BY PendingConstants, NoneIsNoRow DEF PendingTypeOK, Row, Status, Request, Steps, Kinds,
      Stages, RequestInv, ProgressInv, Executes, StatusIs, ActionInv, GetPlatformCallback,
      Goto, Ends, IdleRequest, OneExecutor
<1>4. OneExecutor'
  BY DEF PendingTypeOK, Request, Steps, OneExecutor, RequestInv, Executes, StatusIs,
      GetPlatformCallback, Goto, Ends, IdleRequest
<1>5. RunsAtMostOnce'
  BY DEF RunsAtMostOnce, StatusIs, GetPlatformCallback
<1>6. TablesAgree'
  BY DEF PendingTypeOK, Request, Steps, TablesAgree, IsHeld, Executes, StatusIs, RequestInv,
      GetPlatformCallback, Goto, Ends, IdleRequest
<1>7. ButtonTellsDecision'
  BY DEF ButtonTellsDecision, StatusIs, GetPlatformCallback
<1> QED
  BY <1>1, <1>2, <1>3, <1>4, <1>5, <1>6, <1>7

\* An expired button is not used.
LEMMA ExpirePlatformCallbackInv ==
  ASSUME PendingInv, NEW r \in Requests, ExpirePlatformCallback(r)
  PROVE  PendingInv'
<1> USE DEF PendingInv, askVars, callVars
<1>1. PendingTypeOK'
  BY PendingConstants, NoneIsNoRow DEF PendingTypeOK, Row, Status, Request, Steps, Kinds,
      Stages, ExpirePlatformCallback, SetButton, Ends, IdleRequest, RequestInv
<1>2. \A b \in Actions : ActionInv(b)'
  BY DEF PendingTypeOK, ActionInv, StatusIs, ExpirePlatformCallback, SetButton, Ends,
      IdleRequest, RequestInv, ProgressInv, Executes
<1>3. \A q \in Requests : RequestInv(q)'
  BY DEF PendingTypeOK, RequestInv, ProgressInv, Executes, StatusIs, ActionInv,
      ExpirePlatformCallback, SetButton, Ends, IdleRequest
<1>4. OneExecutor'
  BY DEF PendingTypeOK, OneExecutor, RequestInv, Executes, StatusIs, ExpirePlatformCallback,
      SetButton, Ends, IdleRequest
<1>5. RunsAtMostOnce'
  BY DEF PendingTypeOK, RunsAtMostOnce, StatusIs, ExpirePlatformCallback, SetButton, Ends,
      IdleRequest
<1>6. TablesAgree'
  BY DEF PendingTypeOK, TablesAgree, IsHeld, Executes, StatusIs, RequestInv,
      ExpirePlatformCallback, SetButton, Ends, IdleRequest
<1>7. ButtonTellsDecision'
  BY DEF PendingTypeOK, ButtonTellsDecision, StatusIs, ExpirePlatformCallback, SetButton,
      Ends, IdleRequest
<1> QED
  BY <1>1, <1>2, <1>3, <1>4, <1>5, <1>6, <1>7

\* The action is decided as the button says.
LEMMA MarkPlatformCallbackUsedInv ==
  ASSUME PendingInv, NEW r \in Requests, MarkPlatformCallbackUsed(r)
  PROVE  PendingInv'
<1> USE DEF PendingInv, askVars, callVars
<1>1. PendingTypeOK'
  BY PendingConstants, NoneIsNoRow DEF PendingTypeOK, Row, Status, Request, Steps, Kinds,
      Stages, MarkPlatformCallbackUsed, SetButton, Ends, IdleRequest, RequestInv
<1>2. \A b \in Actions : ActionInv(b)'
  BY DEF PendingTypeOK, ActionInv, StatusIs, MarkPlatformCallbackUsed, SetButton, Ends,
      IdleRequest, RequestInv, ProgressInv, Executes
<1>3. \A q \in Requests : RequestInv(q)'
  BY DEF PendingTypeOK, RequestInv, ProgressInv, Executes, StatusIs, ActionInv,
      MarkPlatformCallbackUsed, SetButton, Ends, IdleRequest
<1>4. OneExecutor'
  BY DEF PendingTypeOK, OneExecutor, RequestInv, Executes, StatusIs,
      MarkPlatformCallbackUsed, SetButton, Ends, IdleRequest
<1>5. RunsAtMostOnce'
  BY DEF PendingTypeOK, RunsAtMostOnce, StatusIs, MarkPlatformCallbackUsed, SetButton, Ends,
      IdleRequest
<1>6. TablesAgree'
  BY DEF PendingTypeOK, TablesAgree, IsHeld, Executes, StatusIs, RequestInv,
      MarkPlatformCallbackUsed, SetButton, Ends, IdleRequest
<1>7. ButtonTellsDecision'
  BY DEF PendingTypeOK, ButtonTellsDecision, StatusIs, MarkPlatformCallbackUsed, SetButton,
      Ends, IdleRequest, ActionInv, RequestInv, ProgressInv, Executes
<1> QED
  BY <1>1, <1>2, <1>3, <1>4, <1>5, <1>6, <1>7

\* Reading the action decides nothing.
LEMMA GetPendingActionInv ==
  ASSUME PendingInv, NEW r \in Requests, GetPendingAction(r)
  PROVE  PendingInv'
<1> USE DEF PendingInv, askVars, callVars
<1> DEFINE a == request[r].action
<1>a. PICK pc \in {"mark"} : Goto(r, pc) \/ Ends(r)
  BY DEF GetPendingAction, Answers
<1>b. /\ request' \in [Requests -> Request]
      /\ request'[r] = IdleRequest \/ request'[r] = [request[r] EXCEPT !.pc = pc]
      /\ \A q \in Requests \ {r} : request'[q] = request[q]
  BY <1>a, RequestMoves DEF Steps
<1>c. a \in Actions /\ action[a] # None /\ request[r] \in Request
  BY DEF PendingTypeOK, RequestInv, GetPendingAction
<1>1. PendingTypeOK'
  BY <1>b, <1>c DEF PendingTypeOK, GetPendingAction
<1>2. \A b \in Actions : ActionInv(b)'
  BY DEF ActionInv, StatusIs, GetPendingAction
<1>3. \A q \in Requests : RequestInv(q)'
  <2>1. RequestInv(r)'
    BY <1>a, <1>b, <1>c
    DEF RequestInv, ProgressInv, Executes, StatusIs, Request, IdleRequest, GetPendingAction
  <2>2. ASSUME NEW q \in Requests \ {r} PROVE RequestInv(q)'
    BY <1>b DEF RequestInv, ProgressInv, Executes, StatusIs, GetPendingAction
  <2> QED
    BY <2>1, <2>2
<1>4. OneExecutor'
  BY DEF PendingTypeOK, Request, Steps, OneExecutor, RequestInv, Executes, StatusIs,
      GetPendingAction, Goto, Answers, Ends, IdleRequest
<1>5. RunsAtMostOnce'
  BY DEF RunsAtMostOnce, StatusIs, GetPendingAction
<1>6. TablesAgree'
  BY DEF PendingTypeOK, Request, Steps, TablesAgree, IsHeld, Executes, StatusIs, RequestInv,
      GetPendingAction, Goto, Answers, Ends, IdleRequest
<1>7. ButtonTellsDecision'
  BY DEF ButtonTellsDecision, StatusIs, GetPendingAction
<1> QED
  BY <1>1, <1>2, <1>3, <1>4, <1>5, <1>6, <1>7

\* A request that comes late decides nothing.
LEMMA PendingActionChangedInv ==
  ASSUME PendingInv, NEW r \in Requests, PendingActionChanged(r)
  PROVE  PendingInv'
<1> USE DEF PendingInv, askVars, callVars
<1> DEFINE a == request[r].action
<1>a. PICK pc \in {"use"} : Goto(r, pc) \/ Ends(r)
  BY DEF PendingActionChanged, Answers
<1>b. /\ request' \in [Requests -> Request]
      /\ request'[r] = IdleRequest \/ request'[r] = [request[r] EXCEPT !.pc = pc]
      /\ \A q \in Requests \ {r} : request'[q] = request[q]
  BY <1>a, RequestMoves DEF Steps
<1>c. a \in Actions /\ action[a] # None /\ request[r] \in Request
  BY DEF PendingTypeOK, RequestInv, PendingActionChanged
<1>1. PendingTypeOK'
  BY <1>b, <1>c DEF PendingTypeOK, PendingActionChanged
<1>2. \A b \in Actions : ActionInv(b)'
  BY DEF ActionInv, StatusIs, PendingActionChanged
<1>3. \A q \in Requests : RequestInv(q)'
  BY DEF PendingTypeOK, RequestInv, ProgressInv, Executes, StatusIs, ActionInv,
      PendingActionChanged, Answers, Ends, IdleRequest
<1>4. OneExecutor'
  BY DEF PendingTypeOK, OneExecutor, RequestInv, Executes, StatusIs, PendingActionChanged,
      Answers, Ends, IdleRequest
<1>5. RunsAtMostOnce'
  BY DEF RunsAtMostOnce, StatusIs, PendingActionChanged
<1>6. TablesAgree'
  BY DEF PendingTypeOK, TablesAgree, IsHeld, Executes, StatusIs, RequestInv,
      PendingActionChanged, Answers, Ends, IdleRequest
<1>7. ButtonTellsDecision'
  BY DEF ButtonTellsDecision, StatusIs, PendingActionChanged
<1> QED
  BY <1>1, <1>2, <1>3, <1>4, <1>5, <1>6, <1>7

\* Nobody executes an action that is still pending, so the request that
\* confirms it is the only one to execute it.
LEMMA MarkPendingActionConfirmedInv ==
  ASSUME PendingInv, NEW r \in Requests, MarkPendingActionConfirmed(r)
  PROVE  PendingInv'
<1> USE DEF PendingInv, askVars, callVars
<1> DEFINE a == request[r].action
<1>a. PICK pc \in {"record"} : Goto(r, pc) \/ Ends(r)
  BY DEF MarkPendingActionConfirmed
<1>b. /\ request' \in [Requests -> Request]
      /\ request'[r] = IdleRequest \/ request'[r] = [request[r] EXCEPT !.pc = pc]
      /\ \A q \in Requests \ {r} : request'[q] = request[q]
  BY <1>a, RequestMoves DEF Steps
<1>c. a \in Actions /\ action[a] # None /\ request[r] \in Request
  BY DEF PendingTypeOK, RequestInv, MarkPendingActionConfirmed
<1>d. /\ action' \in [Actions -> Row \cup {None}]
      /\ action'[a] # None
      /\ action'[a].status = "confirmed"
      /\ \A b \in Actions \ {a} : action'[b] = action[b]
  BY <1>c, StatusChanges DEF Status, MarkPendingActionConfirmed
<1>1. PendingTypeOK'
  BY <1>b, <1>c, <1>d DEF PendingTypeOK, MarkPendingActionConfirmed
<1>2. \A b \in Actions : ActionInv(b)'
  BY <1>c, <1>d DEF ActionInv, StatusIs, RequestInv, Executes, IsStillPending,
      MarkPendingActionConfirmed
<1>3. \A q \in Requests : RequestInv(q)'
  <2>1. RequestInv(r)'
    BY <1>b, <1>c, <1>d DEF RequestInv, ProgressInv, Executes, StatusIs, ActionInv, Request,
        IdleRequest,
        MarkPendingActionConfirmed, IsStillPending
  <2>2. ASSUME NEW q \in Requests \ {r} PROVE RequestInv(q)'
    BY <1>b, <1>c, <1>d DEF RequestInv, ProgressInv, Executes, StatusIs, OneExecutor,
        MarkPendingActionConfirmed, IsStillPending
  <2> QED
    BY <2>1, <2>2
<1>4. OneExecutor'
  BY <1>b, <1>c DEF OneExecutor, RequestInv, Executes, StatusIs, Request, IdleRequest,
      IsStillPending, MarkPendingActionConfirmed
<1>5. RunsAtMostOnce'
  BY DEF PendingTypeOK, RunsAtMostOnce, StatusIs, MarkPendingActionConfirmed, Goto,
      SetStatus, IsStillPending
<1>6. TablesAgree'
  BY DEF PendingTypeOK, TablesAgree, IsHeld, Executes, StatusIs, RequestInv,
      MarkPendingActionConfirmed, Goto, SetStatus, IsStillPending
<1>7. ButtonTellsDecision'
  BY DEF PendingTypeOK, ButtonTellsDecision, StatusIs, MarkPendingActionConfirmed, Goto,
      SetStatus, IsStillPending
<1> QED
  BY <1>1, <1>2, <1>3, <1>4, <1>5, <1>6, <1>7

\* Nobody executes an action that is still pending.
LEMMA MarkPendingActionCancelledInv ==
  ASSUME PendingInv, NEW r \in Requests, MarkPendingActionCancelled(r)
  PROVE  PendingInv'
<1> USE DEF PendingInv, askVars, callVars
<1> DEFINE a == request[r].action
<1>a. PICK pc \in {"use"} : Goto(r, pc) \/ Ends(r)
  BY DEF MarkPendingActionCancelled, Answers
<1>b. /\ request' \in [Requests -> Request]
      /\ request'[r] = IdleRequest \/ request'[r] = [request[r] EXCEPT !.pc = pc]
      /\ \A q \in Requests \ {r} : request'[q] = request[q]
  BY <1>a, RequestMoves DEF Steps
<1>c. a \in Actions /\ action[a] # None /\ request[r] \in Request
  BY DEF PendingTypeOK, RequestInv, MarkPendingActionCancelled
<1>d. /\ action' \in [Actions -> Row \cup {None}]
      /\ action'[a] # None
      /\ action'[a].status = "cancelled"
      /\ \A b \in Actions \ {a} : action'[b] = action[b]
  BY <1>c, StatusChanges DEF Status, MarkPendingActionCancelled
<1>1. PendingTypeOK'
  BY <1>b, <1>c, <1>d DEF PendingTypeOK, MarkPendingActionCancelled
<1>2. \A b \in Actions : ActionInv(b)'
  BY <1>c, <1>d DEF ActionInv, StatusIs, RequestInv, Executes, IsStillPending,
      MarkPendingActionCancelled
<1>3. \A q \in Requests : RequestInv(q)'
  <2>1. RequestInv(r)'
    BY <1>b, <1>c, <1>d DEF RequestInv, ProgressInv, Executes, StatusIs, ActionInv, Request,
        IdleRequest,
        MarkPendingActionCancelled, IsStillPending
  <2>2. ASSUME NEW q \in Requests \ {r} PROVE RequestInv(q)'
    BY <1>b, <1>c, <1>d DEF RequestInv, ProgressInv, Executes, StatusIs, OneExecutor,
        MarkPendingActionCancelled, IsStillPending
  <2> QED
    BY <2>1, <2>2
<1>4. OneExecutor'
  BY <1>b, <1>c DEF OneExecutor, RequestInv, Executes, StatusIs, Request, IdleRequest,
      IsStillPending, MarkPendingActionCancelled
<1>5. RunsAtMostOnce'
  BY DEF PendingTypeOK, RunsAtMostOnce, StatusIs, MarkPendingActionCancelled, Answers, Goto,
      Ends, IdleRequest, SetStatus, IsStillPending
<1>6. TablesAgree'
  BY PendingConstants, NoneIsNoRow DEF PendingTypeOK, Row, Status, Request, Steps, Kinds,
      Stages, TablesAgree, IsHeld, Executes, StatusIs, RequestInv,
      MarkPendingActionCancelled, Answers, Goto, Ends, IdleRequest, SetStatus,
      IsStillPending, OneExecutor, ProgressInv
<1>7. ButtonTellsDecision'
  BY DEF PendingTypeOK, ButtonTellsDecision, StatusIs, MarkPendingActionCancelled, Answers,
      Goto, Ends, IdleRequest, SetStatus, IsStillPending
<1> QED
  BY <1>1, <1>2, <1>3, <1>4, <1>5, <1>6, <1>7

\* Without a record of the call there is nothing to audit.
LEMMA ToolIsGoneInv ==
  ASSUME PendingInv, NEW r \in Requests, ToolIsGone(r)
  PROVE  PendingInv'
<1> USE DEF PendingInv, askVars, callVars
<1>1. PendingTypeOK'
  BY DEF PendingTypeOK, Request, Steps, ToolIsGone, Goto
<1>2. \A b \in Actions : ActionInv(b)'
  BY DEF ActionInv, StatusIs, ToolIsGone
<1>3. \A q \in Requests : RequestInv(q)'
  BY DEF PendingTypeOK, RequestInv, ProgressInv, Executes, StatusIs, ActionInv, ToolIsGone,
      Goto
<1>4. OneExecutor'
  BY DEF PendingTypeOK, OneExecutor, RequestInv, Executes, StatusIs, ToolIsGone, Goto
<1>5. RunsAtMostOnce'
  BY DEF RunsAtMostOnce, StatusIs, ToolIsGone
<1>6. TablesAgree'
  BY DEF PendingTypeOK, TablesAgree, IsHeld, Executes, StatusIs, RequestInv, ToolIsGone,
      Goto
<1>7. ButtonTellsDecision'
  BY DEF ButtonTellsDecision, StatusIs, ToolIsGone
<1> QED
  BY <1>1, <1>2, <1>3, <1>4, <1>5, <1>6, <1>7

\* The call is recorded before the tool runs.
LEMMA RecordToolCallInv ==
  ASSUME PendingInv, NEW r \in Requests, NEW status \in {"running", "denied"},
         RecordToolCall(r, status)
  PROVE  PendingInv'
<1> USE DEF PendingInv, askVars, callVars
<1>1. PendingTypeOK'
  BY DEF PendingTypeOK, Request, Steps, RecordToolCall, Goto
<1>2. \A b \in Actions : ActionInv(b)'
  BY DEF PendingTypeOK, ActionInv, StatusIs, RecordToolCall, Goto, RequestInv, ProgressInv,
      Executes
<1>3. \A q \in Requests : RequestInv(q)'
  BY PendingConstants, NoneIsNoRow DEF PendingTypeOK, Row, Status, Request, Steps, Kinds,
      Stages, RequestInv, ProgressInv, Executes, StatusIs, ActionInv, RecordToolCall, Goto,
      OneExecutor
<1>4. OneExecutor'
  BY DEF PendingTypeOK, OneExecutor, RequestInv, Executes, StatusIs, RecordToolCall, Goto
<1>5. RunsAtMostOnce'
  BY DEF RunsAtMostOnce, StatusIs, RecordToolCall
<1>6. TablesAgree'
  BY PendingConstants, NoneIsNoRow DEF PendingTypeOK, Row, Status, Request, Steps, Kinds,
      Stages, TablesAgree, IsHeld, Executes, StatusIs, RequestInv, RecordToolCall, Goto,
      OneExecutor, ProgressInv
<1>7. ButtonTellsDecision'
  BY DEF ButtonTellsDecision, StatusIs, RecordToolCall
<1> QED
  BY <1>1, <1>2, <1>3, <1>4, <1>5, <1>6, <1>7

\* The only request that executes the action runs the tool once.
LEMMA ExecuteToolSafelyInv ==
  ASSUME PendingInv, NEW r \in Requests, ExecuteToolSafely(r)
  PROVE  PendingInv'
<1> USE DEF PendingInv, askVars, callVars
<1> DEFINE a == request[r].action
<1>a. PICK pc \in {"complete"} : Goto(r, pc) \/ Ends(r)
  BY DEF ExecuteToolSafely
<1>b. /\ request' \in [Requests -> Request]
      /\ request'[r] = IdleRequest \/ request'[r] = [request[r] EXCEPT !.pc = pc]
      /\ \A q \in Requests \ {r} : request'[q] = request[q]
  BY <1>a, RequestMoves DEF Steps
<1>c. a \in Actions /\ action[a] # None /\ request[r] \in Request
  BY DEF PendingTypeOK, RequestInv, ExecuteToolSafely
<1>1. PendingTypeOK'
  BY <1>b, <1>c DEF PendingTypeOK, ExecuteToolSafely
<1>2. \A b \in Actions : ActionInv(b)'
  BY DEF PendingTypeOK, ActionInv, StatusIs, ExecuteToolSafely, Goto, RequestInv,
      ProgressInv, Executes
<1>3. \A q \in Requests : RequestInv(q)'
  BY PendingConstants, NoneIsNoRow DEF PendingTypeOK, Row, Status, Request, Steps, Kinds,
      Stages, RequestInv, ProgressInv, Executes, StatusIs, ActionInv, ExecuteToolSafely,
      Goto, OneExecutor
<1>4. OneExecutor'
  BY DEF PendingTypeOK, OneExecutor, RequestInv, Executes, StatusIs, ExecuteToolSafely, Goto
<1>5. RunsAtMostOnce'
  BY DEF PendingTypeOK, RunsAtMostOnce, StatusIs, ExecuteToolSafely, Goto, ActionInv,
      RequestInv, ProgressInv, Executes
<1>6. TablesAgree'
  BY PendingConstants, NoneIsNoRow DEF PendingTypeOK, Row, Status, Request, Steps, Kinds,
      Stages, TablesAgree, IsHeld, Executes, StatusIs, RequestInv, ExecuteToolSafely, Goto,
      OneExecutor, ProgressInv
<1>7. ButtonTellsDecision'
  BY DEF ButtonTellsDecision, StatusIs, ExecuteToolSafely
<1> QED
  BY <1>1, <1>2, <1>3, <1>4, <1>5, <1>6, <1>7

\* A call that is completed no longer runs.
LEMMA CompleteToolCallInv ==
  ASSUME PendingInv, NEW r \in Requests, CompleteToolCall(r)
  PROVE  PendingInv'
<1> USE DEF PendingInv, askVars, callVars
<1>1. PendingTypeOK'
  BY DEF PendingTypeOK, Request, Steps, CompleteToolCall, Goto, AfterComplete
<1>2. \A b \in Actions : ActionInv(b)'
  BY DEF PendingTypeOK, ActionInv, StatusIs, CompleteToolCall, Goto, AfterComplete,
      RequestInv, ProgressInv, Executes
<1>3. \A q \in Requests : RequestInv(q)'
  BY PendingConstants, NoneIsNoRow DEF PendingTypeOK, Row, Status, Request, Steps, Kinds,
      Stages, RequestInv, ProgressInv, Executes, StatusIs, ActionInv, CompleteToolCall,
      Goto, AfterComplete, OneExecutor
<1>4. OneExecutor'
  BY DEF PendingTypeOK, OneExecutor, RequestInv, Executes, StatusIs, CompleteToolCall, Goto,
      AfterComplete
<1>5. RunsAtMostOnce'
  BY DEF RunsAtMostOnce, StatusIs, CompleteToolCall
<1>6. TablesAgree'
  BY DEF PendingTypeOK, TablesAgree, IsHeld, Executes, StatusIs, RequestInv,
      CompleteToolCall, Goto, AfterComplete
<1>7. ButtonTellsDecision'
  BY DEF ButtonTellsDecision, StatusIs, CompleteToolCall
<1> QED
  BY <1>1, <1>2, <1>3, <1>4, <1>5, <1>6, <1>7

\* The audit log only grows.
LEMMA AppendAuditLogInv ==
  ASSUME PendingInv, NEW r \in Requests, AppendAuditLog(r)
  PROVE  PendingInv'
<1> USE DEF PendingInv, askVars, callVars
<1> DEFINE a == request[r].action
<1>a. PICK pc \in {"complete", "finish"} : Goto(r, pc) \/ Ends(r)
  BY DEF AppendAuditLog, AfterAudit
<1>b. /\ request' \in [Requests -> Request]
      /\ request'[r] = IdleRequest \/ request'[r] = [request[r] EXCEPT !.pc = pc]
      /\ \A q \in Requests \ {r} : request'[q] = request[q]
  BY <1>a, RequestMoves DEF Steps
<1>c. a \in Actions /\ action[a] # None /\ request[r] \in Request
  BY DEF PendingTypeOK, RequestInv, AppendAuditLog
<1>1. PendingTypeOK'
  BY <1>b, <1>c DEF PendingTypeOK, AppendAuditLog
<1>2. \A b \in Actions : ActionInv(b)'
  BY DEF ActionInv, StatusIs, AppendAuditLog
<1>3. \A q \in Requests : RequestInv(q)'
  BY DEF PendingTypeOK, RequestInv, ProgressInv, Executes, StatusIs, ActionInv,
      AppendAuditLog, Goto, AfterAudit
<1>4. OneExecutor'
  BY DEF PendingTypeOK, OneExecutor, RequestInv, Executes, StatusIs, AppendAuditLog, Goto,
      AfterAudit
<1>5. RunsAtMostOnce'
  BY DEF RunsAtMostOnce, StatusIs, AppendAuditLog
<1>6. TablesAgree'
  BY DEF PendingTypeOK, TablesAgree, IsHeld, Executes, StatusIs, RequestInv, AppendAuditLog,
      Goto, AfterAudit
<1>7. ButtonTellsDecision'
  BY DEF ButtonTellsDecision, StatusIs, AppendAuditLog
<1> QED
  BY <1>1, <1>2, <1>3, <1>4, <1>5, <1>6, <1>7

\* The action is executed once its call is over.
LEMMA MarkPendingActionExecutedInv ==
  ASSUME PendingInv, NEW r \in Requests, MarkPendingActionExecuted(r)
  PROVE  PendingInv'
<1> USE DEF PendingInv, askVars, callVars
<1> DEFINE a == request[r].action
<1>a. PICK pc \in {"continue"} : Goto(r, pc) \/ Ends(r)
  BY DEF MarkPendingActionExecuted
<1>b. /\ request' \in [Requests -> Request]
      /\ request'[r] = IdleRequest \/ request'[r] = [request[r] EXCEPT !.pc = pc]
      /\ \A q \in Requests \ {r} : request'[q] = request[q]
  BY <1>a, RequestMoves DEF Steps
<1>c. a \in Actions /\ action[a] # None /\ request[r] \in Request
  BY DEF PendingTypeOK, RequestInv, MarkPendingActionExecuted
<1>d. /\ action' \in [Actions -> Row \cup {None}]
      /\ action'[a] # None
      /\ action'[a].status = "executed"
      /\ \A b \in Actions \ {a} : action'[b] = action[b]
  BY <1>c, StatusChanges DEF Status, MarkPendingActionExecuted
<1>1. PendingTypeOK'
  BY <1>b, <1>c, <1>d DEF PendingTypeOK, MarkPendingActionExecuted
<1>2. \A b \in Actions : ActionInv(b)'
  BY <1>c, <1>d DEF ActionInv, StatusIs, RequestInv, Executes, IsStillPending,
      MarkPendingActionExecuted
<1>3. \A q \in Requests : RequestInv(q)'
  <2>1. RequestInv(r)'
    <3>1. StatusIs(a, {"confirmed"}) /\ request[r].kind = "confirm"
      BY DEF RequestInv, Executes, MarkPendingActionExecuted
    <3>2. continuations[a] = 0
      BY <1>c, <3>1 DEF PendingTypeOK, RunsAtMostOnce, StatusIs
    <3> QED
      BY <1>b, <1>c, <1>d, <3>1, <3>2
      DEF RequestInv, ProgressInv, Executes, StatusIs, Request, IdleRequest,
          MarkPendingActionExecuted
  <2>2. ASSUME NEW q \in Requests \ {r} PROVE RequestInv(q)'
    BY <1>b, <1>c, <1>d
    DEF RequestInv, ProgressInv, Executes, StatusIs, OneExecutor, MarkPendingActionExecuted
  <2> QED
    BY <2>1, <2>2
<1>4. OneExecutor'
  BY <1>b, <1>c DEF OneExecutor, RequestInv, Executes, StatusIs, Request, IdleRequest,
      IsStillPending, MarkPendingActionExecuted
<1>5. RunsAtMostOnce'
  BY DEF PendingTypeOK, RunsAtMostOnce, StatusIs, MarkPendingActionExecuted, Goto,
      SetStatus, ActionInv, RequestInv, ProgressInv, Executes
<1>6. TablesAgree'
  BY PendingConstants, NoneIsNoRow DEF PendingTypeOK, Row, Status, Request, Steps, Kinds,
      Stages, TablesAgree, IsHeld, Executes, StatusIs, RequestInv,
      MarkPendingActionExecuted, Goto, SetStatus, OneExecutor, ProgressInv
<1>7. ButtonTellsDecision'
  BY DEF PendingTypeOK, ButtonTellsDecision, StatusIs, MarkPendingActionExecuted, Goto,
      SetStatus, ActionInv, RequestInv, ProgressInv, Executes
<1> QED
  BY <1>1, <1>2, <1>3, <1>4, <1>5, <1>6, <1>7

\* Only the request that executed the action goes on with it.
LEMMA EnqueueContinuationInv ==
  ASSUME PendingInv, NEW r \in Requests, EnqueueContinuation(r)
  PROVE  PendingInv'
<1> USE DEF PendingInv, askVars, callVars
<1> DEFINE a == request[r].action
<1>a. PICK pc \in {"use"} : Goto(r, pc) \/ Ends(r)
  BY DEF EnqueueContinuation, Answers
<1>b. /\ request' \in [Requests -> Request]
      /\ request'[r] = IdleRequest \/ request'[r] = [request[r] EXCEPT !.pc = pc]
      /\ \A q \in Requests \ {r} : request'[q] = request[q]
  BY <1>a, RequestMoves DEF Steps
<1>c. a \in Actions /\ action[a] # None /\ request[r] \in Request
  BY DEF PendingTypeOK, RequestInv, EnqueueContinuation
<1>1. PendingTypeOK'
  BY <1>b, <1>c DEF PendingTypeOK, EnqueueContinuation
<1>2. \A b \in Actions : ActionInv(b)'
  BY DEF PendingTypeOK, ActionInv, StatusIs, EnqueueContinuation, Answers, Goto, Ends,
      IdleRequest, RequestInv, ProgressInv, Executes
<1>3. \A q \in Requests : RequestInv(q)'
  <2>1. RequestInv(r)'
    BY <1>b, <1>c
    DEF RequestInv, ProgressInv, Executes, StatusIs, Request, IdleRequest,
        EnqueueContinuation
  <2>2. ASSUME NEW q \in Requests \ {r} PROVE RequestInv(q)'
    BY <1>b, <1>c
    DEF PendingTypeOK, RequestInv, ProgressInv, Executes, StatusIs, OneExecutor,
        EnqueueContinuation
  <2> QED
    BY <2>1, <2>2
<1>4. OneExecutor'
  BY PendingConstants, NoneIsNoRow DEF PendingTypeOK, Row, Status, Request, Steps, Kinds,
      Stages, OneExecutor, RequestInv, Executes, StatusIs, EnqueueContinuation, Answers,
      Goto, Ends, IdleRequest, ProgressInv
<1>5. RunsAtMostOnce'
  BY DEF PendingTypeOK, RunsAtMostOnce, StatusIs, EnqueueContinuation, Answers, Goto, Ends,
      IdleRequest, ActionInv, RequestInv, ProgressInv, Executes
<1>6. TablesAgree'
  BY PendingConstants, NoneIsNoRow DEF PendingTypeOK, Row, Status, Request, Steps, Kinds,
      Stages, TablesAgree, IsHeld, Executes, StatusIs, RequestInv, EnqueueContinuation,
      Answers, Goto, Ends, IdleRequest, OneExecutor, ProgressInv
<1>7. ButtonTellsDecision'
  BY DEF ButtonTellsDecision, StatusIs, EnqueueContinuation
<1> QED
  BY <1>1, <1>2, <1>3, <1>4, <1>5, <1>6, <1>7

\* A request that fails leaves its rows as they are.
LEMMA RequestFailsInv ==
  ASSUME PendingInv, NEW r \in Requests, RequestFails(r)
  PROVE  PendingInv'
<1> USE DEF PendingInv, askVars, callVars
<1>1. PendingTypeOK'
  BY PendingConstants, NoneIsNoRow DEF PendingTypeOK, Row, Status, Request, Steps, Kinds,
      Stages, RequestFails, Fault, Ends, IdleRequest, RequestInv
<1>2. \A b \in Actions : ActionInv(b)'
  BY DEF ActionInv, StatusIs, RequestFails
<1>3. \A q \in Requests : RequestInv(q)'
  BY DEF PendingTypeOK, RequestInv, ProgressInv, Executes, StatusIs, ActionInv,
      RequestFails, Fault, Ends, IdleRequest
<1>4. OneExecutor'
  BY DEF PendingTypeOK, OneExecutor, RequestInv, Executes, StatusIs, RequestFails, Fault,
      Ends, IdleRequest
<1>5. RunsAtMostOnce'
  BY DEF RunsAtMostOnce, StatusIs, RequestFails
<1>6. TablesAgree'
  BY DEF PendingTypeOK, TablesAgree, IsHeld, Executes, StatusIs, RequestInv, RequestFails,
      Fault, Ends, IdleRequest
<1>7. ButtonTellsDecision'
  BY DEF ButtonTellsDecision, StatusIs, RequestFails
<1> QED
  BY <1>1, <1>2, <1>3, <1>4, <1>5, <1>6, <1>7

\* Time passes.
LEMMA TickInv ==
  ASSUME PendingInv, Tick
  PROVE  PendingInv'
<1> USE DEF PendingInv, askVars, callVars
<1>1. PendingTypeOK'
  BY PendingConstants, NoneIsNoRow DEF PendingTypeOK, Row, Status, Request, Steps, Kinds,
      Stages, Tick, RequestInv
<1>2. \A b \in Actions : ActionInv(b)'
  BY DEF ActionInv, StatusIs, Tick
<1>3. \A q \in Requests : RequestInv(q)'
  BY DEF PendingTypeOK, RequestInv, ProgressInv, Executes, StatusIs, ActionInv, Tick
<1>4. OneExecutor'
  BY DEF PendingTypeOK, OneExecutor, RequestInv, Executes, StatusIs, Tick
<1>5. RunsAtMostOnce'
  BY DEF RunsAtMostOnce, StatusIs, Tick
<1>6. TablesAgree'
  BY DEF PendingTypeOK, TablesAgree, IsHeld, Executes, StatusIs, RequestInv, Tick
<1>7. ButtonTellsDecision'
  BY DEF ButtonTellsDecision, StatusIs, Tick
<1> QED
  BY <1>1, <1>2, <1>3, <1>4, <1>5, <1>6, <1>7

\* The invariant holds at the start.
LEMMA InitInv == Init => PendingInv
<1> SUFFICES ASSUME Init PROVE PendingInv
  OBVIOUS
<1> USE DEF Init
<1>1. PendingTypeOK
  BY PendingConstants, NoneIsNoRow
  DEF PendingTypeOK, Stages, Kinds, Request, Steps, IdleRequest
<1>2. \A a \in Actions : ActionInv(a)
  BY DEF ActionInv, StatusIs
<1>3. \A r \in Requests : RequestInv(r)
  BY DEF RequestInv, IdleRequest
<1>4. OneExecutor
  BY DEF OneExecutor, Executes, IdleRequest
<1>5. RunsAtMostOnce /\ TablesAgree /\ ButtonTellsDecision
  BY NoneIsNoRow DEF RunsAtMostOnce, TablesAgree, ButtonTellsDecision, StatusIs, Kinds
<1> QED
  BY <1>1, <1>2, <1>3, <1>4, <1>5 DEF PendingInv

\* Every step keeps the invariant.
LEMMA NextInv == PendingInv /\ [Next]_vars => PendingInv'
<1> SUFFICES ASSUME PendingInv, [Next]_vars PROVE PendingInv'
  OBVIOUS
<1>1. CASE UNCHANGED vars
  BY <1>1 DEF vars, askVars, callVars, PendingInv, PendingTypeOK, ActionInv, RequestInv,
      ProgressInv, OneExecutor, Executes, RunsAtMostOnce, TablesAgree, IsHeld,
      ButtonTellsDecision, StatusIs
<1>2. ASSUME NEW a \in Actions, AskStep(a) \/ AskFails(a) PROVE PendingInv'
  BY <1>2, RecordRequestedCallInv, CreatePendingActionInv, CompleteRequestedCallInv,
     AuditRequestedCallInv, CreatePlatformCallbackInv, SendButtonsInv, AskFailsInv
  DEF AskStep
<1>3. ASSUME NEW r \in Requests, NEW a \in Actions, AdminConfirms(r, a) PROVE PendingInv'
  BY <1>3, AdminConfirmsInv
<1>4. ASSUME NEW r \in Requests, NEW a \in Actions, NEW k \in Kinds, Click(r, a, k)
      PROVE  PendingInv'
  BY <1>4, ClickInv
<1>5. ASSUME NEW r \in Requests, RequestStep(r) PROVE PendingInv'
  BY <1>5, GetPlatformCallbackInv, ExpirePlatformCallbackInv, MarkPlatformCallbackUsedInv,
     GetPendingActionInv, PendingActionChangedInv, MarkPendingActionConfirmedInv,
     MarkPendingActionCancelledInv, ToolIsGoneInv, RecordToolCallInv, ExecuteToolSafelyInv,
     CompleteToolCallInv, AppendAuditLogInv, MarkPendingActionExecutedInv,
     EnqueueContinuationInv
  DEF RequestStep
<1> QED
  BY <1>1, <1>2, <1>3, <1>4, <1>5, RequestFailsInv, TickInv DEF Next

\* Every reachable state satisfies the inductive invariant.
THEOREM PendingInvariant == Spec => []PendingInv
  BY InitInv, NextInv, PTL DEF Spec

\* Every variable keeps its type.
THEOREM PendingTypes == Spec => []PendingTypeOK
<1>1. PendingInv => PendingTypeOK
  BY DEF PendingInv
<1> QED
  BY <1>1, PendingInvariant, PTL

\* Whatever requests confirm an action, at once, again or after a failure, its
\* tool is run at most once and its agent is told of at most one result.
THEOREM AtMostOneRun == Spec => []RunsAtMostOnce
<1>1. PendingInv => RunsAtMostOnce
  BY DEF PendingInv
<1> QED
  BY <1>1, PendingInvariant, PTL

\* No tool runs without a record of its call, no action is executed without an
\* audit, and only a fault strands an action that was confirmed.
THEOREM TablesAlwaysAgree == Spec => []TablesAgree
<1>1. PendingInv => TablesAgree
  BY DEF PendingInv
<1> QED
  BY <1>1, PendingInvariant, PTL

\* A button is used up only by the decision it stands for.
THEOREM ButtonsTellTheDecision == Spec => []ButtonTellsDecision
<1>1. PendingInv => ButtonTellsDecision
  BY DEF PendingInv
<1> QED
  BY <1>1, PendingInvariant, PTL

-----------------------------------------------------------------------------
(* The rows implement the abstract decision.                                 *)

Mapped == [a \in Actions |-> DecisionOf(a)]

\* A step that leaves the rows and the runs alone stutters.
LEMMA Stutters ==
  ASSUME action' = action, runs' = runs
  PROVE  UNCHANGED Decision!vars
<1>1. \A a \in Actions : DecisionOf(a)' = DecisionOf(a)
  BY DEF DecisionOf, StatusIs
<1> QED
  BY <1>1 DEF Decision!vars

\* A step that gives one row a new status decides that action.
LEMMA Decides ==
  ASSUME PendingInv, NEW a \in Actions, action[a] # None, NEW from \in Status,
         action[a].status = from, NEW to \in Status, SetStatus(a, to), runs' = runs
  PROVE  Mapped' = [Mapped EXCEPT ![a] =
                      CASE to = "pending" -> "open"
                        [] to = "confirmed" -> "approved"
                        [] to = "cancelled" -> "refused"
                        [] to = "executed" -> "done"]
<1>1. /\ action'[a] # None /\ action'[a].status = to
      /\ \A b \in Actions \ {a} : action'[b] = action[b]
  BY StatusChanges DEF PendingInv
<1>2. DecisionOf(a)' = CASE to = "pending" -> "open"
                         [] to = "confirmed" -> "approved"
                         [] to = "cancelled" -> "refused"
                         [] to = "executed" -> "done"
  BY <1>1 DEF DecisionOf, StatusIs, Status
<1>3. \A b \in Actions \ {a} : DecisionOf(b)' = DecisionOf(b)
  BY <1>1 DEF DecisionOf, StatusIs
<1> QED
  BY <1>2, <1>3 DEF Mapped

\* Every step decides an action, runs it or stutters.
LEMMA StepDecides ==
  ASSUME PendingInv, Next
  PROVE  [Decision!Next]_(Decision!vars)
<1> USE DEF PendingInv, askVars, callVars
<1>1. ASSUME NEW a \in Actions, AskStep(a) \/ AskFails(a) PROVE [Decision!Next]_(Decision!vars)
  <2>1. CASE CreatePendingAction(a)
    <3>1. action[a] = None /\ runs' = runs
      BY <2>1 DEF CreatePendingAction, Asks, ActionInv
    <3>2. /\ action'[a] = [status |-> "pending", expiresAt |-> now + Lifetime]
          /\ \A b \in Actions \ {a} : action'[b] = action[b]
      BY <2>1 DEF PendingTypeOK, CreatePendingAction
    <3>3. action'[a] # None
      BY <3>2, <2>1, CreatePendingActionInv
      DEF ActionInv, CreatePendingAction, Asks, PendingTypeOK
    <3>4. DecisionOf(a) = "none" /\ DecisionOf(a)' = "open"
      BY <3>1, <3>2, <3>3 DEF DecisionOf, StatusIs
    <3>5. \A b \in Actions \ {a} : DecisionOf(b)' = DecisionOf(b)
      BY <3>2 DEF DecisionOf, StatusIs
    <3>6. Mapped[a] = "none" /\ Mapped' = [Mapped EXCEPT ![a] = "open"]
      BY <3>4, <3>5 DEF Mapped
    <3> QED
      BY <3>1, <3>6 DEF Mapped, Decision!Next, Decision!Ask, Decision!Decide
  <2>2. CASE ~CreatePendingAction(a)
    <3>1. action' = action /\ runs' = runs
      BY <1>1, <2>2
      DEF AskStep, RecordRequestedCall, CompleteRequestedCall, AuditRequestedCall,
          CreatePlatformCallback, SendButtons, AskFails, Asks
    <3> QED
      BY <3>1, Stutters
  <2> QED
    BY <2>1, <2>2
<1>2. ASSUME NEW r \in Requests, RequestStep(r) PROVE [Decision!Next]_(Decision!vars)
  <2> DEFINE a == request[r].action
  <2>1. CASE MarkPendingActionConfirmed(r)
    <3>1. a \in Actions /\ action[a] # None /\ action[a].status = "pending" /\ runs' = runs
      BY <2>1 DEF MarkPendingActionConfirmed, IsStillPending, StatusIs, RequestInv
    <3>2. Mapped' = [Mapped EXCEPT ![a] = "approved"]
      BY <2>1, <3>1, Decides DEF MarkPendingActionConfirmed, Status
    <3>3. Mapped[a] = "open"
      BY <3>1 DEF Mapped, DecisionOf, StatusIs
    <3> QED
      BY <3>1, <3>2, <3>3 DEF Mapped, Decision!Next, Decision!Approve, Decision!Decide
  <2>2. CASE MarkPendingActionCancelled(r)
    <3>1. a \in Actions /\ action[a] # None /\ action[a].status = "pending" /\ runs' = runs
      BY <2>2 DEF MarkPendingActionCancelled, IsStillPending, StatusIs, RequestInv
    <3>2. Mapped' = [Mapped EXCEPT ![a] = "refused"]
      BY <2>2, <3>1, Decides DEF MarkPendingActionCancelled, Status
    <3>3. Mapped[a] = "open"
      BY <3>1 DEF Mapped, DecisionOf, StatusIs
    <3> QED
      BY <3>1, <3>2, <3>3 DEF Mapped, Decision!Next, Decision!Refuse, Decision!Decide
  <2>3. CASE MarkPendingActionExecuted(r)
    <3>1. a \in Actions /\ action[a] # None /\ action[a].status = "confirmed" /\ runs' = runs
      BY <2>3 DEF MarkPendingActionExecuted, Executes, StatusIs, RequestInv
    <3>2. Mapped' = [Mapped EXCEPT ![a] = "done"]
      BY <2>3, <3>1, Decides DEF MarkPendingActionExecuted, Status
    <3>3. Mapped[a] = "approved"
      BY <3>1 DEF Mapped, DecisionOf, StatusIs
    <3> QED
      BY <3>1, <3>2, <3>3 DEF Mapped, Decision!Next, Decision!Finish, Decision!Decide
  <2>4. CASE ExecuteToolSafely(r)
    <3>1. /\ a \in Actions /\ action[a] # None /\ action[a].status = "confirmed"
          /\ runs[a] = 0 /\ action' = action
      BY <2>4 DEF ExecuteToolSafely, Executes, StatusIs, RequestInv, ProgressInv
    <3>2. runs' = [runs EXCEPT ![a] = 1]
      BY <2>4, <3>1 DEF ExecuteToolSafely, PendingTypeOK
    <3>3. Mapped[a] = "approved" /\ Mapped' = Mapped
      BY <3>1 DEF Mapped, DecisionOf, StatusIs
    <3> QED
      BY <3>1, <3>2, <3>3 DEF Mapped, Decision!Next, Decision!Run
  <2>5. CASE action' = action /\ runs' = runs
    BY <2>5, Stutters
  <2> QED
    BY <1>2, <2>1, <2>2, <2>3, <2>4, <2>5
    DEF RequestStep, GetPlatformCallback, ExpirePlatformCallback, MarkPlatformCallbackUsed,
        SetButton, GetPendingAction, PendingActionChanged, ToolIsGone, RecordToolCall,
        CompleteToolCall, AppendAuditLog, EnqueueContinuation
<1>3. CASE \/ \E r \in Requests, a \in Actions : AdminConfirms(r, a)
           \/ \E r \in Requests, a \in Actions, k \in Kinds : Click(r, a, k)
           \/ \E r \in Requests : RequestFails(r)
           \/ Tick
  BY <1>3, Stutters DEF AdminConfirms, Click, RequestFails, Tick
<1> QED
  BY <1>1, <1>2, <1>3 DEF Next

\* The rows and the requests implement the abstract decision: approved or
\* refused for good, and run at most once and only when approved.
THEOREM DecidedOnce == Spec => ImplementsOneDecision
<1>1. ASSUME Init
      PROVE  Decision!Init
  <2>1. ASSUME NEW a \in Actions
        PROVE  DecisionOf(a) = "none"
    <3>1. action[a] = None
      BY <1>1, <2>1 DEF Init
    <3>2. ~ StatusIs(a, {"pending"}) /\ ~ StatusIs(a, {"confirmed"})
          /\ ~ StatusIs(a, {"cancelled"}) /\ ~ StatusIs(a, {"executed"})
      BY <3>1 DEF StatusIs
    <3> QED
      BY <3>1, <3>2 DEF DecisionOf
  <2>2. Mapped = [a \in Actions |-> "none"]
    BY <2>1 DEF Mapped
  <2>3. runs = [a \in Actions |-> 0]
    BY <1>1 DEF Init
  <2> QED
    BY <2>2, <2>3 DEF Decision!Init, Mapped
<1>2. PendingInv /\ [Next]_vars => [Decision!Next]_(Decision!vars)
  <2>1. UNCHANGED vars => UNCHANGED Decision!vars
    BY Stutters DEF vars, askVars, callVars
  <2> QED
    BY <2>1, StepDecides
<1> QED
  BY <1>1, <1>2, PendingInvariant, PTL DEF Spec, ImplementsOneDecision, Decision!Spec
=============================================================================
