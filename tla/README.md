# Formal specification of serverless-agent

serverless-agent runs AI agents on Cloudflare: messages arrive from chat platforms,
are queued, handled by one Durable Object per agent, and may lead to model calls,
tool calls, schedules and confirmations. This directory holds TLA+ models of the
parts of that runtime whose correctness depends on the order of steps, the TLC
configurations that check them, and TLAPS proofs of their safety properties.

Paths below are relative to the repository (`src/agents/...` is the program's own
`src` directory).

- [The system](#the-system)
- [The plan](#the-plan)
- [The modules and the code](#the-modules-and-the-code)
- [What the runs check](#what-the-runs-check)
- [What is assumed](#what-is-assumed)
- [What is proved](#what-is-proved)
- [Where the code and its documents disagree](#where-the-code-and-its-documents-disagree)
- [What the models show of the code](#what-the-models-show-of-the-code)
- [What is not modelled](#what-is-not-modelled)

## The system

### How a message travels

    platform webhook / gateway object / cron / admin API / confirmed action
          |  AGENT_QUEUE.send({ eventId, agentId, ... })
          v
    Cloudflare Queue  --at least once-->  queue consumer (worker/queue-consumer.ts)
          |  POST /events
          v
    AgentDurableObject (one per agent)        alarm() <--- stored alarm
          |  enqueue (storage transaction)       |
          v                                      v
    mailbox in Durable Object storage <---- drain loop, one at a time
          |  claim, handle, complete or fail
          v
    agent-event-handler: run of the agent, or run of a schedule
          |                     |                       |
     model calls           tool registry          schedules (D1), result of the run
                                |
                    allowed | denied | pending action (D1) --> confirmation
                                                               --> executes, continues

### Components

| Component | State | Operations | Interacts with |
|---|---|---|---|
| Agent mailbox (`agents/agent-mailbox*.ts`) | Durable Object storage: next sequence, pending records, one running record, event index, expiry keys | enqueue, recover, claim, complete, fail, clean up: one storage transaction each | drain loop, fetch, alarm |
| Agent Durable Object (`agents/agent-durable-object.ts`, `-drainer.ts`) | the stored alarm; in memory `drainPromise` and the instance id | `fetch`, `alarm`, drain loop, `scheduleNextAlarm` | mailbox, Queue consumer, event handler |
| Queue consumer (`worker/queue-consumer.ts`, `agent-dispatch.ts`) | none | dispatch a message, `ack` or `retry` | the platform's Queue, the object |
| Event handler (`agents/agent-event-handler.ts`) | heartbeats (D1) | run for a message, run for a schedule, heartbeat | agent run, scheduler |
| Scheduler (`scheduler/*`, `schedules-repository.ts`, `tools/schedule/service.ts`) | D1 table `schedules` | create, pause, resume, cancel, run now; cron sweep; result of a run | Queue, event handler, tools, admin API |
| Pending actions (`permissions/pending-*`, `tools/registry/pending-tool-result.ts`) | D1 `pending_actions`, `platform_callbacks`, `tool_calls`, `audit_logs` | ask, offer buttons, confirm, reject, execute, continue | tool registry, Telegram, admin API, Queue |
| Tool registry (`tools/registry`, `tools/permissions`) | D1 `tool_calls`, `audit_logs` | permission decision, execution, completion, audit | agent run, pending actions |
| Permission policies (`permissions/policy-*`) | D1 `permission_policies` | level and scopes of an actor | tool registry |
| Agent run (`core/*`) | D1 `runs`, `run_steps`, `messages`; the variables of one handler | run, model step, tool call, limits, final message | models, tool registry, adapters |
| QQ gateway (`adapters/qq/official`, `platforms/qq`) | a WebSocket, timers; session in object storage | connect, identify or resume, heartbeat, dispatch, reconnect, disconnect | Queue, QQ |
| Weixin gateway (`platforms/weixin-oc`) | login, cursor and tokens in object storage, alarm | login, long poll, dispatch, send, disconnect | Queue, Weixin |
| Telegram, WeCom webhooks | `platform_callbacks` (buttons) | normalise and enqueue, handle a click | Queue, pending actions |
| Virtual file system (`vfs/storage`, `storage/blob`) | D1 entries, texts, revisions; R2 blobs | write, read, delete, move, roll back, clean up blobs | tools, skills, admin API |
| Skills (`skills`) | files of the virtual file system, D1 settings | load, select, edit, roll back | agent run, VFS |
| Model settings (`core/model`, `model-*-repository.ts`) | D1 providers, catalog, selections | refresh a catalog, enable and disable, select, delete a provider, choose the model of a run | agent run, context, admin API |
| Context and conversations (`context`, `conversations`) | D1 messages, bindings, settings, summaries | load, compact, switch, configure | agent run, commands, admin API |
| Commands, media, MCP, search, HTTP and web tools, model providers, diagnostics, security helpers, admin routes, admin web UI, migrations | configuration rows; cookie jars | single statements, conversions, remote calls | all of the above |

### What makes it correct, and what makes that hard

**Mailbox.** Nothing accepted is lost or handled out of order; one event is running at
a time; an outcome is final and remembered for a week, so that the Queue may deliver a
message again. Hard: a handler may outlive its lease and finish after another instance
has taken its event over; a failed event goes back in front of younger ones; the
collection of old outcomes runs among retries and second acceptances.

**Durable Object.** Stored work always has somebody who will take it up, and one drain
loop runs at a time. Hard: `fetch`, `alarm` and the end of the drain each read the
mailbox in three operations before they set or delete the one alarm; any operation may
be rejected, the instance may be evicted at any await, and rejections of the drain are
swallowed.

**Scheduler.** Every occurrence fires, on its axis, and what is cancelled or finished
does not. Hard: there are no transactions. A sweep lists rows, sends an event, then
writes a row that it computed from what it had listed; the run of that event, users and
other sweeps write the same row in between, and none of these statements checks what it
overwrites.

**Pending actions.** A call that needs confirmation is decided once and executed at most
once, whoever confirms it how often. Hard: two administrators, double clicks, Telegram's
redelivery, rejection racing confirmation, and a Worker that goes away in the middle.

**Agent run.** One message tells the sender how the run ended, and one status says so;
every call of the model gets its result, also a denied one; a call that waits for
confirmation was not executed; the limits stop a run and still end it properly. Hard:
there are some twenty awaits between the inbound message and the status of the run, any
of which may reject before or after its effect, one catch block for all of them, and a
mailbox that starts over.

**QQ gateway.** A bot that was connected always has something that brings it back, one
socket carries the session, and no event falls between two sockets. Hard: connect() waits
for the gateway's address between clearing the timers and keeping the socket, the close
event of an old socket arrives behind the next one, alarm, timers and requests connect
side by side, and the platform resumes a session or refuses it.

**Weixin gateway.** The stored cursor is never ahead of what the Queue has, a poll is
always scheduled or under way, a disconnect holds. Hard: the long poll writes back what it
read a minute ago, a request polls beside the alarm, and clearing the login takes three
statements.

**Virtual file system.** An entry, its text or blob and its latest revision
agree; no blob that is referred to is deleted; a version names one content. Hard: no
operation is one statement, requests for one tree overlap, and any statement may fail.

**Model settings, context and conversations.** What an administrator chose survives a
refresh of the catalog; the model that is called is the one whose capabilities were
checked; a summary and the messages sent as they are leave no gap. Hard: a refresh
rewrites all rows of a provider one by one, two functions choose the model, compactions
of a run and of an administrator overlap, and only the last hundred messages are read.

## The plan

Done, in this order: the mailbox, the object over it, the scheduler, the pending actions,
the agent run, the two gateways, the virtual file system, and a turn of the agent in its
conversation (models, settings, context and permissions), each with its proofs.

| Module | Extends, composes | Implements | Proofs |
|---|---|---|---|
| `AgentMailbox` | | `SerialQueue` | `AgentDurableObjectProofs` |
| `AgentDurableObject` | extends `AgentMailbox` | `AgentMailbox` | `AgentDurableObjectProofs` |
| `Scheduler` | | | `SchedulerProofs` |
| `PendingActions` | | `OneDecision` | `PendingActionsProofs` |
| `AgentRun` | | `OneAnswer` | `AgentRunProofs` |
| `QqGateway` | | | `QqGatewayProofs` |
| `WeixinGateway` | | | `WeixinGatewayProofs` |
| `VfsStorage` | | | `VfsStorageProofs` |
| `Conversation` | extends `ModelSettings` | | `AgentTurnProofs` |
| `AgentTurn` | composes `Conversation` and `Permissions` | | `AgentTurnProofs` |

Components that meet in few places are not composed but abstracted by what one sees of
the other. To the scheduler a run is an event that is unsettled until it ends
(`firing`); to the object a handler returns, throws or is lost; to the agent run the
mailbox is what hands its event out again; to the pending actions the decision of the
permissions is given; to the gateways the Queue is a set.

Left for later: skills over the file system (roll back, provisioning of the built-in one);
the webhooks of Telegram, QQ and WeCom; which conversation of a chat is the current one.

## The modules and the code

### `SerialQueue`

What a mailbox promises: a job is accepted once while it is remembered, jobs are worked
on one at a time in order of acceptance, a failed job keeps its place until its tries are
used up, and no outcome is taken back. It knows no clocks, leases or instances.

### `AgentMailbox`

Each exported function of `agent-mailbox.ts` and `agent-mailbox-event-index.ts` that
writes is one storage transaction and one action.

| Variable | Code |
|---|---|
| `nextSequence` | `mailbox:meta` |
| `pending` | the records under `mailbox:pending:<sequence>` |
| `running` | `mailbox:running` |
| `index` | `mailbox:event:<eventId>` |
| `gc` | the keys `mailbox:event-gc:<expiresAt>:<eventId>` |
| `attempts` | running records that were handed out and not settled: the callers' copies |
| `now` | `Date.now()` |

The callers are left free: any instance may recover or claim at any time, and a handed
out attempt may be completed, failed or abandoned at any later time. That is more than
the object does, so what holds here holds for every caller. Left out: run ids, error
texts and time stamps that no decision reads.

### `AgentDurableObject`

One action is the code between two awaits of `fetch`, `alarm`, the drain loop and the
detached `scheduleNextAlarm` at its end. `pc` names the await a function is at; `io` is
the order in which the pending storage operations were issued, and they finish in that
order. A drain is one of two promise chains, because the detached tail of the last drain
may still run when the next one starts. `ReceiveFetch`, `FetchEnqueue`, `SetAlarm` for
`fetch`, `RetryMessage` and `Redeliver` are the Queue and its consumer. Faults are
rejected storage operations at every await, the loss of the instance, and redelivery.

### `Scheduler`

One action is one statement of D1 or one message sent. A sweep (`sweep[w]`) holds the
rows it has listed, which is where the stale values come from; a handler (`handler[s]`)
holds the row that `recordScheduleRunResult` read. The clock counts cron periods; rows
are due at whole periods, and `RetryDelay` and `Interval` are whole periods too, which
keeps "due exactly at the sweep", the case the comparisons could get wrong. History
variables (`origin`, `lastFired`, `fires`, `cancelled`, `succeeded`) are written and
never read by actions.

| Code | Actions |
|---|---|
| `createSchedule`, `pauseSchedule`, `resumeSchedule`, `cancelSchedule` | the same names |
| `runScheduleNowFromTool` | `RunNowChecks`, `RunNowMarks`, `RunNowSends` |
| `sweepDueSchedules`, `dispatchDueSchedule` | `Cron`, `ListDueSchedules`, `EnqueueScheduleFire`, `MarkScheduleDispatched`, `NothingLeftToList`, `CountDueSchedules`, `UpsertHeartbeat` |
| `handleAgentEvent` for `schedule.fire` | `HandleScheduleFire`, `RunEnds`, `CompleteScheduleRun`, `FailScheduleRun` |
| rejected statements and sends, lost Workers | `SweepFails`, `RunNowFails`, `RunAbandoned`, the second disjunct of `Finish` |

### `OneDecision` and `PendingActions`

`OneDecision` is the promise: an action is asked for, approved or refused once, runs at
most once and only when approved. `PendingActions` has the run that asks (`asking`), the
two stored buttons, and a process for every request that confirms or rejects; each step
is one statement, one run of the tool or one message. `IsStillPending` is the
`WHERE status = 'pending'` of the two UPDATEs, on which everything rests. Buttons expire
with their action and clicks may come in any number at any time.

### `OneAnswer` and `AgentRun`

`OneAnswer` is what handling an event promises its sender: every try opens a run; a run is
closed only with an answer of its own, which is that the sender was told something or that
D1 says nothing reached them; whatever fails makes the answer owed anew; a failure is not
taken back. It does not promise that the sender hears of every failure: the code does not
(`sendFinalMessage` ignores the result of the send tool, and the catch block closes the run
also when its message could not be sent).
`AgentRun` is the handler, await by await, from `runAgentForMessageInternal` through the
tool loop and `registry.execute` to the final message; `pc` names the await, the tables
are `runs` (status, and the outcomes recorded as steps) and `rows` (`tool_calls`), and
`loop` holds the variables of the tool loop. `Await` is the point of the model: each
await may reject, and a statement that rejects may have been carried out. `OnThrow`
says which `catch` that reaches. A message counts as heard only where the tool ran
(`ExecuteTool`): an await that rejects on the way there owes the answer again, and a send that
reports failure leaves no more than the row of `tool_calls` (`CompleteToolCall`). A
command may have no text for the sender, and may fail (`RecordCommand`). A handler may also be
lost, and the mailbox starts the event over, up to `MaxAttempts` times. History: `sent` counts
the final messages that reached the sender over all tries, `answer` is what `OneAnswer` is
about, `clean` and `cut` say which tries and runs had a fault.

| Code | Actions |
|---|---|
| `runAgentForMessageInternal` | `StoreMessage`, `CreateRun`, `RecordReceived`, `CheckModel`, `HandleCommand`, `RecordCommand`, `LoadContext`, `RecordFailed`, `RecordSendFailed` |
| `executeAgentToolLoop`, `finishRun`, `failRun` | `CallModel`, `RecordModelStep`, `RequestToolCall`, `FinishToolCall`, `StopAtLimit`, `RecordCompleted`, `CompleteRun` |
| `registry.execute` | `EvaluateToolPermission`, `RecordToolCall`, `CreatePendingAction`, `ExecuteTool`, `CompleteToolCall`, `AppendAuditLog` |
| `sendFinalMessage` | `SendFinalMessage`, `FinishFinalMessage` |

### `QqGateway`

One bot: the Durable Object with its alarm and stored session, the session objects in
memory (concurrent requests can make two), their sockets, heartbeat and reconnect timers,
and the platform at the other end, which opens sessions, resumes or refuses them, sends
numbered events and closes sockets. A step runs from an event to the next await of
something other than the object's own storage, since a Durable Object gets no events
while it waits for its storage. `wanted`, `queued`, `sending`, `lost` and `mixed` are
history: `mixed` is set as soon as two session objects or two sessions were at work.

### `WeixinGateway`

One bot: the login (a QR code that a person scans), the long poll of the alarm and of
requests, and `disconnect`, with the same rule for steps. `credential` is the row of D1,
`account` the cursor and the senders' context tokens in the object's storage. The
platform gives out codes, lets them expire, ends tokens, and answers a poll with the
messages behind the cursor. A code that was confirmed without a token is a code that is
waited for (`StillWaiting`), and an answer without messages may write the account back as it
was read (`UpdatesArrive`).

### `VfsStorage`

One agent's tables `vfs_entries`, `vfs_contents`, `vfs_revisions` and the blobs. A
request that writes, makes a directory, deletes or moves is a process; each step is one
statement or blob operation, and any of them may fail or be the last before the Worker is
lost. History: `files` is what the tree would hold had the requests run one after the
other, `overlapped`, `interrupted`, `shared` and `reused` are the paths and contents of
which the code cannot promise more. The root has no row (`isRootPath`) and is not one of `Paths`.

### `ModelSettings`, `Conversation`

`ModelSettings` has the catalog with the statuses of its models, the selections of the
agent, and the administrators' requests, statement by statement: `Refresh` is the one in
many statements. `Checked` is the order in which `capabilities.ts` looks for the model of
a run, `Resolved` the one of `provider-config.ts`. `Conversation` adds one conversation:
its messages in the order they are listed, its settings row, the compactions (of a run, of
`/context compact`, of an administrator), each a process that reads the settings, lists
messages, asks a model and stores; the run; the commands `/model` and `/context`; and the
administrators' changes. A summary is the set of messages it was made from (`covered`)
with the last one it is stored with (`until`), and, as history, the messages before that end
which no summary model has read (`missed`): the model's answer was empty and the new end was
stored beside the old text (`context-loader.ts:156`), or they had left the scan of the last
hundred messages (`context-loader.ts:37`). These are the two ways in which the code loses
messages. `SummaryReachesItsEnd` says that there is no third one, and `ContextIsComplete` that
a run leaves out these and what its own compaction did not get to read, nothing else. A
message is taken out of `missed` when a compaction lists it again and gets an answer.

### `Permissions`, `AgentTurn`

`Permissions` has the table of policies and the administrators' requests that create,
change, merge and delete them, statement by statement (`updatePermissionPolicy` calls
itself when a policy moves to a subject that has one: `stack`), and the decision on a tool
call, which reads one subject after the other and is taken again when the call is
confirmed. `call.possible` and `call.steady` are history: all that the actor could have
held since the decision began, and the policies nobody has touched since. `AgentTurn`
composes the two: a tool call is decided while the run of the conversation waits for it.

### `MC...`

The MC modules give the constants that a configuration cannot write down (functions,
ranges), symmetry sets, and for `MCConversation` the constraint that says which of its
concerns go together. `...Proofs` modules hold the theorems.

## What the runs check

| Run | Instance | Distinct states | Shows |
|---|---|---|---|
| `mailbox` | 2 events, 2 instances, 2 attempts, clock to 1 | 51 000 | `IndexAgreesWithQueue`, `SettledByItsHolder`, `OutcomeIsFinalUntilExpiry`, and that the mailbox implements `SerialQueue` |
| `object` | 2 messages, 1 fault, 2 slow ticks | 365 000 | `OneHandlerAtATime`, `NoWorkIsStranded`, `HandledOnceWithoutFaults`, `AckedIsAccepted`, `EveryEventIsFinished`, and that the object implements the mailbox |
| `scheduler` | 1 recurring and 1 one-shot schedule, one dispatch to a sweep, 1 sweep at a time, 1 request, 1 run with a result, 1 fault, clock to 1 | 2.0 million | `NoOccurrenceSkipped`, `CancelHoldsWhenQuiet`, `EveryScheduleFires` |
| `pending` | 1 action, 3 requests, 1 fault, expiry within the run | 254 000 | `TablesAgree`, `ButtonTellsDecision`, `ExecutedUnlessRequestFails`, and that the tables implement `OneDecision` |
| `agent_run` | 2 tries, 2 tool calls, 2 model steps, answers with up to 2 calls, 2 faults | 2.1 million | `OutcomeIsTold`, `RepeatedByFaultsOnly`, `EveryCallIsAnswered`, `EveryRunIsClosed`, and that the run implements `OneAnswer` |
| `qq_gateway` | 2 session objects, 2 sockets, 1 request at a time and 2 in all, 1 timer, 3 sessions of 2 events, 1 fault | 244 000 | `NeverForgotten`, `KeptAliveOrReplaced`, `NothingSkipped`, `ComesBack` |
| `weixin_gateway` | 1 request at a time and 3 in all beside the alarm, 2 QR codes, 2 messages, 1 fault | 844 000 | `CursorIsHonest`, `PollsForEver`, `LogoutHolds`, `EveryMessageArrives` |
| `vfs` | 2 requests at a time and 4 in all over 2 directories with a file each, 1 small and 1 large content, 1 fault | 2.8 million | `CleanPathsReadBack`, `BlobsAreKept`, `VersionsAreUnique` |
| `conversation` | 2 providers with a model each, 2 administrators, 2 of their requests, 1 about the conversation, 6 messages of which 4 are scanned, 1 fault; 2 subjects, 2 rights, 3 requests about policies | 1.3 million | `ChoicesAreKept`, `CheckedIsCalled`, `ContextIsComplete`, `SummaryReachesItsEnd`, `ExecutedIsEntitled`, `DeniedIsNotEntitled`, `PoliciesAreAsAsked` |
| `scheduler_finished`, `scheduler_attempts`, `pending_stranded` | 1 schedule or action, 1 sweep or request | | the disagreements below, each as a counterexample |

The type invariants, and `HandledInOrder`, `GcKeysAreExact`, `AttemptsDistinct`,
`RecurrenceOnAxis`, `DispatchTakesOut`, `RunsAtMostOnce`, `ExecutedAsDecided` and
`LimitHolds`, are in no run: the theorems say them for all constants. Nor are the inductive
invariants of the proofs, which were checked on these instances before they were proved.

Why the bounds are enough:

- Two events make an order, two instances make a takeover, two attempts make a retry
  that can be the last. The lease is shorter than the run of the clock, retention ends
  within it, and a second acceptance of a forgotten event happens. In the code
  the lease (60 s) always ends before the hard stale limit (30 min), so a record is
  stale by its lease first and the limit never decides.
- The object has room for the instance that fails, the one that recovers and a fault in
  the recovery. `MaxTime` = 12 outlasts every lease, retry and retention that two
  messages can need, which is why liveness holds within it; `slow` bounds only ticks
  that pass while something else could happen.
- The stale rows of the scheduler need one row, one holder of a stale copy and one other
  writer. The recurrence is due at every tick, so that a first sweep at time 1 has an
  occurrence to catch up with, and two due schedules compete for the one dispatch. Sweeps that
  overlap, several requests and longer clocks are in the theorems, which hold for any set of
  sweepers and any bound.
- Three requests for one action are two that race and one that comes late. Actions share
  nothing but requests, which handle one at a time; what differs for actions that were
  asked for elsewhere are steps left out, and the theorems cover them.
- Two tries and two faults make the agent's run fail in its `catch` block and again after
  a retry; both limits are reached in the middle of an answer with two calls.
- Two session objects and two sockets are what an overlap needs; a third session is the one
  after a refused resumption. Two QR codes are the one before a disconnect and the
  one after it; two messages make a poll that fails between them.
- Four requests are two that race, and two that meet what they left; a file below a
  directory that is moved or deleted is the smallest tree, and a second directory gives
  moves a target and lets two files refer to one blob. One small and one large
  content make a file cross the limit both ways.
- Six messages with a scan of four and history limits of one and two let messages fall out
  of the scan before and after a compaction. `Bounded` separates concerns: while an
  administrator is at work on models the conversation stays short, when it is long its
  model is the default one, and policies change while the first run decides on a call.
  Three requests about policies make a merge race another request. Two merges that cross
  need a fourth, and requests that meet in a row but in no subject need a third subject: the
  theorems cover those, and the permissions alone were checked with three subjects, three
  administrators and five requests (3.3 million states).
- Every definition that matters has a plausible wrong variant next to it (the operators
  commented `Mutant`), under which the run's property fails: each property can be
  violated within the bounds.

Deadlock is not checked: an idle agent, a clock at its bound and a used-up fault budget
are legitimate ends. That nothing stops too early is what the liveness properties say.

## What is assumed

About the platform, because the code relies on it:

- A storage transaction is atomic, storage operations of one object finish in the order
  in which they were issued, and events are not delivered to an object while one of its
  storage operations is in progress (input gates). `NoWorkIsStranded` needs the order:
  a `deleteAlarm` that overtook a later `setAlarm` would strand work.
- A statement of D1 is atomic; nothing larger is. Two statements of one Worker are
  separate steps.
- Queue messages and alarms are delivered at least once. Cron starts a sweep every five
  minutes whether or not the last one has ended.

- A Durable Object gets no other event while it waits for its own storage, but does while it
  waits for D1, the Queue or the network. QQ sends the events of a session in order,
  resumes a session behind the number it is given, and closes a socket whose
  handshake takes too long; Weixin delivers again whatever is behind the cursor it is
  given, and a token serves until it is ended.
- A blob operation is atomic; D1's unique indexes (paths of entries and texts, active
  policies of a subject) hold.

Fairness:

- Object: a function whose storage operation is done continues, a due alarm and a queued
  message are delivered, a handler ends (model and HTTP calls have time limits), time
  passes. Faults are never owed and are bounded, so the liveness properties say: once
  faults stop, work gets done.
- Scheduler: cron and the steps of a sweep, and the clock. Runs owe nothing: a schedule
  that is fired need not be handled for the sweep to go on.
- Pending actions: a request that does not fail continues. Nobody has to click.
- Agent run: every await of the handler ends, one way or the other, and the mailbox hands
  out again what was not settled.
- QQ gateway: due alarms and timers fire, a connection under way goes on, and the platform
  answers on an open socket. Messages of people, requests and faults are not owed.
- Weixin gateway: the alarm fires and what was begun goes on. Nobody has to scan a code or
  to log in, and a message need not be sent.

## What is proved

TLAPS checks the theorems for all values of the constants that satisfy the `ASSUME`s
of the module (`MailboxConstants`, `ObjectConstants`, `SchedulerConstants`,
`PendingConstants`, `RunConstants`, `QqConstants`, `WeixinConstants`, `VfsConstants`,
`PermissionConstants`, `ModelConstants`, `ConversationConstants`, and that `None` is none of
the records); these only say that counts are natural numbers, limits positive where the code
makes them so, and absent values distinguishable.

**Mailbox** (`AgentDurableObjectProofs`, first part). `MailboxInv` is inductive. The
properties are not inductive by themselves: that a retried event returns to its own place needs
`SequencesAreFresh` and `SequencesAreDistinct`; that the fence admits one holder needs
`HeldAttemptsAreOld`, that a held attempt is never ahead of the index, so that a new claim
differs from every old one; that the expiry index is exact needs `ExpiryMeansFinished`.
From it follow `TypeCorrect`, `NothingLost`, `InOrder`, `FenceIsExclusive`,
`GcIndexIsExact`, `OutcomeIsFinal` and `MailboxIsSerialQueue`, the refinement; and, with
`LeasesFit`, that a lease follows from the time of its claim, `OnlyTheHolderSettles`: the
fields that the fence compares identify the attempt.

**Durable Object** (`AgentDurableObjectProofs`, second part). Each step of the object leaves
the mailbox alone or is one of its operations, so `MailboxInv` carries over, and that
this is a refinement is `ObjectUsesMailbox`. `ObjectInv` adds where the functions are
(`PointsFit`) and who waits for storage in which order (`GateFits`): nobody, one function, or
`alarm()` and the drain it started, which take turns. `TurnsFit` says how far apart these two
can be, and that is what makes the view of `scheduleNextAlarm` hold, though it reads pending
and running events in two operations (`ViewsFit`). `HoldersFit` gives the drain the one
attempt there is, `MessagesFit` ties a message that is dispatched to its event,
`WorkIsWatched` has an alarm, an `alarm()` under way or a message for all stored work,
and `HandledOnce` counts a fault for every time that an event was or may still be handled
beyond the first. From it follow `ObjectTypes`, `OneHandler`, `WorkIsNeverStranded`,
`HandledOnceEach` and `AcksAreHonest`, the last an action property.

**Scheduler** (`SchedulerProofs`). The danger is a stale row that is written back, so
`SchedulerInv` says of every copy a sweep holds what it says of the row itself: it is on
the axis and its past occurrences are covered by `lastFired`, which only grows.
`SweepInv` adds that what is about to be marked was fired at the sweep's time or later,
and that the batch fits the limit. From it follow `SchedulerTypes`, `NoDrift`,
`AtLeastOnce`, `SweepsMoveOn` and `CancelledForGood`. The arithmetic fact behind the
first three, that `NextRecurringDueAt` is on the axis and between `after` (excluded) and
one interval later, is a lemma of its own. `Sweepers` is any set: the theorems are about sweeps
that overlap, too.

**Pending actions** (`PendingActionsProofs`). `PendingInv` ties the rows to where the
requests are: `OneExecutor`, that at most one request is past the confirmation of an
action, comes from the conditional UPDATE; `ProgressInv` says how far that request has
come in the tables. From it follow `PendingTypes`, `AtMostOneRun`, `TablesAlwaysAgree`,
`ButtonsTellTheDecision` and `DecidedOnce`, the refinement.

**Agent run** (`AgentRunProofs`). `RunInv` follows the handler's variables from await to
await: `PointsFit` says what holds at each of them, `CallFits` and `RowsFit` what is known
of the call under way and of its row, `LimitKept` and `ResultsOwed` count calls and
results. `AnswerFits` says at which awaits the sender has an answer or D1 says there is
none, which is what closing a run relies on; `FailureStays` that a failed run stays so.
`OutcomeFits` gives the recorded outcomes at each await and `FinalsFit` (with
`FinalOutstanding`) the rows of final messages that a try without faults has made: that is
what `OutcomeIsTold` needs at the end, where nothing else remembers it. `SentFits` (with
`MessageIsOut`) allows no more messages that reached the sender than there were faults, and
one more from when the final message of the last try is out. One lemma (`RejectInv`) deals with every await that rejects,
and one each with what an await may leave in the tables (`SetRunFits`, `SetRowFits`,
`AddRowFits`), so that the lemma of an action is about its success. From it follow
`TypesHold`, `OutcomeTold`, `RepeatsByFaultsOnly`, `CallsAnswered`, `DecisionsHold`,
`LimitKeeps`, and `PromiseKept`, the refinement of `OneAnswer`.

**QQ gateway** (`QqGatewayProofs`). `SocketsFit`, `SessionsFit` and `HandlersFit` say whose a
socket, a session number and a connection under way are. `NeverForgotten` is inductive beside
them. `ReadyIsAlive` is what `KeptAliveOrReplaced` needs to hold while connections overlap:
only a timer, never a request, replaces an open socket, and it is there from the moment the
heartbeat is gone. `NothingSkipped` rests on `OneSession`: every number that is
stored, that a socket has reached or that a resumption names is covered, its events having
reached the Queue or being accounted for; and on `OneObject`, that only the current object
has any of this as long as nothing was mixed. From it follow `TypesHold`, `AlwaysWoken`,
`AliveOrReplaced` and `NoEventSkipped`.

**Weixin gateway** (`WeixinGatewayProofs`). The long poll writes back what it read a minute
ago, so `CopiesAreHonest` says of every copy what `CursorIsHonest` says of the stored one, and
`DispatchFits` of the part of a batch that was sent. `LogoutInv` says that every code, login
or credential that could still become a token is younger than the last disconnect that took
effect; it needs that codes are given out in order. From it follow `TypesHold`,
`CursorHonest`, `NeverStopsPolling` and `LoggedOutForGood`.

**Virtual file system** (`VfsStorageProofs`). `BlobsFit` follows a blob through a put (there
before anything refers to it) and through a clean-up (nothing refers to it, and the other put
that could would have made the content shared, `HistoryFits`). `RevisionsFit` says that the
revisions of a path are not ahead of its entry, nor those before a put that has read the
entry ahead of the version it will write. `VersionsBounded` bounds versions by the puts
that have not read theirs yet, by the cardinality of that set. From it follow `VfsTypes`,
`BlobsStay` and `VersionsStayUnique`.

`CleanPathsReadBack` speaks of paths that nobody is at work on, and gets `CleanInv`, inductive beside
`VfsInv`, which follows the rows of a clean path (neither overlapped nor interrupted)
through every statement of the request that works on it. `UnownedFits` has the rows of all
other clean paths hold what was made of them. Of the request, `WrittenFits` says that until
its first write nothing differs, `PutFits` which of entry and text are the new ones,
`LeavesFit` that a tree which is deleted or moved has lost what is no longer left,
`ArrivesFit` that the target holds what has been moved and nothing else, `ParentsFit` that the
parents that were found or made are directories, `SourceFits` and `MovesWhole` that what
is moved exists and is clean as a whole. `TreesFit` (what is made lies in directories) and
`CleanIsAbove` (what is above a clean path is clean) give a request the parents it relies on.
The argument is the same at each action (`StepClean`): a step changes rows of its own request
only, or makes a parent where nothing was, so other requests keep what is said of
them (`OtherFits`) because the clean paths of two requests are apart; a request that
returns has made what `files` says, and one that throws after a write interrupts its
paths. With `BlobsStay`, for contents that are stored as blobs, this gives `CleanPathsStay`.

**Turn of the agent** (`AgentTurnProofs`). Conversation and permissions change none of each
other's variables, so `TurnInv` is the conjunction of three parts.
`ConversationInv`: a refresh that is alone on its provider has read the statuses it will
write (`RefreshesFit`, `ChoicesFit`); the stored summary, what each compaction has read and
what it will store cover or have missed all messages up to their ends (`SummariesFit`,
`SummariesReach`), which needs that a compaction which merges reads on from the end it has
seen or from the scan's beginning (`UnreadReaches`, `OutrunReaches`); the run holds what it
read at each await, and while no administrator's request came in between, the
model it resolves is the one it checked (`HandlerFits`, `ModelsFit`).
`PoliciesInv`: one row for each subject, requests that are apart or known to be tangled,
rows that belong to the requests that have read them, and how far a request that met no
other has come with its rows (`RowsFit`, `MergedFits`, `GrantedFits`).
`DecisionInv`: the rights added up so far are at least those of the policies that were there
all along, and at most those that anybody could have had since the decision began.
From it follow `TurnTypes`, `ChoicesStay`, `CalledAsChecked`, `ContextComplete`,
`SummaryComplete`, `OnlyEntitledExecuted`, `OnlyUnentitledDenied` and `PoliciesStored`.

Every safety invariant, action property and refinement that a passing run checks is stated
by a theorem. Only model-checked are the liveness properties, as fairness is beyond the
prover (`EveryEventIsFinished`, `EveryScheduleFires`, `ExecutedUnlessRequestFails`,
`EveryRunIsClosed`, `ComesBack`, `EveryMessageArrives`); what the runs that expect a
violation check is false.

## Where the code and its documents disagree

- **A finished schedule may fire again** (`scheduler_finished`). `failScheduleRun`
  (`schedules-repository.ts:314`), `completeScheduleRun` and `markScheduleDispatched`
  write a status they computed from an older row, without a condition on the current
  one: a failing run makes a cancelled schedule active again, and the run of a one-shot
  schedule may end between the sweep's send and the sweep's mark, which then writes
  `active` over `completed`. What does hold is `CancelHoldsWhenQuiet`: a schedule that is
  cancelled while nothing holds an old copy of its row stays so.
- **A schedule may run once more than its maximum of attempts** (`scheduler_attempts`).
  "Maximum attempts before marking the schedule failed" (`tools/schedule/schema.ts:124`).
  The sweep sends the event and counts the attempt afterwards; a run that fails in between
  has read a row with one attempt too few, and `canRetry`
  (`schedules-repository.ts:298`) grants another. No fault is needed. A run that fails
  after the mark gets exactly what the schema says.
- **A confirmed action may never be executed** (`pending_stranded`). Confirmation is
  recorded before the execution and nothing resumes it after a failure. The order is what
  makes `RunsAtMostOnce` true; what is missing is an outcome for the interrupted one.

## What the models show of the code

Not disagreements, but behaviour a reader of the code would not expect. Each is a behaviour
of the model, and the properties are worded so that they hold beside it.

*Scheduler.* A schedule whose event can never be sent ends every sweep before the rows
behind it. A cancellation that meets a sweep, a run or a request under way may be undone.

*Agent run.* A run may be closed as failed, or completed, though the sender heard nothing:
nobody looks at the result of the send tool (`agent-final-message.ts:23-44`), and when the
failure message itself cannot be sent the run is closed with a step that says so
(`agent-runner.ts:114-126`). A step that cannot be recorded after the final message went out
makes the catch block send a second one, and the run fails although it was answered.

*QQ gateway.* Concurrent requests can make two session objects on one instance, each with a
socket; they mix their sequence numbers in the one stored session, and the close event
of the one makes the other reconnect. `close()` on a fresh instance forgets the stored
session. `startHeartbeat` (`gateway-session.ts:229`) sends a heartbeat
at once on READY and then one every 30 seconds, whatever `heartbeat_interval` says
(`docs/architecture/PLATFORM_INTEGRATIONS.md`, `adapters/qq/official/README.md` say otherwise);
missing acknowledgements are not noticed. Deleting an integration does not stop its gateway.

*Weixin gateway.* A poll that is under way while `disconnect` runs writes back its cursor
and tokens, and a login poll may save the token again. A timed out session clears the
token but not the login, so a code that was confirmed within five minutes may be used
again. `disconnect` leaves the alarm, which starts a new login.

*File system.* The clean-up after a failed write counts the references to a blob and then
deletes it: a write of the same content in between refers to nothing. A deletion that is
not recursive lists the children before it deletes the tree. A moved file leaves its
revisions at the old path, and a file that is created again starts its versions anew.
Interrupted moves leave texts at paths that have no file, which a later file would show.

*Models and conversations.* A refresh of a catalog marks all its models unavailable and
then gives their statuses back one by one: until it is over every run of that provider's
models fails, and two refreshes at once, or one that fails half way, forget what was
enabled. `ChoicesAreKept` says what is left: a choice survives every refresh that ends and
met no other. Capabilities are checked before a message is known to be a command, so
`/model clear` cannot repair a conversation whose model was disabled. Two changes of a
conversation's settings overwrite one another's columns. An empty summary moves the mark of
what is summarised; the next compaction heals it if it still lists the messages. Messages
that left the scan of a hundred before a compaction merged them are in no context any more.

*Permissions.* A decision may miss a policy that is moved, while it is taken, from a subject
still to be read to one already read; it never sees rights nobody gave. A merge whose
target has gone deletes its source all the same, and two merges that cross delete both
policies. Nor is it enough that two requests are for different subjects: the row that the
one has read may have been moved by the other to a third subject. `PoliciesAreAsAsked`
excludes the subjects of requests that met in a subject or in a row, or that failed half way.

### What the history flags exclude

Some statements are made false by the code itself as soon as certain requests meet. The
properties then carry a flag, set by the step at which the damage is done, and say the
rest: everybody whose paths, models, subjects or sessions were not involved gets what was
promised, however many others were. They do not say that the damage is not done; which of
it is possible is in the notes of the hazards and above.

| Property | Leaves out |
|---|---|
| `CancelHoldsWhenQuiet` | a schedule that is cancelled while a sweep holds its row, its event waits or runs, or a request to run it is half done (`scheduler_finished` shows what happens then) |
| `NothingSkipped` | `mixed`: two session objects or two sessions; `lost`: events whose send to the Queue was rejected after their number was stored |
| `LogoutHolds` | a login poll under way; it speaks of the token, not of the cursor, which a poll may write back |
| `CleanPathsReadBack` | `overlapped` and `interrupted` paths, and files of `shared` contents |
| `BlobsAreKept` | `shared`: large contents that two requests wrote at once |
| `VersionsAreUnique` | `overlapped` paths, and `reused` ones, which were deleted, moved or moved to |
| `ChoicesAreKept` | `unsure`: models that a refresh dropped, met another refresh over, left behind half way, or overwrote beside a choice |
| `CheckedIsCalled` | runs that are not `alone`: an administrator's request came in between |
| `PoliciesAreAsAsked` | `tangled` subjects: requests that met in a subject or a row, or failed half way |
| `OutcomeIsTold` | how many messages and steps a try with a fault has; that its run is over and agrees with its last step holds for all |

`ExecutedIsEntitled` compares with all that the actor could have held since the decision
began, not with any one moment: subjects are read one after the other.

## What is not modelled

- Webhooks of Telegram, QQ and WeCom: a check, a conversion and one event. An update that
  Telegram delivers again gets a new event id (`telegram-webhook.ts:45`), so to everything
  behind it it is another message; WeCom's callback dispatches the latest of the messages
  it fetches (`wecom-webhook.ts:140`), after it was answered.
- Telegram buttons other than those that confirm and reject; of the others the one that
  sends a message is marked used before its message is sent.
- Of the conversation: titles, reasoning settings, images and the role that reads them, and
  which conversation of a chat is the current one. Of models: creating and changing
  providers, credentials and metadata. A choice of a model is one step.
- Of the file system: commands, searching, and what only reads. `LIKE` ignores case, so a
  recursive operation on `/foo` also takes `/Foo` (`vfs/storage/entry-store.ts:70`); the
  model's paths differ in more than case. A recursive deletion takes ten thousand
  entries at most (`delete-store.ts:34`); the model's trees are smaller.
- Skills are files of the file system. Cookie jars are read, changed and written back
  without a check (`tools/http/cookie-jar.ts:61`).
- Several bots, accounts, agents and conversations side by side: they share no state
  but configuration rows.
- The Queue consumer configures no dead letter queue (`wrangler.toml:55`); that messages
  which are retried too often vanish is the platform's.
- Commands, remote tools, MCP, media and model providers: conversions and remote calls
  around single statements, with no protocol of their own.
- Security helpers (ciphers, digests), the admin web UI, diagnostics, migrations and
  scripts: no state of the running system, or nothing a model checker could enumerate.
